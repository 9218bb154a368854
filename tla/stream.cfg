CONSTANTS
  Base = 4
  Messages <- MCMessages
  Errors <- MCErrors
  Frames <- MCFrames
  MaxFrames = 2
SPECIFICATION FairSpec
INVARIANT IInv
PROPERTIES
  MessagesAreShown
  ImplementsMessageStream
  StreamEnds
CHECK_DEADLOCK FALSE
