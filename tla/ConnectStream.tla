---------------------------- MODULE ConnectStream ----------------------------
(***************************************************************************)
(* A Connect server-stream from response bytes to messages: the 5-byte     *)
(* envelopes (connect/envelope.rs) and the generator that server_stream    *)
(* returns (connect/client.rs).  The response body arrives in chunks cut   *)
(* anywhere, and may stop anywhere.                                        *)
(*                                                                         *)
(* Bytes are modelled as bytes, in 0..Base - 1, because framing is what    *)
(* the module is about; a payload is a short string of them, and decoding  *)
(* its JSON is asking whether it is one of Messages.                       *)
(***************************************************************************)
EXTENDS Integers, SequencesExt

CONSTANTS Base,     \* values of a byte: 256 in the code
          Messages, \* payloads that decode as a message
          Errors,   \* end-stream payloads that carry an error
          Frames,   \* frames a server may send: records with flags and data
          MaxFrames \* bound: frames a server sends

ASSUME BaseAssumption == Base \in Nat /\ Base >= 4
\* A frame's length has four bytes, so nobody sends a longer one.
ASSUME FramesAssumption ==
  \A f \in Frames : /\ f = [flags |-> f.flags, data |-> f.data]
                    /\ f.flags \in 0..Base - 1 /\ f.data \in Seq(0..Base - 1)
                    /\ Len(f.data) < Base * Base * Base * Base

VARIABLES
  sent,  \* the frames the server has sent
  wire,  \* bytes of the body not yet received
  net,   \* "open"; "eof" or "broken" once nothing will follow wire
  buf,   \* the decoder's buffer
  gen,   \* the generator: "requesting", "failed" (no stream at all),
         \* "reading" (the next chunk), "decoding", "done", "dropped"
  items, \* the messages it yielded
  end    \* how it ended: "none", "clean", "error"

vars == <<sent, wire, net, buf, gen, items, end>>

-----------------------------------------------------------------------------
(* Envelopes.                                                              *)

HeaderLen == 5
MaxLen    == Base * Base * Base * Base - 1   \* u32::MAX

BigEndian(n) == LET n2 == n \div Base
                    n3 == n2 \div Base
                IN  <<n3 \div Base, n3 % Base, n2 % Base, n % Base>>
Length(b)    == ((b[2] * Base + b[3]) * Base + b[4]) * Base + b[5]

\* encode_envelope.  A payload beyond u32::MAX gets the largest length.
Encode(f) == LET n == Len(f.data)
             IN  <<f.flags>> \o BigEndian(IF n <= MaxLen THEN n ELSE MaxLen)
                   \o f.data

\* next_frame: whether b starts with a whole frame, that frame, and the rest.
\* Fault (mutant of HasFrame): a frame that ends the buffer is not seen.
WantsOneMore(b) == Len(b) >= HeaderLen /\ Len(b) > HeaderLen + Length(b)
HasFrame(b)  == Len(b) >= HeaderLen /\ Len(b) >= HeaderLen + Length(b)
FirstFrame(b) == [flags |-> b[1],
                  data  |-> SubSeq(b, HeaderLen + 1, HeaderLen + Length(b))]
\* Fault (mutant of AfterFrame): only the header is consumed.
AfterHeader(b) == SubSeq(b, HeaderLen + 1, Len(b))
AfterFrame(b) == SubSeq(b, HeaderLen + Length(b) + 1, Len(b))

IsEndStream(f) == (f.flags \div 2) % 2 = 1

\* What a frame means to the generator; end_stream_error.
Meaning(f) == IF IsEndStream(f)
              THEN IF f.data \in Errors THEN "error" ELSE "clean"
              ELSE IF f.data \in Messages THEN "message" ELSE "error"

-----------------------------------------------------------------------------
(* The server and the connection.                                          *)

Init == /\ sent = << >> /\ wire = << >> /\ net = "open"
        /\ buf = << >> /\ gen = "requesting" /\ items = << >> /\ end = "none"

\* Nothing follows an end-stream frame.
ServerSends == /\ net = "open" /\ Len(sent) < MaxFrames
               /\ sent # << >> => ~ IsEndStream(Last(sent))
               /\ \E f \in Frames : /\ sent' = Append(sent, f)
                                    /\ wire' = wire \o Encode(f)
               /\ UNCHANGED <<net, buf, gen, items, end>>

ServerCloses == /\ net = "open"
                /\ net' = "eof"
                /\ UNCHANGED <<sent, wire, buf, gen, items, end>>

\* A body cut at any byte.  What follows is a transport error, or, for a body
\* that only the closing of its connection delimits, just its end.
Break == /\ net = "open"
         /\ net' \in {"eof", "broken"}
         /\ \E n \in 0..Len(wire) : wire' = SubSeq(wire, 1, n)
         /\ UNCHANGED <<sent, buf, gen, items, end>>

-----------------------------------------------------------------------------
(* server_stream.                                                          *)

\* 2xx: the stream is returned; nothing of the body has been read.
Answered == /\ gen = "requesting" /\ net # "broken"
            /\ gen' = "reading"
            /\ UNCHANGED <<sent, wire, net, buf, items, end>>

\* A transport error or a status that is not 2xx: Err, and no stream.
Refused == /\ gen = "requesting"
           /\ gen' = "failed"
           /\ UNCHANGED <<sent, wire, net, buf, items, end>>

ReceiveChunk == /\ gen = "reading" /\ wire # << >>
                /\ \E n \in 1..Len(wire) :
                     /\ buf' = buf \o SubSeq(wire, 1, n)
                     /\ wire' = SubSeq(wire, n + 1, Len(wire))
                /\ gen' = "decoding"
                /\ UNCHANGED <<sent, net, items, end>>

Ends(how) == gen' = "done" /\ end' = how

\* The body is over: the loop ends, whatever the buffer still holds.
BodyEnds == /\ gen = "reading" /\ wire = << >> /\ net = "eof"
            /\ Ends("clean")
            /\ UNCHANGED <<sent, wire, net, buf, items>>

\* Fault (mutant of BodyFails): a transport error reads as the end of the body.
BodyFailsQuietly == /\ gen = "reading" /\ wire = << >> /\ net = "broken"
                    /\ Ends("clean")
                    /\ UNCHANGED <<sent, wire, net, buf, items>>

BodyFails == /\ gen = "reading" /\ wire = << >> /\ net = "broken"
             /\ Ends("error")
             /\ UNCHANGED <<sent, wire, net, buf, items>>

\* One turn of the inner loop.  Between two turns the generator may be
\* suspended at its yield.
NeedMore == /\ gen = "decoding" /\ ~ HasFrame(buf)
            /\ gen' = "reading"
            /\ UNCHANGED <<sent, wire, net, buf, items, end>>

DecodeFrame == /\ gen = "decoding" /\ HasFrame(buf)
               /\ LET f == FirstFrame(buf)
                  IN  IF Meaning(f) = "message"
                      THEN items' = Append(items, f.data) /\ UNCHANGED <<gen, end>>
                      ELSE Ends(Meaning(f)) /\ UNCHANGED items
               /\ buf' = AfterFrame(buf)
               /\ UNCHANGED <<sent, wire, net>>

\* The consumer drops the stream, and with it the response.
Drop == /\ gen \in {"reading", "decoding"}
        /\ gen' = "dropped"
        /\ UNCHANGED <<sent, wire, net, buf, items, end>>

-----------------------------------------------------------------------------
Server == ServerSends \/ ServerCloses \/ Break
Poll   == ReceiveChunk \/ BodyEnds \/ BodyFails \/ NeedMore \/ DecodeFrame

Next == Server \/ Answered \/ Refused \/ Poll \/ Drop

Spec == Init /\ [][Next]_vars

\* A consumer that has a stream keeps polling it or drops it: the driver of a
\* command and the task of a watch are such consumers.
FairSpec == Spec /\ WF_vars(Poll)

-----------------------------------------------------------------------------
(* Properties.                                                             *)

Byte == 0..Base - 1

\* Every variable has its type; an end was seen exactly when the generator is
\* done.
TypeOK == /\ sent \in Seq(Frames)
          /\ wire \in Seq(Byte) /\ buf \in Seq(Byte)
          /\ net \in {"open", "eof", "broken"}
          /\ gen \in {"requesting", "failed", "reading", "decoding", "done",
                      "dropped"}
          /\ items \in Seq(Messages)
          /\ end \in {"none", "clean", "error"}
          /\ end = "none" <=> gen # "done"

\* The bytes that frames are sent as, one frame's after the other's.
Bytes(fs) == LET upto[n \in 0..Len(fs)] ==
                   IF n = 0 THEN << >> ELSE upto[n - 1] \o Encode(fs[n])
             IN  upto[Len(fs)]

\* The frame the generator has to decode next.
Pending == SubSeq(sent, Len(items) + 1, Len(sent))

\* However the body was cut into chunks, what was yielded is what was sent,
\* frame by frame, and the decoder's buffer starts where the next frame
\* does: a split header, an empty payload or several frames in one chunk
\* shift nothing.
Reassembled ==
  /\ Len(items) <= Len(sent)
  /\ \A i \in 1..Len(items) : /\ Meaning(sent[i]) = "message"
                              /\ items[i] = sent[i].data
  /\ end = "none" => IsPrefix(buf \o wire, Bytes(Pending))

\* A generator that waits for bytes has no whole frame left.
NothingStranded ==
  gen = "reading" /\ Pending # << >> => Len(buf) < Len(Encode(Head(Pending)))

\* Nothing is missing from a body that is still open, and nothing is read of one
\* before there is a stream.
NothingMissing ==
  /\ end = "none" /\ net = "open" => buf \o wire = Bytes(Pending)
  /\ gen = "requesting" => buf = << >>

\* What the decoder (server_stream) keeps true: types, bytes, and their order.
IInv == TypeOK /\ Reassembled /\ NothingStranded /\ NothingMissing

\* Once its last frame has arrived, or the connection is gone, a stream that
\* is polled ends: it does not wait for bytes that will not come.
StreamEnds ==
  gen = "reading" /\ (net # "open" \/ \E i \in 1..Len(sent) :
                                        Meaning(sent[i]) # "message")
    ~> gen \in {"done", "dropped"}

\* ------------------------------------------------------------ refinement
\* The first k of the frames p lie whole in the first size bytes of theirs.
Arrived(p, size, k) == k <= Len(p) /\ Len(Bytes(SubSeq(p, 1, k))) <= size

IsMessage(p, size, k) == Arrived(p, size, k) /\ Meaning(p[k]) = "message"

\* How many messages stand before the first frame that is none or not whole.
AreReady(p, size, n) == /\ \A k \in 1..n : IsMessage(p, size, k)
                        /\ ~ IsMessage(p, size, n + 1)
Ready(p, size) == CHOOSE n \in 0..Len(p) : AreReady(p, size, n)

Size == Len(buf) + Len(wire)
Listening == gen \in {"requesting", "reading", "decoding"}

\* A message of which every byte was sent is handed out to a consumer that polls,
\* though nothing else may ever be sent and the connection stay open: however
\* the chunks were cut, server_stream does not wait for the bytes that follow.
\* Only a body cut in front of the unread message keeps it back.
MessagesAreShown ==
  \A n \in 1..MaxFrames :
    gen \in {"reading", "decoding"} /\ n <= Len(items) + Ready(Pending, Size)
      ~> Len(items) >= n \/ gen = "dropped" \/ n > Len(items) + Ready(Pending, Size)

Queue == IF Listening
         THEN [i \in 1..Ready(Pending, Size) |-> Pending[i].data] ELSE << >>

\* What the frame after those is, and without one, the connection.
FateOf(p, size, n) ==
  IF Arrived(p, size, n + 1)
  THEN IF Meaning(p[n + 1]) = "clean" THEN "closed" ELSE "failed"
  ELSE CASE net = "open"   -> "live"
         [] net = "eof"    -> "cut"
         [] net = "broken" -> "failed"

Fate == IF Listening THEN FateOf(Pending, Size, Ready(Pending, Size)) ELSE "over"

Stream == INSTANCE MessageStream WITH queue <- Queue, fate <- Fate

\* Bytes, chunks and buffer together keep the promise of MessageStream.
ImplementsMessageStream == Stream!Spec
=============================================================================
