-------------------------- MODULE MCGitCredentials --------------------------
(* GitCredentials with one, two or three callers.                          *)
EXTENDS GitCredentials, TLC

CONSTANTS alice, bob, carol

OnePush  == alice :> "push"
TwoPush  == alice :> "push" @@ bob :> "push"
ClonePushPull == alice :> "clone" @@ bob :> "push" @@ carol :> "pull"
=============================================================================
