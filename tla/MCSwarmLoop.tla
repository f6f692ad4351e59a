---------------------------- MODULE MCSwarmLoop ----------------------------
(* Three callers, one of each kind, two requests from peers, and channels  *)
(* that are full with one message.                                         *)
EXTENDS SwarmLoop, TLC

CONSTANTS s, r, o

MCMethod == s :> "search" @@ r :> "request" @@ o :> "other"
=============================================================================
