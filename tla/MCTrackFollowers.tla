--------------------------- MODULE MCTrackFollowers ---------------------------
(***************************************************************************)
(* A switch as scripts/PKP/switchL34R300.tcl throws it: str, the straight  *)
(* branch, or left begins at the beginning of main, and main ends in the   *)
(* end of left: a loop that brings a vehicle back turned round.            *)
(***************************************************************************)
EXTENDS TrackFollowers, TLC

CONSTANTS main, str, left, v1

TheTracks == {main, str, left}
Lengths == main :> 4 @@ str :> 2 @@ left :> 4
Axles2 == <<-1, 1>>
Steps == {-2, 2, 4}

C(t1, e1, t2, e2) == [t1 |-> t1, e1 |-> e1, t2 |-> t2, e2 |-> e2]
ToLeft  == C(left, "prev", main, "prev")
ToStr   == C(str, "next", main, "prev")
AsLoaded == <<ToLeft, C(main, "next", left, "next"), ToStr>>
Commands == {ToLeft, ToStr}
===============================================================================
