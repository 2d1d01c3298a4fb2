--------------------------- MODULE StartPointPool ---------------------------
(***************************************************************************)
(* What the server promises about the start points of a scenery: a point   *)
(* belongs to nobody or to one player, a player has at most one point, it  *)
(* is given the first free one, keeps it until it gives it back, and only  *)
(* then can somebody else have it.  SessionServer implements this with the *)
(* owner field of g_StartPoints, a critical section and the Train::sp      *)
(* pointers.                                                               *)
(***************************************************************************)
EXTENDS Naturals

CONSTANTS
  Players,       \* the DPNIDs that ever appear in the session
  NumPoints,     \* how many start points scenery.cfg lists
  Nobody         \* no player: the owner 0xFFFFFFFF of a free start point

Points == 1..NumPoints

VARIABLE owner   \* owner[s]: the player that has start point s

TypeOK == owner \in [Points -> Players \cup {Nobody}]

Free == {s \in Points : owner[s] = Nobody}

FirstFree(s) == s \in Free /\ \A t \in Free : s <= t

Init == owner = [s \in Points |-> Nobody]

Grant(p, s) ==
  /\ \A t \in Points : owner[t] # p
  /\ FirstFree(s)
  /\ owner' = [owner EXCEPT ![s] = p]

GiveBack(p, s) ==
  /\ owner[s] = p
  /\ owner' = [owner EXCEPT ![s] = Nobody]

Next == \E p \in Players, s \in Points : Grant(p, s) \/ GiveBack(p, s)

Spec == Init /\ [][Next]_owner
=============================================================================
