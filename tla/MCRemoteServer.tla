---------------------------- MODULE MCRemoteServer ----------------------------
EXTENDS RemoteServer, TLC

CONSTANTS c1, c2, sub

(* c1 goes to an object, or sends something without the zero at its end,   *)
(* and asks where it is; c2 deletes the object or tries a command.         *)
GoesAndTries ==
  c1 :> [do : {"go"}, obj : {sub}] \cup [do : {"prompt", "broken"}, obj : {None}] @@
  c2 :> [do : {"delete"}, obj : {sub}] \cup Commands
TwoAndOne == c1 :> 2 @@ c2 :> 1
===============================================================================
