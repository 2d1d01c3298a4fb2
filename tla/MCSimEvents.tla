---------------------------- MODULE MCSimEvents ----------------------------
(***************************************************************************)
(* A small cab, wired as scripts/utilities.tcl and 303e_ctrl.tcl do it:    *)
(* rep is a key that repeats while it is held (inc_rep_*: ask getbutton,   *)
(* turn the lever, relaunch itself with a delay), clock relaunches itself  *)
(* for ever.  Of the two momentary buttons a click on styczniki launches   *)
(* push, which sets it, and the space bar sets czuwak; letting either go   *)
(* launches clock, as release_czuwak does czuwak_reset.                    *)
(***************************************************************************)
EXTENDS SimEvents, TLC

CONSTANTS rep, clock, push, lever, styczniki, czuwak

MCEvents  == {rep, clock, push}
MCHolders == {lever, styczniki, czuwak}

Exec(e, d) == [op |-> "exec", ev |-> e, delay |-> d]
Ask        == [op |-> "ask"]
Turn(h, by, rot) == [op |-> "changestate", holder |-> h, by |-> by, rot |-> rot]

MCCommands ==
  { Ask, Exec(rep, 0), Exec(rep, 1), Exec(push, 0), Exec(clock, 1),
    Turn(lever, 1, TRUE), Turn(lever, -1, FALSE), Turn(styczniki, 1, TRUE),
    [op |-> "abort", ev |-> rep],
    [op |-> "setlaunchevent", ev |-> push, to |-> <<clock, 2>>],
    [op |-> "addstate", holder |-> lever, state |-> 1, to |-> <<rep, 2>>],
    [op |-> "setmomentary", holder |-> lever, on |-> FALSE],
    [op |-> "setstate", holder |-> czuwak, state |-> 1],
    [op |-> "setsimtime", time |-> 0],
    [op |-> "releasemomentary"] }

MCBody == (rep :> <<Ask, Turn(lever, 1, TRUE), Exec(rep, 1)>>)
          @@ (clock :> <<>>) @@ (push :> <<Turn(styczniki, 1, TRUE)>>)

MCLaunches == [e \in MCEvents |-> IF e = clock THEN <<clock, 2>> ELSE NoEvent]

MCStateEvents == (lever :> (0 :> <<clock, 1>>))
                 @@ (styczniki :> (0 :> <<clock, 0>> @@ 1 :> <<clock, 1>>))
                 @@ (czuwak :> (0 :> <<clock, 0>> @@ 1 :> <<rep, 0>>))

MCMomentary == {styczniki, czuwak}

(* Letting a button of this cab go sets no holder.                         *)
ASSUME ReleasesAreQuiet == ReleaseIsQuiet
=============================================================================
