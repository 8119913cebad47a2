---------------------------- MODULE Composition ----------------------------
(***************************************************************************)
(* Components that share no state are composed to be checked in one run:   *)
(* `active` names one of them in the initial state and only that one       *)
(* moves.  The others rest in one of their initial states, which one does  *)
(* not matter.  Services and Tools are such compositions.                  *)
(***************************************************************************)
CONSTANT None

VARIABLE active

InitialChoice(c, all, one) == IF active = c THEN all ELSE {one}
=============================================================================
