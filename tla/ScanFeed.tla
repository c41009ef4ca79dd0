------------------------------ MODULE ScanFeed ------------------------------
(***************************************************************************)
(* What a reader of /scan may rely on: a source with one place for a scan. *)
(* A scan that waits is overwritten by a newer one, is shown at most once, *)
(* and is thrown away when the source stops.                               *)
(***************************************************************************)
EXTENDS Naturals

VARIABLES
  running,   \* the source measures
  ready,     \* a scan measured since the start waits and was not shown yet
  turn       \* changes with every scan that is shown

vars == <<running, ready, turn>>

Init == ~running /\ ~ready /\ turn = 0

Start   == ~running /\ running' /\ UNCHANGED <<ready, turn>>
Measure == running /\ ready' /\ UNCHANGED <<running, turn>>
Discard == running /\ ~ready' /\ UNCHANGED <<running, turn>>
Show    == running /\ ready /\ ~ready' /\ turn' = 1 - turn /\ UNCHANGED running
Stop    == running /\ ~running' /\ ~ready' /\ UNCHANGED turn

Next == Start \/ Measure \/ Discard \/ Show \/ Stop

Spec == Init /\ [][Next]_vars
=============================================================================
