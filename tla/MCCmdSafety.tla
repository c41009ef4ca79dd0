---------------------------- MODULE MCCmdSafety ----------------------------
(***************************************************************************)
(* Instances of CmdSafety: one unit of speed is 0.016 m/s, so a loop of    *)
(* 20 ms may change linear.x by 1; the second channel is faster.           *)
(***************************************************************************)
EXTENDS CmdSafety

Two == {"linear", "angular"}
SpeedsTwo == {-4, 0, 3}
AccelTwo == [c \in Two |-> IF c = "linear" THEN 1 ELSE 2]
DeadTwo == [c \in Two |-> IF c = "linear" THEN 1 ELSE 2]
=============================================================================
