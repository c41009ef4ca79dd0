---------------------------- MODULE MCAutoDriver ----------------------------
(***************************************************************************)
(* Instances of AutoDriver.  Each .cfg lets a part of the sensors speak,   *)
(* the others keep the value the node starts with.                         *)
(***************************************************************************)
EXTENDS AutoDriver

\* Sets of integers a .cfg cannot write.
Forward == {1}
BackAndForth == {-1, 1}
=============================================================================
