---------------------------- MODULE MCLidarDriver ----------------------------
(* LidarDriver for TLC: the counters are given small values in the .cfg. *)
EXTENDS LidarDriver
=============================================================================
