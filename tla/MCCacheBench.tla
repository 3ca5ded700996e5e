---------------------------- MODULE MCCacheBench ----------------------------
(***************************************************************************)
(* Option values for TLC: nothing, a negative number, one that is a number *)
(* of kb with room in an int, and one whose kb wrap to a size of 0 bytes.  *)
(***************************************************************************)
EXTENDS CacheBench

MCArgs == {-1, 0, 2, 6}
=============================================================================
