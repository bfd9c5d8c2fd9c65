------------------------------ MODULE MCMedia -------------------------------
(* Instances of Media for TLC: two cards, and four generations, so that the  *)
(* counter wraps.                                                            *)
EXTENDS Media
=============================================================================
