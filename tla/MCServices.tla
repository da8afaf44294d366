----------------------------- MODULE MCServices -----------------------------
(***************************************************************************)
(* A small instance of every part.  c1 and c2 are clients of one process,  *)
(* c3 of another.                                                          *)
(***************************************************************************)
EXTENDS Services

MCProcessOf(c) == IF c = "c3" THEN "p2" ELSE "p1"
=============================================================================
