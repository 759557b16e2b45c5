------------------------------- MODULE MCFraming -------------------------------
(* Five messages of different lengths. *)
EXTENDS Framing

Lengths == <<2, 1, 3, 1, 2>>
================================================================================
