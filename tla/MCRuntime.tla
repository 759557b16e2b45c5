------------------------------- MODULE MCRuntime -------------------------------
(* With six ticks in a second: modules at 2 Hz and 3 Hz, and one that has its  *)
(* turn every one and a half seconds.                                          *)
EXTENDS Runtime

Periods == <<3, 2, 9>>
================================================================================
