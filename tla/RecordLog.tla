------------------------------ MODULE RecordLog ------------------------------
(***************************************************************************)
(* What a recording promises of the shared memory it accepts: the file     *)
(* holds it in the order in which it was accepted, without gaps, each      *)
(* memory under its own header and as it was when it was accepted.         *)
(***************************************************************************)
EXTENDS Integers, Sequences

CONSTANT Numbers \* of the containers that may be accepted

VARIABLES
  accepted, \* the containers accepted so far
  written   \* the file: headers, and the memory written under each

logVars == <<accepted, written>>

Init == accepted = <<>> /\ written = <<>>

Accept(n) ==
  /\ accepted' = Append(accepted, n)
  /\ UNCHANGED written

Write ==
  /\ Len(written) < Len(accepted)
  /\ LET next == accepted[Len(written) + 1]
     IN  written' = Append(written, [head |-> next, data |-> next])
  /\ UNCHANGED accepted

Next == Write \/ \E n \in Numbers : Accept(n)

Spec == Init /\ [][Next]_logVars
================================================================================
