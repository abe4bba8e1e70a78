------------------------------ MODULE Transfer ------------------------------
(* What a copy of disk contents promises, whatever way they take: what is    *)
(* delivered is always a beginning of the source, success is reported only   *)
(* when all of it is there, and nothing happens after the report.            *)
EXTENDS Naturals, Sequences

VARIABLES
  source, \* what is to be delivered
  out,    \* what has been delivered
  result  \* "none" while the copy goes on, then "nil" or "error"

vars == <<source, out, result>>

Init == out = <<>> /\ result = "none"

Deliver ==
  /\ result = "none"
  /\ \E n \in Len(out) .. Len(source) :
       /\ out' = SubSeq(source, 1, n)
       /\ result' \in (IF n = Len(source) THEN {"none", "nil"} ELSE {"none"})
  /\ UNCHANGED source

Fail == result = "none" /\ result' = "error" /\ UNCHANGED <<source, out>>

Next == Deliver \/ Fail

Spec == Init /\ [][Next]_vars
=============================================================================
