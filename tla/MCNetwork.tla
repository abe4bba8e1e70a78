----------------------------- MODULE MCNetwork -----------------------------
(* Instances of Network for TLC.                                           *)
EXTENDS Network

\* Four bits of address: two private blocks, of two subnets and of one.
TwoPrivate == {[base |-> 0, size |-> 8], [base |-> 12, size |-> 4]}

\* Networks smaller than a subnet, around a private block, of all the first one,
\* with and without host bits.
SomeForeign ==
  {[ip |-> 5, size |-> 2], [ip |-> 12, size |-> 8], [ip |-> 1, size |-> 8], [ip |-> 6, size |-> 2]}
============================================================================
