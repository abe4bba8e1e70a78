----------------------------- MODULE MCRunStop -----------------------------
(* Instances of RunStop for TLC.                                           *)
EXTENDS RunStop

============================================================================
