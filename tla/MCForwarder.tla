---------------------------- MODULE MCForwarder ----------------------------
(* Instances of Forwarder for TLC.                                         *)
EXTENDS Forwarder
============================================================================
