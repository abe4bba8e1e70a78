--------------------------- MODULE MCDiskTransfer ---------------------------
(* Instances of DiskTransfer for TLC.                                      *)
EXTENDS DiskTransfer

\* No block, a hole only, a hole at either end, and up to three layers.
SmallDisks == {<<>>, <<0>>, <<2, 0>>, <<0, 1, 2>>}
TwoNames == <<"sda", "sdb">>
=============================================================================
