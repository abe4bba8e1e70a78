----------------------------- MODULE MCDiskPull -----------------------------
(* Instances of DiskPull for TLC.                                          *)
EXTENDS DiskPull

\* Three layers of two disks in any order: holes at either end, more than one
\* block, and the layer without data that an empty disk is pushed as.
SmallManifests ==
  [1 .. 3 -> {[disk |-> d, data |-> b, size |-> Len(b)] :
                d \in Disk, b \in {<<>>, <<1>>, <<0, 1>>, <<2, 0>>}}]
=============================================================================
