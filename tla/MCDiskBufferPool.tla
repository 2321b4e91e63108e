-------------------------- MODULE MCDiskBufferPool --------------------------
(* DiskBufferPool for TLC: the callers' handles are interchangeable. *)
EXTENDS DiskBufferPool, TLC

Symmetry == Permutations(Handle)
=============================================================================
