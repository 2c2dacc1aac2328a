--------------------------- MODULE MCInstanceStore ---------------------------
(* Symmetric processes and instances for the runs of InstanceStore.          *)
EXTENDS InstanceStoreReads, TLC

StoreSymmetry == Permutations(Procs) \cup Permutations(Ids)
==============================================================================
