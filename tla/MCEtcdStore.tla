---------------------------- MODULE MCEtcdStore ----------------------------
(* Instances of EtcdStore for TLC.                                         *)
EXTENDS EtcdStore, TLC

\* Symmetry of the Get/Watch callers.
CallerSymmetry == Permutations(Callers)

====
