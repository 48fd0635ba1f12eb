------------------------ MODULE MCKioskCoordinator ------------------------
(* Small instances of KioskCoordinator. *)
EXTENDS KioskCoordinator, TLC

(* Slots are only compared.  Used in runs without liveness properties. *)
Symmetry == Permutations(Runs)
============================================================================
