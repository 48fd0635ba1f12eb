---------------------------- MODULE MCDropLife ----------------------------
(* The instances of MCDropTransfer, with their histories. *)
EXTENDS MCDropTransfer, DropLife

MCLifeSpec == MCInit /\ LifeInit /\ [][Next /\ Remember]_lifeVars
===========================================================================
