-------------------------- MODULE MCDropTransfer --------------------------
(* Two small instances of DropTransfer in one run.  With faults: one short *)
(* file, or, in two batches, a file of two parts with an empty one, and a  *)
(* single receiver.  Without faults: a file of one chunk and an empty one, *)
(* and two receivers whose events race with each other.                    *)
EXTENDS DropTransfer, TLC

MCSelections == {<<1>>, <<2, 0>>, <<3, 0>>}

MCInit ==
    /\ Init
    /\ IF \A r \in Receivers : rx[r] = "opened"
       THEN files = <<2, 0>> /\ faults = MaxFaults
       ELSE files \in {<<1>>, <<3, 0>>} /\ faults = 0

MCSpec == MCInit /\ [][Next]_vars

Symmetry == Permutations(Receivers)
============================================================================
