--------------------------- MODULE DropService ----------------------------
(***************************************************************************)
(* The transfer service as the two pages of a phone-to-phone transfer see  *)
(* it: the record of each transfer and the receiver events it has counted. *)
(* DropTransfer has the routes and the store behind it.                    *)
(***************************************************************************)
EXTENDS Integers, Sequences, FiniteSets, SequencesExt

CONSTANT MaxTransfers  \* bound: the transfers sent one after the other

ASSUME ServiceAssumption == MaxTransfers \in Nat \ {0}

Transfers == 1..MaxTransfers

VARIABLES
    svc,      \* the record of each transfer
    seen      \* how far its receivers have got

service == <<svc, seen>>

ServiceInit ==
    /\ svc = [t \in Transfers |-> "none"]
    /\ seen = [t \in Transfers |-> "waiting"]

(* dropReceiverState: the furthest of the events that were counted. *)
Rank == [waiting |-> 0, opened |-> 1, downloading |-> 2, delivered |-> 3]

Count(t, event) ==
    seen' = [seen EXCEPT ![t] = IF Rank[event] > Rank[@] THEN event ELSE @]

(* The time is over, or the sweep or the sender has removed the record:    *)
(* the service answers 410 or 404, and the pages take both for the end.    *)
Closes(t) ==
    /\ svc[t] \in {"collecting", "ready"}
    /\ svc' = [svc EXCEPT ![t] = "gone"]
    /\ UNCHANGED seen

(* What the sender's side and the receiver's side do to a transfer. *)
Sends(t) ==
    /\ \/ svc[t] = "none" /\ svc' = [svc EXCEPT ![t] = "collecting"]
       \/ svc[t] = "collecting" /\ svc' = [svc EXCEPT ![t] = "ready"]
    /\ UNCHANGED seen

PicksUp(t) ==
    /\ svc[t] = "ready"
    /\ \E event \in {"opened", "downloading", "delivered"} :
          Rank[event] > Rank[seen[t]] /\ Count(t, event)
    /\ UNCHANGED svc

ServiceNext == \E t \in Transfers : Sends(t) \/ PicksUp(t) \/ Closes(t)

ServiceSpec == ServiceInit /\ [][ServiceNext]_service
===========================================================================
