----------------------------- MODULE DropLife -----------------------------
(***************************************************************************)
(* A transfer with the two histories the pages go by.  The record itself   *)
(* forgets both: a removed one looks like one that was never created, and  *)
(* takes the receiver events it has counted with it.                       *)
(***************************************************************************)
EXTENDS DropTransfer

VARIABLES
    life,  \* history: the status of the record; "gone" once it is removed
    told   \* history: the furthest receiver event the record has counted

lifeVars == <<vars, life, told>>

(* dropReceiverState *)
Furthest(d) ==
    IF d.delivered > 0 THEN "delivered"
    ELSE IF d.downloading > 0 THEN "downloading"
    ELSE IF d.opened > 0 THEN "opened"
    ELSE "waiting"

Remember ==
    IF drop'.status # "none"
    THEN life' = drop'.status /\ told' = Furthest(drop')
    ELSE life' = (IF Present THEN "gone" ELSE life) /\ UNCHANGED told

LifeInit == Init /\ life = "none" /\ told = "waiting"

LifeSpec == LifeInit /\ [][Next /\ Remember]_lifeVars

(* The service as the pages see it, with a single transfer. *)
Service == INSTANCE DropService WITH
    MaxTransfers <- 1, svc <- [t \in 1..1 |-> life], seen <- [t \in 1..1 |-> told]

(* The routes, the store, the retries and the sweep do to a transfer what  *)
(* the pages expect of the service: it goes from collecting to ready to    *)
(* gone and never back, and the furthest event it has counted only moves   *)
(* forward, and only while it is ready.  This is of the record: a route    *)
(* may answer 410 while an expired record still waits for its sweep.       *)
(* (server/drop-store, dropReceiverState)                                  *)
FollowsService == Service!ServiceSpec
===========================================================================
