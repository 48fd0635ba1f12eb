----------------------------- MODULE SendPage -----------------------------
(***************************************************************************)
(* The sending phone's page (components/drop/send-flow.tsx) over sendDrop  *)
(* (lib/drop-transfer.ts), used for one transfer after another.  The page  *)
(* keeps refs (the record a failure would have to erase, the abort         *)
(* controller) and state, and the promises of a transfer that is over may  *)
(* still write to both when the next one is on the screen.                 *)
(*                                                                         *)
(* A transfer is its number; the page starts them in order.                *)
(***************************************************************************)
EXTENDS DropService

CONSTANTS
    MaxAttempts,   \* MAX_ATTEMPTS of withRetry
    MaxSendFaults  \* bound: its requests and answers that are lost

ASSUME SendAssumption == MaxAttempts \in Nat \ {0} /\ MaxSendFaults \in Nat

VARIABLES
    send,     \* sendDrop and its catch clause, by transfer; late is history
    spage,    \* the state of the page
    created,  \* its ref: the record a failure would have to erase
    abort,    \* its ref: the transfer whose AbortController it holds
    erasing,  \* the deletions the sender asked for that are under way
    polls,    \* the status answers under way that the page still heeds
    sfaults   \* faults so far

sendOwn == <<send, spage, created, abort, erasing, polls, sfaults>>
sendVars == <<service, sendOwn>>

SendFault == sfaults < MaxSendFaults /\ sfaults' = sfaults + 1
NoSendFault == UNCHANGED sfaults

---------------------------------------------------------------------------
(* The effect that polls the status depends on deleted, receiver, result   *)
(* and stage: when one changes, no answer under way is heeded any more.    *)

Heeded(p) == <<p.deleted, p.receiver, p.result, p.stage>>

ShowAll(p) == spage' = p /\ polls' = polls  \* mutant: no cleanup of the effect
Show(p) ==
    /\ spage' = p
    /\ polls' = IF Heeded(p) = Heeded(spage) THEN polls ELSE {}

Idle == [at |-> "none", tries |-> 0, aborted |-> FALSE, revokes |-> 0, late |-> FALSE]

Start(t) ==
    /\ spage.stage = "pick"
    /\ send[t] = Idle
    /\ \A u \in 1..t - 1 : send[u] # Idle
    /\ send' = [send EXCEPT ![t].at = "creating"]
    /\ abort' = t
    /\ Show([spage EXCEPT !.stage = "sending", !.sealed = FALSE, !.receiver = "waiting"])
    /\ UNCHANGED <<svc, seen, created, erasing, sfaults>>

Over(sends, t) == [sends EXCEPT ![t].at = "over"]

(* The catch clause of start.  It reads the ref, whichever transfer that   *)
(* holds by now.                                                           *)
Fail(t) ==
    IF created = 0
    THEN /\ send' = Over(send, t)
         /\ abort' = 0
         /\ Show([spage EXCEPT !.stage = "error"])
    ELSE /\ send' = [send EXCEPT ![t].at = "revoking", ![t].revokes = created]
         /\ UNCHANGED <<abort, spage, polls>>

(* onDropCreated and showCode; drawing the code takes no request and ends  *)
(* before any other event of the page.  A record is late when the page has *)
(* stopped waiting for one: it shows another code by now, or an error.     *)
Created(t) ==
    /\ send[t].at = "creating"
    /\ \/ /\ svc' = [svc EXCEPT ![t] = "collecting"]
          /\ send' = [send EXCEPT ![t].at = "uploading", ![t].late = spage.stage # "sending"]
          /\ created' = t
          /\ Show([spage EXCEPT !.stage = "ready", !.result = t])
          /\ NoSendFault /\ UNCHANGED abort
       \/ SendFault /\ Fail(t) /\ UNCHANGED <<svc, created>>
    /\ UNCHANGED <<seen, erasing>>

(* The parts are up, or the signal was aborted, or a part could not be     *)
(* sent.                                                                   *)
Upload(t) ==
    /\ send[t].at = "uploading"
    /\ \/ /\ send[t].aborted
          /\ Fail(t) /\ NoSendFault
       \/ /\ ~send[t].aborted
          /\ send' = [send EXCEPT ![t].at = "sealing"]
          /\ NoSendFault /\ UNCHANGED <<abort, spage, polls>>
       \/ /\ ~send[t].aborted /\ SendFault
          /\ Fail(t)
    /\ UNCHANGED <<svc, seen, created, erasing>>

(* The last request, which a signal does not abort; it stands for the      *)
(* others of sendDrop too.                                                 *)
ServeSeal(t) ==
    /\ send[t].at = "sealing" /\ svc[t] # "gone"
    /\ send' = [send EXCEPT ![t].at = "sealed"]
    /\ svc' = [svc EXCEPT ![t] = "ready"]
    /\ UNCHANGED <<seen, spage, created, abort, erasing, polls, sfaults>>

Sent(t) ==
    /\ send[t].at = "sealed"
    /\ send' = Over(send, t)
    /\ created' = 0
    /\ abort' = 0
    /\ Show([spage EXCEPT !.sealed = TRUE])
    /\ UNCHANGED <<svc, seen, erasing, sfaults>>

(* Mutant: a final answer is taken like a lost one and asked for again.    *)
SealRefusedAgain(t) == send[t].at = "sealing" /\ svc[t] = "gone" /\ UNCHANGED sendVars

SealRefused(t) ==
    /\ send[t].at = "sealing" /\ svc[t] = "gone"
    /\ Fail(t)
    /\ UNCHANGED <<svc, seen, created, erasing, sfaults>>

(* withRetry: no answer.  The next attempt looks at the signal first.      *)
Exhausted(tries) == tries + 1 = MaxAttempts

SealLost(t) ==
    /\ send[t].at \in {"sealing", "sealed"}
    /\ SendFault
    /\ IF Exhausted(send[t].tries) \/ send[t].aborted
       THEN Fail(t)
       ELSE /\ send' = [send EXCEPT ![t].at = "sealing", ![t].tries = @ + 1]
            /\ UNCHANGED <<abort, spage, polls>>
    /\ UNCHANGED <<svc, seen, created, erasing>>

Delete(t) ==
    \/ svc' = [svc EXCEPT ![t] = "gone"] /\ NoSendFault
    \/ UNCHANGED svc /\ SendFault

Revoked(t) ==
    /\ send[t].at = "revoking"
    /\ Delete(send[t].revokes)
    /\ send' = Over(send, t)
    /\ created' = 0
    /\ abort' = 0
    /\ Show([spage EXCEPT !.stage = "error"])
    /\ UNCHANGED <<seen, erasing>>

Aborted(sends) == IF abort = 0 THEN sends ELSE [sends EXCEPT ![abort].aborted = TRUE]

Stop ==
    /\ spage.stage = "sending"
    /\ send' = Aborted(send)
    /\ UNCHANGED <<svc, seen, spage, created, abort, erasing, polls, sfaults>>

Erase ==
    /\ spage.stage = "ready" /\ ~spage.deleted
    /\ spage.result \notin erasing
    /\ send' = Aborted(send)
    /\ created' = 0
    /\ erasing' = erasing \cup {spage.result}
    /\ UNCHANGED <<svc, seen, spage, abort, polls, sfaults>>

(* A deletion that fails is taken like one that succeeds. *)
Erased(t) ==
    /\ t \in erasing
    /\ erasing' = erasing \ {t}
    /\ Delete(t)
    /\ Show([spage EXCEPT !.deleted = TRUE])
    /\ UNCHANGED <<seen, send, created, abort>>

MayRestart ==
    \/ spage.stage = "error"
    \/ spage.stage = "ready" /\ (spage.deleted \/ spage.receiver = "delivered")

FreshPage == [stage |-> "pick", result |-> 0, sealed |-> FALSE, deleted |-> FALSE,
              receiver |-> "waiting"]

Restart ==
    /\ MayRestart
    /\ Show(FreshPage)
    /\ UNCHANGED <<svc, seen, send, created, abort, erasing, sfaults>>

(* An answer that says what the page shows already changes nothing and is  *)
(* left out.                                                               *)
PollStatus ==
    /\ spage.stage = "ready" /\ ~spage.deleted /\ spage.receiver # "delivered"
    /\ svc[spage.result] # "gone"
    /\ seen[spage.result] \notin polls \cup {spage.receiver}
    /\ polls' = polls \cup {seen[spage.result]}
    /\ UNCHANGED <<svc, seen, send, spage, created, abort, erasing, sfaults>>

PollAnswered ==
    /\ \E state \in polls : Show([spage EXCEPT !.receiver = state])
    /\ UNCHANGED <<svc, seen, send, created, abort, erasing, sfaults>>

---------------------------------------------------------------------------
SendInit ==
    /\ ServiceInit /\ sfaults = 0
    /\ send = [t \in Transfers |-> Idle]
    /\ spage = FreshPage
    /\ created = 0 /\ abort = 0 /\ erasing = {} /\ polls = {}

(* What goes on by itself. *)
Steps == \E t \in Transfers :
    \/ Created(t) \/ Upload(t) \/ ServeSeal(t) \/ Sent(t) \/ SealRefused(t) \/ SealLost(t)
    \/ Revoked(t) \/ Erased(t)

(* What the sender's page does. *)
SendStep ==
    \/ Steps \/ Stop \/ Erase \/ Restart \/ PollStatus \/ PollAnswered
    \/ \E t \in Transfers : Start(t)

(* The receiver's side, and the end of a transfer. *)
ReceiverActs(t) == (Closes(t) \/ PicksUp(t)) /\ UNCHANGED sendOwn

SendNext == SendStep \/ \E t \in Transfers : ReceiverActs(t)

SendSpec == SendInit /\ [][SendNext]_sendVars

(* Every request is answered or times out. *)
SendLiveSpec == SendSpec /\ WF_sendVars(Steps)

---------------------------------------------------------------------------
(* Properties *)

(* The page never says more of the transfer it shows than the service has  *)
(* counted for that one, however polls of this and of the transfer before  *)
(* overlap, unless its record was late: a late one takes the place of the  *)
(* transfer on the screen and inherits what was said of that one.          *)
(* (the polling effect and its cleanup, showCode)                          *)
ReceiverNotAhead ==
    spage.stage = "ready" /\ ~send[spage.result].late =>
        Rank[spage.receiver] <= Rank[seen[spage.result]]

(* Every send that was started ends.  (sendDrop, withRetry, start)         *)
SendEnds == \A t \in Transfers : (send[t].at = "creating") ~> (send[t].at = "over")

(* What the code promises and does not keep. *)

(* The page says of a transfer that nobody can open it any more.           *)
ErasedIsGone ==
    spage.stage = "ready" /\ spage.deleted => svc[spage.result] = "gone"

(* A send that fails erases its own record.                                *)
RevokesOwn == \A t \in Transfers : send[t].at = "revoking" => send[t].revokes = t
============================================================================
