---------------------------- MODULE ReceivePage ---------------------------
(***************************************************************************)
(* The receiving phone's page (components/drop/receive-flow.tsx), used for *)
(* one transfer after another.  It opens a code, waits while the sender is *)
(* still uploading, saves or shares the files one by one or all of them,   *)
(* and reports the delivery.  A save that is under way holds the transfer  *)
(* it was started for; the states of the files are the page's.  Taps       *)
(* before the page looks busy start saves that overlap.                    *)
(***************************************************************************)
EXTENDS DropService

CONSTANTS
    FileCounts,       \* how many files each transfer has
    Saves,            \* bound: the saves, each begun at most once
    MaxReceiveFaults  \* bound: requests lost, writes that fail

ASSUME PageAssumption ==
    /\ FileCounts \in [Transfers -> Nat \ {0}] /\ "null" \notin Saves
    /\ MaxReceiveFaults \in Nat

Files(t) == 1..FileCounts[t]

VARIABLES
    rpage,    \* the state of the page
    ref,      \* statesRef
    cancel,   \* abort.current: the save that Cancel would stop
    save,     \* the saves under way
    reports,  \* the delivery receipts under way
    got,      \* history: the files the visitor has, by transfer
    rfaults,  \* faults so far
    adrift    \* history: a save was left behind by the page

receiveOwn == <<rpage, ref, cancel, save, reports, got, rfaults, adrift>>
receiveVars == <<service, receiveOwn>>

ReceiveFault == rfaults < MaxReceiveFaults /\ rfaults' = rfaults + 1
NoReceiveFault == UNCHANGED rfaults

---------------------------------------------------------------------------
Waiting(t) == [i \in Files(t) |-> "waiting"]
Arrived(state) == state \in {"saved", "shared"}
Busy == \E i \in DOMAIN rpage.states : rpage.states[i] = "saving"

(* A code that was on the sender's screen. *)
Open(t) ==
    /\ rpage.stage = "code"
    /\ svc[t] # "none"
    /\ rpage' = [rpage EXCEPT !.stage = "checking", !.opening = t]
    /\ UNCHANGED <<svc, seen, ref, cancel, save, reports, got, rfaults, adrift>>

KeepsAsking(t) == FALSE  \* mutant: an end is not told from a wait
GivesUp(t) == svc[t] = "gone"

(* open: while the transfer is being sent the page asks again, until its   *)
(* time is over.  A code that was opened is counted unless that fails.     *)
Opened ==
    /\ rpage.opening # 0
    /\ LET t == rpage.opening
       IN \/ /\ svc[t] = "collecting"
             /\ rpage' = [rpage EXCEPT !.stage = "pending"]
             /\ NoReceiveFault /\ UNCHANGED <<seen, ref>>
          \/ /\ svc[t] = "ready"
             /\ rpage' = [rpage EXCEPT !.stage = "files", !.opening = 0,
                                       !.drop = t, !.states = Waiting(t)]
             /\ ref' = Waiting(t)
             /\ \/ Count(t, "opened") /\ NoReceiveFault
                \/ UNCHANGED seen /\ ReceiveFault
          \/ /\ \/ GivesUp(t) /\ NoReceiveFault
                \/ ReceiveFault
             /\ rpage' = [rpage EXCEPT !.stage = "error", !.opening = 0]
             /\ UNCHANGED <<seen, ref>>
    /\ UNCHANGED <<svc, cancel, save, reports, got, adrift>>

(* updateFile writes the ref and the screen. *)
Mark(i, state) ==
    /\ ref' = [j \in DOMAIN ref |-> IF j = i THEN state ELSE ref[j]]
    /\ rpage' = [rpage EXCEPT !.states = ref']

NoSave == [at |-> "none", kind |-> "one", drop |-> 0, todo |-> {}, aborted |-> FALSE]

OverSave == [NoSave EXCEPT !.at = "over"]

Underway == {k \in Saves : save[k].at \in {"waking", "asking", "writing"}}

(* saveOne, saveRemaining and shareOne: the page looks busy only after     *)
(* holdScreenAwake has returned.                                           *)
Begin(k, kind, todo) ==
    /\ save[k] = NoSave /\ k = CHOOSE l \in Saves : save[l] = NoSave
    /\ ~Busy
    /\ save' = [save EXCEPT ![k] = [at |-> "waking", kind |-> kind,
                                    drop |-> rpage.drop, todo |-> todo,
                                    aborted |-> FALSE]]
    /\ cancel' = k
    /\ adrift' = (adrift \/ \E l \in Underway : save[l].drop # rpage.drop)
    /\ UNCHANGED <<svc, seen, rpage, ref, reports, got, rfaults>>

SaveOrShare(k) ==
    /\ rpage.stage = "files"
    /\ \E i \in Files(rpage.drop) : \E kind \in {"one", "share"} :
          ~Arrived(rpage.states[i]) /\ Begin(k, kind, {i})

SaveRemaining(k) ==
    LET outstanding == {i \in Files(rpage.drop) : ~Arrived(rpage.states[i])}
    IN rpage.stage = "files" /\ outstanding # {} /\ Begin(k, "all", outstanding)

(* The files of a save are taken in their order. *)
First(k) == Min(save[k].todo)

Wake(k) ==
    /\ save[k].at = "waking"
    /\ save' = [save EXCEPT ![k].at = "asking"]
    /\ Mark(First(k), "saving")
    /\ UNCHANGED <<svc, seen, cancel, reports, got, rfaults, adrift>>

(* receiveDropFile: the signal is looked at, the parts are authorized.     *)
Fetch(k) ==
    /\ save[k].at = "asking"
    /\ ~save[k].aborted
    /\ svc[save[k].drop] = "ready"
    /\ save' = [save EXCEPT ![k].at = "writing"]
    /\ Count(save[k].drop, "downloading")
    /\ UNCHANGED <<svc, rpage, ref, cancel, reports, got, rfaults, adrift>>

(* onProgress, whatever another save has made of the file. *)
Progress(k) ==
    /\ save[k].at = "writing"
    /\ Mark(First(k), "saving")
    /\ UNCHANGED <<svc, seen, cancel, save, reports, got, rfaults, adrift>>

(* reportIfComplete looks at the ref. *)
AnyArrived(states) == \E i \in DOMAIN states : Arrived(states[i])  \* mutant: one is enough
AllArrived(states) == \A i \in DOMAIN states : Arrived(states[i])

(* The next file, or the end: saveOne reports after a success,             *)
(* saveRemaining in any case, shareOne never.                              *)
Continue(k, ok) ==
    LET s == save[k]
        rest == s.todo \ {First(k)}
        more == rest # {} /\ (ok \/ ~s.aborted)
        state == CASE ok /\ s.kind = "share" -> "shared"
                   [] ok                     -> "saved"
                   [] OTHER                  -> "failed"
        marked == [j \in DOMAIN ref |-> IF j = First(k) THEN state
                       ELSE IF more /\ j = Min(rest) THEN "saving" ELSE ref[j]]
    IN /\ ref' = marked
       /\ rpage' = [rpage EXCEPT !.states = marked]
       /\ IF more
          THEN /\ save' = [save EXCEPT ![k].at = "asking", ![k].todo = rest]
               /\ UNCHANGED <<cancel, reports>>
          ELSE /\ save' = [save EXCEPT ![k] = OverSave]
               /\ cancel' = "null"
               /\ reports' = IF /\ s.kind = "all" \/ (s.kind = "one" /\ ok)
                                /\ AllArrived(marked)
                             THEN reports \cup {s.drop} ELSE reports

Written(k) ==
    /\ save[k].at = "writing"
    /\ Continue(k, TRUE)
    /\ got' = [got EXCEPT ![save[k].drop] = @ \cup {First(k)}]
    /\ UNCHANGED <<svc, seen, rfaults, adrift>>

(* Cancelled, gone or expired, or a fault.  *)
SaveFails(k) ==
    /\ save[k].at \in {"asking", "writing"}
    /\ \/ (save[k].aborted \/ svc[save[k].drop] # "ready") /\ NoReceiveFault
       \/ ReceiveFault
    /\ Continue(k, FALSE)
    /\ UNCHANGED <<svc, seen, got, adrift>>

(* The share sheet is dismissed: the file waits again. *)
Dismissed(k) ==
    /\ save[k].at = "writing" /\ save[k].kind = "share"
    /\ Mark(First(k), "waiting")
    /\ save' = [save EXCEPT ![k] = OverSave]
    /\ cancel' = "null"
    /\ UNCHANGED <<svc, seen, reports, got, rfaults, adrift>>

SaveKept == save  \* mutant: nothing is aborted
AbortedSave == IF cancel = "null" THEN save ELSE [save EXCEPT ![cancel].aborted = TRUE]

CancelSave ==
    /\ rpage.stage = "files" /\ Busy
    /\ save' = AbortedSave
    /\ UNCHANGED <<svc, seen, rpage, ref, cancel, reports, got, rfaults, adrift>>

Arrival == [stage |-> "code", opening |-> 0, drop |-> 0, states |-> <<>>]

(* restart: from the error, from waiting, or from the list when no save is *)
(* seen under way.  The ref of the states is left as it is.                *)
ReceiveAnother ==
    /\ \/ rpage.stage \in {"pending", "error"}
       \/ rpage.stage = "files" /\ ~Busy
    /\ save' = AbortedSave
    /\ rpage' = Arrival
    /\ adrift' = (adrift \/ Underway \ {cancel} # {})
    /\ UNCHANGED <<svc, seen, ref, cancel, reports, got, rfaults>>

(* The receipt arrives, or is lost or refused: nobody asks again.          *)
Report(t) ==
    /\ t \in reports
    /\ reports' = reports \ {t}
    /\ \/ svc[t] = "ready" /\ Count(t, "delivered") /\ NoReceiveFault
       \/ svc[t] # "ready" /\ UNCHANGED seen /\ NoReceiveFault
       \/ UNCHANGED seen /\ ReceiveFault
    /\ UNCHANGED <<svc, rpage, ref, cancel, save, got, adrift>>

---------------------------------------------------------------------------
ReceiveInit ==
    /\ ServiceInit /\ rfaults = 0
    /\ rpage = Arrival
    /\ ref = <<>> /\ cancel = "null"
    /\ save = [k \in Saves |-> NoSave]
    /\ reports = {} /\ adrift = FALSE
    /\ got = [t \in Transfers |-> {}]

SaveStep == \E k \in Saves :
    Wake(k) \/ Fetch(k) \/ Progress(k) \/ Written(k) \/ SaveFails(k) \/ Dismissed(k)

(* What the receiver's page does. *)
ReceiveStep ==
    \/ \E t \in Transfers : Open(t) \/ Report(t)
    \/ Opened \/ SaveStep \/ CancelSave \/ ReceiveAnother
    \/ \E k \in Saves : SaveOrShare(k) \/ SaveRemaining(k)

(* The sender's side, and the end of a transfer. *)
SenderActs(t) == (Sends(t) \/ Closes(t)) /\ UNCHANGED receiveOwn

ReceiveNext == ReceiveStep \/ \E t \in Transfers : SenderActs(t)

ReceiveSpec == ReceiveInit /\ [][ReceiveNext]_receiveVars

(* Requests are answered or time out, the poll's timer fires, and the      *)
(* transfer's time passes.                                                 *)
ReceiveLiveSpec ==
    /\ ReceiveSpec
    /\ WF_receiveVars(SaveStep) /\ WF_receiveVars(Opened)
    /\ \A t \in Transfers : WF_receiveVars(Closes(t) /\ SenderActs(t))

---------------------------------------------------------------------------
(* Properties *)

(* The service is only told that a transfer was delivered when the visitor *)
(* has every file of it, however its saves, shares and receipts overlap    *)
(* with each other and the old save with the next transfer on the page.    *)
(* The exception: the page holds one controller, and a save it left        *)
(* behind, or beside which another transfer's began, goes on reading and   *)
(* writing the states of files that are not its own.  (reportIfComplete)   *)
DeliveredIsWhole ==
    \/ adrift
    \/ \A t \in Transfers : seen[t] = "delivered" \/ t \in reports => got[t] = Files(t)

(* A file the page shows as saved or shared is one the visitor has of the  *)
(* transfer on that page, not of one opened before, with the same          *)
(* exception.  (restart, updateFile)                                       *)
ShownFilesArrived ==
    \/ adrift
    \/ rpage.stage = "files" =>
          \A i \in Files(rpage.drop) : Arrived(rpage.states[i]) => i \in got[rpage.drop]

(* A receiver that waits for the sender gets the files, an error, or goes  *)
(* away.  (open)                                                           *)
PendingEnds == (rpage.stage \in {"checking", "pending"}) ~> (rpage.opening = 0)

===========================================================================
