------------------------- MODULE KioskCoordinator -------------------------
(***************************************************************************)
(* The kiosk's runtime, KioskRuntimeCoordinator.cs with the screen of      *)
(* MainViewModel.cs: the session it creates, polls, consumes, prints and   *)
(* reports, and what interrupts it, the view timer, the administrator's    *)
(* discard and printer change, and the end of the app.                     *)
(*                                                                         *)
(* A run is one activation of RunSessionAsync with its cancellation token. *)
(* Its continuations, the timer and the clicks all run on the UI thread,   *)
(* so a step here is the code between two awaits, and answers are taken in *)
(* the order they were posted.  Only the print engine has a thread of its  *)
(* own.  A request travels on its own: it may be served after the caller   *)
(* has given up or was cancelled, or never.                                *)
(*                                                                         *)
(* The server is what SessionStore implements: a status per session that   *)
(* moves along the published table, also by the phone and by cleanup.      *)
(***************************************************************************)
EXTENDS Sequences, Integers, PrintSessionStatus

CONSTANTS
    Runs,        \* slots for the runs that overlap; a slot is used again
    Faults,      \* subset of {"lost", "broken"}: what may become of answers
    MaxFaults,   \* bound: answers that are lost or broken, engine failures
    MaxClicks,   \* bound: the administrator's discards and printer changes
    None         \* no run

Operators == {"discard", "printer"}

ASSUME FaultAssumption == Faults \subseteq {"lost", "broken"}
ASSUME BoundAssumption == {MaxFaults, MaxClicks} \subseteq Nat
ASSUME NoneAssumption == None \notin Runs /\ Runs \cap Operators = {}

VARIABLES
    server,           \* the status of each run's session, or "none"
    run,              \* the state of each run
    requests,         \* the requests under way to the server
    awaiting,         \* the request each caller awaits, or None
    queue,            \* the continuations posted to the UI thread
    active,           \* _activeSession: the run whose token is current
    current,          \* _currentRegistration
    currentConsumed,  \* _currentSessionConsumed
    doomed,           \* _adminDiscardSessionId
    changing,         \* _printerChangeInProgress
    screen,           \* MainViewModel: State, _deadline, and whose it is
    faults,           \* faults so far
    clicks,           \* clicks so far
    down              \* the app has ended

(* The fields of KioskRuntimeCoordinator, and the bounds. *)
fields == <<active, current, currentConsumed, doomed, changing>>
limits == <<faults, clicks, down>>
vars == <<server, run, requests, awaiting, queue, active, current,
          currentConsumed, doomed, changing, screen, faults, clicks, down>>

(* The statuses in which the kiosk has not consumed yet. *)
Early == {"waiting", "claimed", "upload_authorized", "uploading", "uploaded"}

Callers == Runs \cup Operators

(* Requests sent with the run's token; "failed" and "cancel" have a        *)
(* timeout of their own.  The download goes to the blob store.             *)
TokenOps == {"create", "status", "consume", "download", "validating",
             "printing", "completed"}
Ops == TokenOps \cup {"failed", "cancel"}

Request == [from : Callers, op : Ops, run : Runs]

ASSUME RequestAssumption == None \notin Request

(* "refused" is an answer with an error status, "lost" none at all: both a *)
(* KioskApiException.  "broken" is an IOException while the body is read,  *)
(* which SendAsync does not convert, "aborted" an                          *)
(* OperationCanceledException.                                             *)

(* The request a run awaits is its place in RunSessionAsync; its last call *)
(* is `guarded' when it is made in the try block, whose catch clause would *)
(* take an exception.                                                      *)
RunRecord ==
    [at : {"free", "delay", "engine", "done"} \cup (Ops \ {"printing"}),
     then : {"none", "error", "suspended"},
     guarded : BOOLEAN,
     consumed : BOOLEAN, cancelled : BOOLEAN,
     engine : {"none", "rendering", "asking", "threw", "aborted",
               "spooling"},
     paper : BOOLEAN]

Idle == [at |-> "free", then |-> "none", guarded |-> FALSE,
         consumed |-> FALSE, cancelled |-> FALSE, engine |-> "none",
         paper |-> FALSE]

Started == [Idle EXCEPT !.at = "create"]

Init ==
    /\ server = [r \in Runs |-> "none"]
    /\ run = [r \in Runs |-> Idle]
    /\ requests = {}
    /\ awaiting = [w \in Callers |-> None]
    /\ queue = <<>>
    /\ active = None
    /\ current = None
    /\ currentConsumed = FALSE
    /\ doomed = None
    /\ changing = FALSE
    /\ screen = [state |-> "preparing", timed |-> FALSE, run |-> None]
    /\ faults = 0
    /\ clicks = 0
    /\ down = FALSE

---------------------------------------------------------------------------
(* The screen *)

Show(state, timed, r) ==
    screen' = [state |-> state, timed |-> timed, run |-> r]

(* ShowClaimed and ShowUploading leave the deadline. *)
ShowWaiting(r) == Show("waiting", TRUE, r)
ShowClaimed(r) == Show("claimed", screen.timed, r)
ShowUploading(r) == Show("uploading", screen.timed, r)
ShowValidating(r) == Show("validating", FALSE, r)
ShowPrinting(r) == Show("printing", FALSE, r)
ShowCompleted(r) == Show("completed", TRUE, r)

(* ShowSessionError and Suspend. *)
ShowThen(then, r) ==
    IF then = "none" THEN UNCHANGED screen
    ELSE Show(then, then = "error", r)

---------------------------------------------------------------------------
(* Requests and answers *)

(* The result of a caller's request: a continuation on the UI thread, or,  *)
(* for onReadyToSubmit, a step of a thread of its own.                     *)
Resume(w, answer) ==
    IF awaiting[w].op = "printing"
    THEN /\ run' = [run EXCEPT ![w].engine =
                       IF answer = "ok" THEN "spooling"
                       ELSE IF answer = "aborted" THEN "aborted" ELSE "threw"]
         /\ IF answer = "ok" THEN ShowPrinting(w) ELSE UNCHANGED screen
         /\ UNCHANGED queue
    ELSE /\ queue' = Append(queue, [to |-> w, answer |-> answer])
         /\ UNCHANGED <<run, screen>>

Send(w, q, others) ==
    /\ requests' = others \cup {q}
    /\ awaiting' = [awaiting EXCEPT ![w] = q]

(* w sends a request for the session of run r; `tail' is what is left of   *)
(* the queue.  HttpClient throws at once when the token is cancelled.      *)
Ask(w, op, r, tail) ==
    IF w = r /\ op \in TokenOps /\ run[r].cancelled
    THEN /\ queue' = Append(tail, [to |-> w, answer |-> "aborted"])
         /\ UNCHANGED <<requests, awaiting>>
    ELSE /\ Send(w, [from |-> w, op |-> op, run |-> r], requests)
         /\ queue' = tail

(* No request: the continuation only takes its place from the queue. *)
Quiet(tail) == queue' = tail /\ UNCHANGED <<requests, awaiting>>

(* The status a request asks for. *)
Wanted(op) ==
    CASE op = "create" -> "waiting"
      [] op = "consume" -> "consumed"
      [] op = "cancel" -> "cancelled"
      [] OTHER -> op

(* A cancelled token ends the wait for an answer that has not come yet. *)
Stopped(w) ==
    w \in Runs /\ awaiting[w] # None /\ awaiting[w].op \in TokenOps
            /\ run[w].cancelled

Reply(q, answer) ==
    IF awaiting[q.from] = q /\ ~Stopped(q.from)
    THEN /\ \/ Resume(q.from, answer) /\ UNCHANGED faults
            \/ /\ "broken" \in Faults /\ faults < MaxFaults
               /\ faults' = faults + 1
               /\ Resume(q.from, "broken")
         /\ awaiting' = [awaiting EXCEPT ![q.from] = None]
    ELSE UNCHANGED <<run, queue, screen, awaiting, faults>>

(* The server answers.  After the end of a session its receipt answers the *)
(* poll; its ciphertext may be gone.                                       *)
Serve(q) ==
    /\ q \in requests
    /\ requests' = requests \ {q}
    /\ \/ /\ q.op = "status"
          /\ Reply(q, server[q.run])
          /\ UNCHANGED server
       \/ /\ q.op = "download"
          /\ \/ Reply(q, "ok")
             \/ server[q.run] \in Terminal /\ Reply(q, "refused")
          /\ UNCHANGED server
       \/ /\ q.op \notin {"status", "download"}
          /\ IF q.op = "create" \/ CanTransition(server[q.run], Wanted(q.op))
             THEN /\ server' = [server EXCEPT ![q.run] = Wanted(q.op)]
                  /\ Reply(q, "ok")
             ELSE Reply(q, "refused") /\ UNCHANGED server
    /\ UNCHANGED <<fields, clicks, down>>

(* A request that nobody awaits any more matters when it moves a session   *)
(* the kiosk has seen.                                                     *)
Forget(w) ==
    /\ awaiting' = [awaiting EXCEPT ![w] = None]
    /\ requests' = IF awaiting[w].op \in {"create", "status", "download"}
                   THEN requests \ {awaiting[w]} ELSE requests

(* No answer within the client's timeout; the request may still arrive. *)
Lose(w) ==
    /\ "lost" \in Faults /\ faults < MaxFaults
    /\ awaiting[w] # None /\ ~Stopped(w)
    /\ Resume(w, "lost")
    /\ Forget(w)
    /\ faults' = faults + 1
    /\ UNCHANGED <<server, fields, clicks, down>>

Abort(r) ==
    /\ Stopped(r)
    /\ Resume(r, "aborted")
    /\ Forget(r)
    /\ UNCHANGED <<server, fields, limits>>

---------------------------------------------------------------------------
(* A session run *)

Posted(w) == queue # <<>> /\ Head(queue).to = w
Answer == Head(queue).answer
Rest == Tail(queue)

(* A run starts in a slot whose run has ended, or ends in this step, and   *)
(* whose session no caller waits for.                                      *)
Vacant(before, r) ==
    /\ before[r].at \in {"free", "done"}
    /\ \A q \in requests : q.run = r => awaiting[q.from] # q

(* Mutant: the run that was active is only forgotten. *)
ForgetMutant(before) == before

(* _activeSession?.Cancel() *)
CancelActive(before) ==
    [r \in Runs |-> [before[r] EXCEPT !.cancelled = @ \/ r = active]]

(* PrepareForFreshSession and OnFreshSessionRequested: clear the screen,   *)
(* cancel the run that is active, start another.  `before' is the state of *)
(* the runs with what the caller changes in the same step.                 *)
FreshSession(before, tail) ==
    \E new \in Runs :
        /\ Vacant(before, new)
        /\ run' = [CancelActive(before) EXCEPT ![new] = Started]
        /\ active' = new
        /\ server' = [server EXCEPT ![new] = "none"]
        /\ Send(new, [from |-> new, op |-> "create", run |-> new],
                {q \in requests : q.run # new})
        /\ queue' = tail
        /\ Show("preparing", FALSE, new)

(* The locals of an ended run are gone; what it printed is not. *)
Ended(r) ==
    [run EXCEPT ![r] = [Idle EXCEPT !.at = "done", !.paper = run[r].paper]]

(* The finally clause of RunSessionAsync: ClearCurrentRegistration. *)
Clear(r) ==
    /\ current' = IF current = r THEN None ELSE current
    /\ currentConsumed' = (currentConsumed /\ current # r)
    /\ doomed' = IF doomed = r THEN None ELSE doomed
    /\ UNCHANGED changing

(* The run ends with this step, with no call and no fresh session. *)
End(r, tail) ==
    /\ run' = Ended(r)
    /\ Clear(r)
    /\ Quiet(tail)
    /\ UNCHANGED <<server, active>>

(* The run goes on with a call. *)
GoOn(r, op, tail) ==
    /\ run' = [run EXCEPT ![r].at = op]
    /\ Ask(r, op, r, tail)
    /\ UNCHANGED <<server, fields>>

(* The run's last call, and the screen it leads to: TryFinishFailedAsync,  *)
(* TryTransitionFailedAsync or TryCancelAsync.                             *)
Finish(r, op, then, guarded, tail) ==
    /\ run' = [run EXCEPT ![r].at = op, ![r].then = then, ![r].guarded = guarded]
    /\ Ask(r, op, r, tail)
    /\ UNCHANGED <<server, fields, screen>>

(* An exception other than a cancellation: report it, then suspend. *)
Throw(r, tail) ==
    Finish(r, IF run[r].consumed THEN "failed" ELSE "cancel", "suspended",
           FALSE, tail)

(* A cancellation: the session is cancelled unless it was consumed or an   *)
(* administrator's action does it.                                         *)
Abandon(r, tail) ==
    IF run[r].consumed \/ doomed = r
    THEN End(r, tail) /\ UNCHANGED screen
    ELSE Finish(r, "cancel", "none", FALSE, tail)

Failed(answer) == answer \in {"refused", "lost", "broken"}

(* CreateAsync returns: the registration becomes current and its QR code   *)
(* is shown, even when the run was cancelled meanwhile.                    *)
Created(r) ==
    /\ Posted(r) /\ run[r].at = "create"
    /\ \/ /\ Answer = "ok"
          /\ ShowWaiting(r)
          /\ IF run[r].cancelled
             THEN /\ run' = Ended(r)
                  /\ current' = None
                  /\ doomed' = IF doomed = r THEN None ELSE doomed
             ELSE /\ run' = [run EXCEPT ![r].at = "delay"]
                  /\ current' = r
                  /\ UNCHANGED doomed
          /\ currentConsumed' = FALSE
          /\ Quiet(Rest)
          /\ UNCHANGED <<server, active, changing>>
       \/ /\ Answer = "aborted"
          /\ End(r, Rest) /\ UNCHANGED screen
       \/ /\ Failed(Answer)
          /\ End(r, Rest) /\ ShowThen("suspended", r)

(* Task.Delay(PollInterval) is over, or was cancelled. *)
Poll(r) ==
    /\ run[r].at = "delay"
    /\ IF run[r].cancelled
       THEN Abandon(r, queue)
       ELSE GoOn(r, "status", queue) /\ UNCHANGED screen

(* The deadline passed before the kiosk consumed, by its own clock, or the *)
(* session has ended: RequestFreshSession, then the finally clause.        *)
GiveUp(r) ==
    /\ Posted(r) /\ run[r].at = "status"
    /\ Answer \in Early \cup {"expired", "cancelled", "failed"}
    /\ FreshSession(Ended(r), Rest)
    /\ Clear(r)

(* A poll that shows progress; the loop ends when the token is cancelled,  *)
(* without an exception.                                                   *)
Progress(r) ==
    /\ Posted(r) /\ run[r].at = "status"
    /\ \/ Answer = "waiting" /\ UNCHANGED screen
       \/ Answer = "claimed" /\ ShowClaimed(r)
       \/ Answer \in {"upload_authorized", "uploading"} /\ ShowUploading(r)
    /\ IF run[r].cancelled
       THEN End(r, Rest)
       ELSE /\ run' = [run EXCEPT ![r].at = "delay"]
            /\ Quiet(Rest)
            /\ UNCHANGED <<server, fields>>

(* Mutant: a consume does not look for a printer change. *)
MayConsumeMutant(r) == current = r

(* TryRecordConsumed *)
MayConsume(r) == ~changing /\ current = r

(* The document is there: TryRecordConsumed decides between ConsumeAsync   *)
(* and TryCancelAsync.                                                     *)
Consume(r) ==
    /\ Posted(r) /\ run[r].at = "status" /\ Answer = "uploaded"
    /\ IF MayConsume(r)
       THEN /\ run' = [run EXCEPT ![r].at = "consume", ![r].consumed = TRUE]
            /\ currentConsumed' = TRUE
            /\ Ask(r, "consume", r, Rest)
            /\ UNCHANGED <<server, active, current, doomed, changing, screen>>
       ELSE Finish(r, "cancel", "none", TRUE, Rest)

(* The poll failed, or told of a status only this run could have reached. *)
PollFails(r) ==
    /\ Posted(r) /\ run[r].at = "status"
    /\ \/ Answer = "aborted" /\ Abandon(r, Rest)
       \/ /\ Failed(Answer) \/ Answer \in Processing \cup {"completed"}
          /\ Throw(r, Rest)

(* The lease was granted, the ciphertext downloaded.  The downloader has   *)
(* compared the size with the lease's: the check after it finds nothing.   *)
Fetch(r) ==
    /\ Posted(r) /\ run[r].at \in {"consume", "download"}
    /\ \/ /\ Answer = "ok"
          /\ GoOn(r, IF run[r].at = "consume" THEN "download"
                     ELSE "validating", Rest)
          /\ UNCHANGED screen
       \/ Answer = "aborted" /\ Abandon(r, Rest)
       \/ Failed(Answer) /\ Throw(r, Rest)

(* The server knows; decrypt, validate, and hand over to the engine. *)
Validate(r) ==
    /\ Posted(r) /\ run[r].at = "validating"
    /\ \/ /\ Answer = "ok"
          /\ ShowValidating(r)
          /\ \/ /\ run' = [run EXCEPT ![r].at = "engine",
                                      ![r].engine = "rendering"]
                /\ Quiet(Rest)
             \/ /\ run' = [run EXCEPT ![r].at = "failed", ![r].then = "error"]
                /\ Ask(r, "failed", r, Rest)
          /\ UNCHANGED <<server, fields>>
       \/ Answer = "aborted" /\ Abandon(r, Rest)
       \/ Failed(Answer) /\ Throw(r, Rest)

(* Mutant: everything but a bad document counts as submitted. *)
ReportMutant(r) ==
    /\ Posted(r) /\ run[r].at = "engine"
    /\ \/ /\ Answer \in {"submitted", "rejected"}
          /\ GoOn(r, "completed", Rest) /\ UNCHANGED screen
       \/ Answer = "badDocument" /\ Finish(r, "failed", "error", TRUE, Rest)
       \/ Answer = "broken" /\ Throw(r, Rest)
       \/ Answer = "aborted" /\ Abandon(r, Rest)

(* The engine's result: only a submitted job is reported as completed. *)
Report(r) ==
    /\ Posted(r) /\ run[r].at = "engine"
    /\ \/ /\ Answer = "submitted"
          /\ GoOn(r, "completed", Rest) /\ UNCHANGED screen
       \/ Answer = "badDocument" /\ Finish(r, "failed", "error", TRUE, Rest)
       \/ Answer = "rejected" /\ Finish(r, "failed", "suspended", TRUE, Rest)
       \/ Answer = "broken" /\ Throw(r, Rest)
       \/ Answer = "aborted" /\ Abandon(r, Rest)

(* The job is in the spooler whatever the server says. *)
Complete(r) ==
    /\ Posted(r) /\ run[r].at = "completed"
    /\ \/ /\ Answer \in {"ok", "refused", "lost"}
          /\ ShowCompleted(r)
          /\ End(r, Rest)
       \/ Answer = "aborted" /\ Abandon(r, Rest)
       \/ Answer = "broken" /\ Throw(r, Rest)

(* TryTransitionFailedAsync and TryCancelAsync do not catch an IOException *)
(* of the body.  In the try block it is an exception like any other, and   *)
(* the session is reported once more; in a catch clause it ends the run    *)
(* with no further screen.                                                 *)
Finished(r) ==
    /\ Posted(r) /\ run[r].at \in {"failed", "cancel"}
    /\ IF Answer = "broken" /\ run[r].guarded
       THEN Throw(r, Rest)
       ELSE /\ IF Answer = "broken" THEN UNCHANGED screen
               ELSE ShowThen(run[r].then, r)
            /\ End(r, Rest)

---------------------------------------------------------------------------
(* The print engine's thread *)

EngineKeeps == UNCHANGED <<server, requests, awaiting, fields, clicks, down>>

(* PrintAsync returns. *)
Result(r, result) ==
    queue' = Append(queue, [to |-> r, answer |-> result])

(* The document is refused before anything was submitted: a printer that   *)
(* is not ready, a document that cannot be rendered, a cancelled token or  *)
(* a journal that cannot be written.                                       *)
Refuse(r) ==
    /\ run[r].engine = "rendering"
    /\ run' = [run EXCEPT ![r].engine = "none"]
    /\ \/ Result(r, "badDocument") /\ UNCHANGED faults
       \/ /\ run[r].cancelled
          /\ Result(r, "aborted") /\ UNCHANGED faults
       \/ /\ faults < MaxFaults
          /\ \E result \in {"rejected", "broken"} : Result(r, result)
          /\ faults' = faults + 1
    /\ EngineKeeps /\ UNCHANGED screen

(* Mutant: the job is submitted while the server is being told. *)
AskToPrintMutant(r) ==
    /\ run[r].engine = "rendering"
    /\ ~run[r].cancelled
    /\ run' = [run EXCEPT ![r].engine = "spooling"]
    /\ EngineKeeps /\ UNCHANGED <<queue, screen, faults>>

(* onReadyToSubmit: the server must know before the job is submitted. *)
AskToPrint(r) ==
    /\ run[r].engine = "rendering"
    /\ ~run[r].cancelled
    /\ run' = [run EXCEPT ![r].engine = "asking"]
    /\ Send(r, [from |-> r, op |-> "printing", run |-> r], requests)
    /\ UNCHANGED <<server, queue, fields, screen, limits>>

(* The callback threw: PrintAsync takes every exception but a cancellation *)
(* for an uncertain submission.                                            *)
NotReady(r) ==
    /\ run[r].engine \in {"threw", "aborted"}
    /\ run' = [run EXCEPT ![r].engine = "none"]
    /\ Result(r, IF run[r].engine = "threw" THEN "rejected" ELSE "aborted")
    /\ EngineKeeps /\ UNCHANGED <<screen, faults>>

(* writer.Write returns or throws, and the journal is updated.  After an   *)
(* exception the job may be in the spooler or not.                         *)
Submit(r) ==
    /\ run[r].engine = "spooling"
    /\ \/ /\ run' = [run EXCEPT ![r].engine = "none", ![r].paper = TRUE]
          /\ Result(r, "submitted")
          /\ UNCHANGED faults
       \/ /\ faults < MaxFaults
          /\ \E paper \in BOOLEAN, result \in {"rejected", "broken"} :
                /\ run' = [run EXCEPT ![r].engine = "none",
                                      ![r].paper = paper]
                /\ Result(r, result)
          /\ faults' = faults + 1
    /\ EngineKeeps /\ UNCHANGED screen

---------------------------------------------------------------------------
(* What interrupts a run *)

(* Mutant: the timer leaves the error screen. *)
ReturningMutant == {"waiting", "claimed", "uploading", "completed"}

(* The screens that OnTimerTick ends. *)
Returning == {"waiting", "claimed", "uploading", "completed", "error"}

(* OnTimerTick after the deadline of the screen. *)
Tick ==
    /\ screen.timed /\ screen.state \in Returning
    /\ FreshSession(run, queue)
    /\ UNCHANGED <<current, currentConsumed, doomed, changing>>

(* The beginning of ForceDiscardCurrentSessionAsync and SelectPrinterAsync *)
(* up to the await: with no registration there is nothing to wait for.     *)
Interrupt(w, op) ==
    /\ clicks < MaxClicks
    /\ clicks' = clicks + 1
    /\ awaiting[w] = None /\ \A i \in 1..Len(queue) : queue[i].to # w
    /\ doomed' = current
    /\ IF current = None
       THEN FreshSession(CancelActive(run), queue) /\ UNCHANGED changing
       ELSE /\ run' = CancelActive(run)
            /\ Ask(w, op, current, queue)
            /\ changing' = (changing \/ w = "printer")
            /\ UNCHANGED <<server, active, screen>>
    /\ UNCHANGED <<current, currentConsumed>>

(* Mutant: the discard does not look whether the document was consumed. *)
DiscardMutant == Interrupt("discard", "cancel")

ForceDiscard == Interrupt("discard", IF currentConsumed THEN "failed"
                                     ELSE "cancel")

MaySelect == ~currentConsumed /\ ~changing

SelectPrinter == MaySelect /\ Interrupt("printer", "cancel")

(* The app ends, and its memory with it; what it has sent may arrive. *)
Quit ==
    /\ down' = TRUE
    /\ run' = [r \in Runs |-> [Idle EXCEPT !.paper = run[r].paper]]
    /\ awaiting' = [w \in Callers |-> None]
    /\ queue' = <<>>
    /\ active' = None /\ current' = None /\ doomed' = None
    /\ currentConsumed' = FALSE /\ changing' = FALSE
    /\ Show("preparing", FALSE, None)
    /\ UNCHANGED <<server, faults, clicks>>

(* The answer has come: RequestFreshSession.  An IOException passes        *)
(* through to the click handler: the printer selection's finally clause    *)
(* and its handler take it, the discard's is unhandled and ends the app.   *)
Interrupted(w) ==
    /\ Posted(w)
    /\ IF w = "discard" /\ Answer = "broken"
       THEN Quit /\ UNCHANGED requests
       ELSE /\ FreshSession(run, Rest)
            /\ changing' = (changing /\ w # "printer")
            /\ UNCHANGED <<current, currentConsumed, doomed, down>>

(* Dispose: the waiting session is cancelled, then the app ends. *)
Dispose ==
    /\ requests' = IF current # None /\ ~currentConsumed
                   THEN requests \cup {[from |-> current, op |-> "cancel",
                                        run |-> current]}
                   ELSE requests
    /\ Quit

---------------------------------------------------------------------------
(* The session at the server, as long as the kiosk works on it *)

Seen(r) == ~down /\ run[r].at \notin {"free", "done"}

(* The phone claims once the QR code has been shown; then it uploads or    *)
(* cancels.                                                                *)
Phone(r) ==
    \E to \in (Early \ {"waiting"}) \cup {"cancelled"} :
        /\ Seen(r) /\ server[r] \in Early /\ CanTransition(server[r], to)
        /\ server[r] = "waiting" => to = "claimed" /\ run[r].at # "create"
        /\ server' = [server EXCEPT ![r] = to]
        /\ UNCHANGED <<run, requests, awaiting, queue, fields, screen, limits>>

(* A cleanup after the deadline, or after the lease of the kiosk. *)
Expire(r) ==
    /\ Seen(r) /\ server[r] \in Early \cup Processing
    /\ server' = [server EXCEPT ![r] =
                     IF @ \in Processing THEN "failed" ELSE "expired"]
    /\ UNCHANGED <<run, requests, awaiting, queue, fields, screen, limits>>

---------------------------------------------------------------------------
(* ApplyRecovery after a successful recovery: the first session. *)
Open ==
    /\ active = None
    /\ FreshSession(run, queue)
    /\ UNCHANGED <<current, currentConsumed, doomed, changing>>

Continue(r) ==
    \/ Created(r) \/ GiveUp(r) \/ Progress(r) \/ Consume(r) \/ PollFails(r)
    \/ Fetch(r) \/ Validate(r) \/ Report(r) \/ Complete(r) \/ Finished(r)

Engine(r) == Refuse(r) \/ AskToPrint(r) \/ NotReady(r) \/ Submit(r)

(* The code that runs on the UI thread. *)
Interface ==
    /\ ~down
    /\ \/ \E r \in Runs : Continue(r) \/ Poll(r)
       \/ Open
       \/ Tick
    /\ UNCHANGED limits

Clicked ==
    /\ ~down
    /\ ForceDiscard \/ SelectPrinter
    /\ UNCHANGED <<faults, down>>

Returned ==
    /\ ~down
    /\ \E w \in Operators : Interrupted(w)
    /\ UNCHANGED <<faults, clicks>>

(* What the server makes of it once the app has ended is SessionStore's    *)
(* matter.                                                                 *)
Network ==
    /\ ~down
    /\ \/ \E q \in requests : Serve(q)
       \/ \E w \in Callers : Lose(w)
       \/ \E r \in Runs : Abort(r)

Next ==
    \/ Interface \/ Clicked \/ Returned \/ Network
    \/ ~down /\ \E r \in Runs : Engine(r)
    \/ ~down /\ Dispose
    \/ \E r \in Runs : Phone(r) \/ Expire(r)

Spec == Init /\ [][Next]_vars

---------------------------------------------------------------------------
(* Properties *)

Live(r) == run[r].at \notin {"free", "done"} /\ ~run[r].cancelled

(* At most one run works on a session without having been told to stop. *)
OneLiveRun == \A r \in Runs : Live(r) => r = active

(* Nothing comes out of the printer before the server has recorded that    *)
(* the session prints, and a session is only reported completed when its   *)
(* document is on paper.                                                   *)
PaperKnown ==
    \A r \in Runs :
        /\ run[r].paper => server[r] \in {"printing", "completed", "failed"}
        /\ server[r] = "completed" => run[r].paper

(* The screens tell the visitor the truth about the paper: "completed" is  *)
(* only shown for a document that was printed, and nobody whose document   *)
(* may have been printed is asked to send it again.                        *)
ScreenTellsPaper ==
    screen.run # None =>
        /\ screen.state = "completed" => run[screen.run].paper
        /\ screen.state = "error" => ~run[screen.run].paper

(* The printer is only changed while no document is in the kiosk's hands:  *)
(* "The action is rejected after encrypted content has been consumed"      *)
(* (docs/WINDOWS_KIOSK_DEPLOYMENT.md:205).  The flag that decides is       *)
(* shared by all runs and reset by each of them.                           *)
PrinterChangeSpares ==
    changing \/ MaySelect => \A r \in Runs : run[r].consumed => ~Live(r)

(* A cancel the kiosk has sent never races its own consume: the server     *)
(* would refuse it and keep the document until its lease ends.             *)
CancelsUnreadOnly ==
    \A q \in requests :
        q.op = "cancel" => server[q.run] \notin Processing

(* The kiosk always gets back to a QR code, or says that it is suspended. *)
BackInService ==
    []<>(screen.state \in {"waiting", "suspended"} \/ down)

(* A session that was cancelled or expired is followed by a "fresh kiosk   *)
(* key/session" (docs/ARCHITECTURE.md:156, :157); without any fault it     *)
(* does not take the kiosk out of service.                                 *)
EndKeepsService ==
    screen.state = "suspended" => server[screen.run] \notin {"expired",
                                                             "cancelled"}

(* What became of a session that was discarded is not shown to the next    *)
(* visitor: "no prior QR/status remains" (docs/OPERATIONS_RUNBOOK.md:64).  *)
ResultBelongs ==
    screen.state \in {"completed", "error", "suspended"} =>
        screen.run = active

(* Scheduling: the UI thread and the engine go on, timers fire, and an     *)
(* answer or the client's timeout comes; the deadline of a session passes, *)
(* which the poll reports by itself.  Clicks and phones are free.          *)
Arrive(w) ==
    ~down /\ awaiting[w] # None
          /\ (Serve(awaiting[w]) \/ (w \in Runs /\ Abort(w)))

Fairness ==
    /\ WF_vars(Open /\ UNCHANGED limits /\ ~down)
    /\ WF_vars(Tick /\ UNCHANGED limits /\ ~down)
    /\ WF_vars(Returned)
    /\ \A r \in Runs :
          /\ WF_vars(~down /\ (Continue(r) \/ Poll(r))
                     /\ UNCHANGED limits)
          /\ WF_vars(~down /\ Engine(r))
          /\ WF_vars(server[r] \in Early /\ Expire(r))
    /\ \A w \in Callers : WF_vars(Arrive(w))

LiveSpec == Spec /\ Fairness
============================================================================
