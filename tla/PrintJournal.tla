--------------------------- MODULE PrintJournal ---------------------------
(***************************************************************************)
(* The kiosk's durable print journal: one file per document, created       *)
(* before the print engine is called and moved on when its outcome is      *)
(* known (Core/Printing/IdempotentPrintCoordinator.cs,                     *)
(* Infrastructure/Recovery/FilePrintSubmissionJournal.cs), and the recovery *)
(* that a starting app runs over it (PrintRecoveryService.cs).             *)
(*                                                                         *)
(* A print is a job of an app process.  Processes and jobs share nothing   *)
(* but the files and the spooler.  A process dies between any two steps;   *)
(* an administrator's restart starts the next one while the last is still  *)
(* shutting down.                                                          *)
(***************************************************************************)
EXTENDS Integers, FiniteSets

CONSTANTS
    Apps,         \* the kiosk's process instances
    Documents,    \* the idempotency keys, one per document
    Jobs,         \* calls of PrintOnceAsync in flight, at a time
    None,         \* no app, no document, no outcome
    MaxCrashes,   \* bound: processes that die
    MaxRestarts,  \* bound: restarts by the administrator
    MaxFaults     \* bound: I/O errors, sharing violations, cancelled writes

ASSUME BoundAssumption == {MaxCrashes, MaxRestarts, MaxFaults} \subseteq Nat

ASSUME NoneAssumption == None \notin Apps \cup Documents

VARIABLES
    file,     \* the journal file of each document
    old,      \* the files last written more than a day ago
    papers,   \* ghost: what the spooler took since the file was created
    jobs,     \* the prints in flight
    app,      \* what each process does
    todo,     \* the records its current loop has still to move
    held,     \* the record it has read and is about to replace
    crashes, restarts, faults

vars == <<file, old, papers, jobs, app, todo, held, crashes, restarts, faults>>

Unresolved == {"SubmissionStarted", "Submitted", "SubmissionUncertain"}
Prunable == {"Completed", "RejectedBeforeSubmission", "AdminResolved"}
States == Unresolved \cup Prunable \cup {"RecoveryBlocked"}

(* A file that exists without a record in it is torn. *)
Contents == States \cup {"absent", "torn"}

Outcomes == {"Submitted", "Completed", "RejectedBeforeSubmission",
             "SubmissionUncertain"}

JobRecord ==
    [pc : {"idle", "marking", "engine", "submitting", "settle", "replace"},
     app : Apps \cup {None},
     doc : Documents \cup {None},
     to : Outcomes \cup {None},  \* what UpdateAsync is to write
     again : BOOLEAN]            \* in the catch clause of PrintOnceAsync

Phases == {"off", "recovering", "pruning", "running", "suspended", "stopping"}

Idle == [pc |-> "idle", app |-> None, doc |-> None, to |-> None,
         again |-> FALSE]

Allowed(from, to) ==
    CASE from = "SubmissionStarted" ->
             to \in Outcomes \cup {"RecoveryBlocked"}
      [] from = "Submitted" ->
             to \in {"Completed", "SubmissionUncertain", "RecoveryBlocked"}
      [] from = "SubmissionUncertain" -> to = "RecoveryBlocked"
      [] from = "RecoveryBlocked" -> to = "AdminResolved"
      [] OTHER -> FALSE

Init ==
    /\ file = [d \in Documents |-> "absent"]
    /\ old = {}
    /\ papers = [d \in Documents |-> 0]
    /\ jobs = [j \in Jobs |-> Idle]
    /\ app = [a \in Apps |-> "off"]
    /\ todo = [a \in Apps |-> {}]
    /\ held = [a \in Apps |-> None]
    /\ crashes = 0 /\ restarts = 0 /\ faults = 0

processes == <<app, todo, held>>
journal == <<file, old>>
bounds == <<crashes, restarts, faults>>

Write(d, state) ==
    /\ file' = [file EXCEPT ![d] = state]
    /\ old' = old \ {d}

Fault == /\ faults < MaxFaults
         /\ faults' = faults + 1
         /\ UNCHANGED <<crashes, restarts>>
---------------------------------------------------------------------------
(* A print job.                                                            *)

(* FileMode.OpenOrCreate would take over a settled record. *)
FreeMutant(d) == file[d] \in {"absent"} \cup Prunable

(* FileMode.CreateNew: any process's file of that name forbids a new one.  *)
Free(d) == file[d] = "absent"

(* TryCreateStartedAsync has created the file; for any other document the  *)
(* job ends as a duplicate and nothing has changed.  A cancelled token does *)
(* not keep a process that is shutting down from creating one.             *)
Create(j, a, d) ==
    /\ app[a] \in {"running", "stopping"}
    /\ jobs[j].pc = "idle"
    /\ Free(d)
    /\ Write(d, "torn")
    /\ jobs' = [jobs EXCEPT ![j] = [Idle EXCEPT !.pc = "marking",
                                                !.app = a, !.doc = d]]
    /\ UNCHANGED <<papers, processes, bounds>>

(* The record is written and flushed: the engine is called. *)
Mark(j) ==
    /\ jobs[j].pc = "marking"
    /\ Write(jobs[j].doc, "SubmissionStarted")
    /\ jobs' = [jobs EXCEPT ![j].pc = "engine"]
    /\ UNCHANGED <<papers, processes, bounds>>

(* The write fails or is cancelled, with or without the bytes in the file. *)
MarkFails(j) ==
    /\ jobs[j].pc = "marking"
    /\ Fault
    /\ \E left \in {"torn", "SubmissionStarted"} : Write(jobs[j].doc, left)
    /\ jobs' = [jobs EXCEPT ![j] = Idle]
    /\ UNCHANGED <<papers, processes>>

Settling(j, outcome) ==
    jobs' = [jobs EXCEPT ![j].pc = "settle", ![j].to = outcome]

(* The engine rejects the document or the printer before submission. *)
Reject(j) ==
    /\ jobs[j].pc = "engine"
    /\ Settling(j, "RejectedBeforeSubmission")
    /\ UNCHANGED <<journal, papers, processes, bounds>>

(* The engine or onReadyToSubmit throws; the catch clause of PrintOnceAsync *)
(* takes a cancellation, the print thread turns the rest into a result.     *)
EngineThrows(j) ==
    /\ jobs[j].pc \in {"engine", "submitting"}
    /\ \E again \in BOOLEAN :
          jobs' = [jobs EXCEPT ![j].pc = "settle",
                               ![j].to = "SubmissionUncertain",
                               ![j].again = again]
    /\ UNCHANGED <<journal, papers, processes, bounds>>

(* onReadyToSubmit has returned: the server knows of the print. *)
Ready(j) ==
    /\ jobs[j].pc = "engine"
    /\ jobs' = [jobs EXCEPT ![j].pc = "submitting"]
    /\ UNCHANGED <<journal, papers, processes, bounds>>

(* The flag that the submission has started, set after the write. *)
LateFlagMutant ==
    {"Submitted", "Completed", "SubmissionUncertain",
     "RejectedBeforeSubmission"}

(* What is reported of a document that the XPS writer, or the simulator,   *)
(* may have taken.                                                         *)
AfterWrite == {"Submitted", "Completed", "SubmissionUncertain"}

(* It has taken it. *)
Submit(j) ==
    /\ jobs[j].pc = "submitting"
    /\ papers' = [papers EXCEPT ![jobs[j].doc] = @ + 1]
    /\ \E outcome \in AfterWrite : Settling(j, outcome)
    /\ UNCHANGED <<journal, processes, bounds>>

(* It throws without taking it: before the writer existed the document is *)
(* known to be rejected (P-03), after that nothing is known (P-04).       *)
SubmitFails(j) ==
    /\ jobs[j].pc = "submitting"
    /\ \E outcome \in {"RejectedBeforeSubmission", "SubmissionUncertain"} :
          Settling(j, outcome)
    /\ UNCHANGED <<journal, papers, processes, bounds>>

(* UpdateByHashAsync, first half: read the record, check the transition. *)
Check(j) ==
    /\ jobs[j].pc = "settle"
    /\ Allowed(file[jobs[j].doc], jobs[j].to)
    /\ jobs' = [jobs EXCEPT ![j].pc = "replace"]
    /\ UNCHANGED <<journal, papers, processes, bounds>>

(* Second half: the temporary file replaces the record. *)
Replace(j) ==
    /\ jobs[j].pc = "replace"
    /\ Write(jobs[j].doc, jobs[j].to)
    /\ jobs' = [jobs EXCEPT ![j] = Idle]
    /\ UNCHANGED <<papers, processes, bounds>>

(* UpdateAsync threw: the catch clause tries once more, with "uncertain". *)
UpdateThrows(j) ==
    /\ jobs' = [jobs EXCEPT ![j] =
                   IF @.again THEN Idle
                   ELSE [@ EXCEPT !.pc = "settle", !.again = TRUE,
                                  !.to = "SubmissionUncertain"]]
    /\ UNCHANGED <<journal, papers, processes>>

UpdateRefused(j) ==
    /\ jobs[j].pc = "settle"
    /\ ~Allowed(file[jobs[j].doc], jobs[j].to)
    /\ UpdateThrows(j)
    /\ UNCHANGED bounds

UpdateFails(j) ==
    /\ jobs[j].pc \in {"settle", "replace"}
    /\ Fault
    /\ UpdateThrows(j)
---------------------------------------------------------------------------
(* An app process.                                                         *)

Torn == \E d \in Documents : file[d] = "torn"

(* "Submitted" taken for a state that is settled; the age alone decides. *)
ToBlockMutant ==
    {d \in Documents : file[d] \in Unresolved \ {"Submitted"}}
ToPruneMutant == old

ToBlock == {d \in Documents : file[d] \in Unresolved}
ToPrune == {d \in old : file[d] \in Prunable}

(* BlockUnresolvedAsync has read all records. *)
Recovering(a) ==
    /\ app' = [app EXCEPT ![a] = "recovering"]
    /\ todo' = [todo EXCEPT ![a] = ToBlock]
    /\ UNCHANGED held

(* ReadAllAsync throws, RecoverAsync reports RECOVERY-FAILED and the app   *)
(* shows A-01, with no runtime.                                            *)
Suspended(a) ==
    /\ app' = [app EXCEPT ![a] = "suspended"]
    /\ todo' = [todo EXCEPT ![a] = {}]
    /\ held' = [held EXCEPT ![a] = None]

(* No process runs, or the administrator restarted and the last one is     *)
(* shutting down.                                                          *)
Start(a) ==
    /\ app[a] = "off"
    /\ \A b \in Apps : app[b] \in {"off", "stopping"}
    /\ IF Torn THEN Suspended(a) ELSE Recovering(a)
    /\ UNCHANGED <<journal, papers, jobs, bounds>>

(* UpdateByHashAsync of a process: check, then replace. *)
Target(a) ==
    IF app[a] = "recovering" THEN "RecoveryBlocked" ELSE "AdminResolved"

Hold(a, d) ==
    /\ app[a] # "pruning"
    /\ held[a] = None
    /\ d \in todo[a]
    /\ Allowed(file[d], Target(a))
    /\ held' = [held EXCEPT ![a] = d]
    /\ UNCHANGED <<journal, papers, jobs, app, todo, bounds>>

Move(a) ==
    /\ held[a] # None
    /\ Write(held[a], Target(a))
    /\ todo' = [todo EXCEPT ![a] = @ \ {held[a]}]
    /\ held' = [held EXCEPT ![a] = None]
    /\ UNCHANGED <<papers, jobs, app, bounds>>

(* The record moved since it was read: an InvalidOperationException, which *)
(* the administrator's window catches and neither RecoverAsync nor         *)
(* OnStartup does.                                                         *)
HoldRefused(a, d) ==
    /\ app[a] # "pruning"
    /\ held[a] = None
    /\ d \in todo[a]
    /\ ~Allowed(file[d], Target(a))
    /\ app' = [app EXCEPT ![a] = IF @ = "recovering" THEN "off" ELSE @]
    /\ todo' = [todo EXCEPT ![a] = {}]
    /\ UNCHANGED <<journal, papers, jobs, held, bounds>>

(* PruneTerminalAsync reads all records again. *)
Blocked(a) ==
    /\ app[a] = "recovering"
    /\ todo[a] = {}
    /\ IF Torn
       THEN Suspended(a)
       ELSE /\ app' = [app EXCEPT ![a] = "pruning"]
            /\ todo' = [todo EXCEPT ![a] = ToPrune]
            /\ UNCHANGED held
    /\ UNCHANGED <<journal, papers, jobs, bounds>>

Prune(a, d) ==
    /\ app[a] = "pruning"
    /\ d \in todo[a]
    /\ file' = [file EXCEPT ![d] = "absent"]
    /\ old' = old \ {d}
    /\ papers' = [papers EXCEPT ![d] = 0]
    /\ todo' = [todo EXCEPT ![a] = @ \ {d}]
    /\ UNCHANGED <<jobs, app, held, bounds>>

(* RecoverAsync reads all records a last time; a fresh session is shown. *)
Recovered(a) ==
    /\ app[a] = "pruning"
    /\ todo[a] = {}
    /\ IF Torn
       THEN Suspended(a)
       ELSE app' = [app EXCEPT ![a] = "running"] /\ UNCHANGED <<todo, held>>
    /\ UNCHANGED <<journal, papers, jobs, bounds>>

RecoveryFails(a) ==
    /\ app[a] \in {"recovering", "pruning"}
    /\ Fault
    /\ Suspended(a)
    /\ UNCHANGED <<journal, papers, jobs>>

(* The administrator acknowledges the blocked records (ResolveBlockedAsync). *)
Resolve(a) ==
    /\ app[a] = "running"
    /\ todo[a] = {}
    /\ ~Torn
    /\ todo' = [todo EXCEPT ![a] =
                   {d \in Documents : file[d] = "RecoveryBlocked"}]
    /\ UNCHANGED <<journal, papers, jobs, app, held, bounds>>

ResolveFails(a) ==
    /\ app[a] \in {"running", "stopping"}
    /\ todo[a] # {}
    /\ Fault
    /\ todo' = [todo EXCEPT ![a] = {}]
    /\ held' = [held EXCEPT ![a] = None]
    /\ UNCHANGED <<journal, papers, jobs, app>>
---------------------------------------------------------------------------
(* The end of a process takes its jobs with it. *)
Gone(a) ==
    /\ app' = [app EXCEPT ![a] = "off"]
    /\ todo' = [todo EXCEPT ![a] = {}]
    /\ held' = [held EXCEPT ![a] = None]
    /\ jobs' = [j \in Jobs |-> IF jobs[j].app = a THEN Idle ELSE jobs[j]]
    /\ UNCHANGED <<journal, papers>>

Crash(a) ==
    /\ app[a] # "off"
    /\ crashes < MaxCrashes
    /\ crashes' = crashes + 1
    /\ Gone(a)
    /\ UNCHANGED <<restarts, faults>>

(* Process.Start of the next app, then Shutdown of this one. *)
Restart(a) ==
    /\ app[a] \in {"running", "suspended"}
    /\ restarts < MaxRestarts
    /\ restarts' = restarts + 1
    /\ app' = [app EXCEPT ![a] = "stopping"]
    /\ UNCHANGED <<journal, papers, jobs, todo, held, crashes, faults>>

Exit(a) ==
    /\ app[a] = "stopping"
    /\ Gone(a)
    /\ UNCHANGED bounds

(* A day passes for a record.  No print and no write lasts that long. *)
Age(d) ==
    /\ file[d] \notin {"absent", "torn"}
    /\ \A j \in Jobs : jobs[j].doc # d
    /\ \A a \in Apps : held[a] # d
    /\ old' = old \cup {d}
    /\ UNCHANGED <<file, papers, jobs, processes, bounds>>

JobNext(j) ==
    \/ \E a \in Apps, d \in Documents : Create(j, a, d)
    \/ Mark(j) \/ MarkFails(j) \/ Reject(j) \/ EngineThrows(j) \/ Ready(j)
    \/ Submit(j) \/ SubmitFails(j)
    \/ Check(j) \/ Replace(j) \/ UpdateRefused(j) \/ UpdateFails(j)

Recovery(a) ==
    \/ Start(a) \/ Move(a) \/ Blocked(a) \/ Recovered(a)
    \/ \E d \in Documents : Hold(a, d) \/ HoldRefused(a, d) \/ Prune(a, d)

AppNext(a) ==
    \/ Recovery(a) \/ RecoveryFails(a) \/ Resolve(a) \/ ResolveFails(a)
    \/ Crash(a) \/ Restart(a) \/ Exit(a)

Next ==
    \/ \E j \in Jobs : JobNext(j)
    \/ \E a \in Apps : AppNext(a)
    \/ \E d \in Documents : Age(d)

Spec == Init /\ [][Next]_vars

(* A starting process goes on, someone starts an app that is off, a process *)
(* that is shutting down ends, and a suspended app is restarted, as the     *)
(* runbook demands.                                                         *)
LiveSpec ==
    /\ Spec
    /\ \A a \in Apps :
          /\ WF_vars(Recovery(a))
          /\ WF_vars(Exit(a))
          /\ WF_vars(app[a] = "suspended" /\ Restart(a))
---------------------------------------------------------------------------
TypeOK ==
    /\ file \in [Documents -> Contents]
    /\ old \subseteq Documents
    /\ papers \in [Documents -> Nat]
    /\ jobs \in [Jobs -> JobRecord]
    /\ app \in [Apps -> Phases]
    /\ todo \in [Apps -> SUBSET Documents]
    /\ held \in [Apps -> Documents \cup {None}]
    /\ crashes \in 0 .. MaxCrashes
    /\ restarts \in 0 .. MaxRestarts
    /\ faults \in 0 .. MaxFaults

(* The spooler takes a document at most once for as long as its file is    *)
(* kept, whichever processes and jobs present it, in whatever order they   *)
(* die: "every PrintAsync call crosses the durable gate"                   *)
(* (IdempotentPrintEngine.cs).                                             *)
AtMostOnce == \A d \in Documents : papers[d] <= 1

(* What may be on paper is never on file as untried or as rejected, at any *)
(* moment at which the kiosk may die: no later process could take it for a *)
(* document that was not printed.                                          *)
NoSilentJob ==
    \A d \in Documents :
        papers[d] > 0 =>
            file[d] \notin {"absent", "torn", "RejectedBeforeSubmission"}

(* When a fresh session is first shown, every print that an earlier process *)
(* left open has been blocked, unless a restart overlapped it.              *)
RecoveryBlocksAll ==
    [][\A a \in Apps :
          restarts = 0 /\ app[a] # "running" /\ app'[a] = "running" =>
              \A d \in Documents : file[d] \notin Unresolved]_vars

(* A doubt stays on record, across crashes and days, until the             *)
(* administrator acknowledges it: "ambiguous records remain until          *)
(* authenticated acknowledgement" (docs/PRIVACY.md:33).                    *)
(* A print of a process that a restart left shutting down may still settle *)
(* a record that the next process has blocked.                             *)
Doubtful == {"SubmissionUncertain", "RecoveryBlocked"}

DoubtAcknowledged ==
    [][\A d \in Documents :
          restarts = 0 /\ file[d] \in Doubtful =>
              file'[d] \in Doubtful \cup {"AdminResolved"}]_vars

(* docs/OPERATIONS_RUNBOOK.md:45, of a kiosk app that stopped: restart the *)
(* app once, then "Startup cleanup completes and a fresh QR appears".      *)
StartupCompletes ==
    (restarts = 0 /\ \A a \in Apps : app[a] = "off")
        ~> (\E a \in Apps : app[a] = "running")

(* The same row, of the restart itself: no process ends in its startup     *)
(* cleanup (in a run where none crashes).                                  *)
StartupSurvives ==
    [][\A a \in Apps :
          app[a] \in {"recovering", "pruning"} => app'[a] # "off"]_vars
===========================================================================
