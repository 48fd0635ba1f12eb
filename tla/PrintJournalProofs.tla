------------------------ MODULE PrintJournalProofs ------------------------
(***************************************************************************)
(* Proofs about PrintJournal: a document goes to the spooler at most once  *)
(* for as long as its journal file is kept, and what may be on paper is    *)
(* never on file as unprinted, for any number of processes, jobs and       *)
(* documents, and any bounds.                                              *)
(*                                                                         *)
(* The argument is one of ownership.  A file that exists belongs to the    *)
(* job that created it until that job has settled it (Owned, Apart); a     *)
(* process that is about to replace a record holds one that exists (Held); *)
(* and a process that is about to prune a record is the only one that      *)
(* prunes, and nobody owns or holds the record (OneUp, Pruned).            *)
(***************************************************************************)
EXTENDS PrintJournal, TLAPS

Silent == {"absent", "torn", "RejectedBeforeSubmission"}

(* A job owns its file: it exists, is not old, is torn only while the job  *)
(* still writes it, no paper is out before the job has submitted or when   *)
(* it is about to record a rejection, and nobody but the job records one.  *)
Owns(j) ==
    LET d == jobs[j].doc IN
    /\ d \in Documents
    /\ d \notin old
    /\ file[d] # "absent"
    /\ file[d] = "torn" <=> jobs[j].pc = "marking"
    /\ jobs[j].pc \in {"marking", "engine", "submitting"} => papers[d] = 0
    /\ jobs[j].pc \in {"engine", "submitting"} =>
          file[d] # "RejectedBeforeSubmission"
    /\ jobs[j].pc \in {"settle", "replace"} => jobs[j].to \in Outcomes
    /\ jobs[j].to = "RejectedBeforeSubmission" => papers[d] = 0

Owned ==
    \A j \in Jobs : IF jobs[j].pc = "idle" THEN jobs[j].doc = None ELSE Owns(j)

Apart ==
    \A i, j \in Jobs : jobs[i].doc = jobs[j].doc => i = j \/ jobs[i].doc = None

Held ==
    \A a \in Apps : held[a] # None =>
        /\ file[held[a]] \notin {"absent", "torn"}
        /\ held[a] \in old => file[held[a]] \notin Prunable

OneUp ==
    \A a, b \in Apps :
        a = b \/ app[a] \in {"off", "stopping"} \/ app[b] \in {"off", "stopping"}

Pruned ==
    \A a \in Apps, d \in Documents : app[a] = "pruning" /\ d \in todo[a] =>
        /\ file[d] \in Prunable
        /\ \A j \in Jobs : jobs[j].doc # d
        /\ \A b \in Apps : held[b] # d

Papers ==
    \A d \in Documents :
        papers[d] <= 1 /\ (file[d] \in Silent => papers[d] = 0)

IInv == Owned /\ Apart /\ Held /\ OneUp /\ Pruned /\ Papers

(* Fields of a job's record. *)
LEMMA IdleType == Idle \in JobRecord
  BY DEF Idle, JobRecord

LEMMA SettlingType ==
  ASSUME TypeOK, NEW j \in Jobs, NEW outcome \in Outcomes,
         Settling(j, outcome)
  PROVE  jobs' \in [Jobs -> JobRecord]
  <1> DEFINE r == [jobs[j] EXCEPT !.pc = "settle", !.to = outcome]
  <1>1. jobs[j] \in JobRecord
    BY DEF TypeOK
  <1>2. r \in JobRecord
    BY <1>1 DEF JobRecord
  <1>3. jobs' = [jobs EXCEPT ![j] = r]
    BY DEF Settling
  <1> QED
    BY <1>2, <1>3 DEF TypeOK

LEMMA UpdateThrowsType ==
  ASSUME TypeOK, NEW j \in Jobs, UpdateThrows(j)
  PROVE  /\ jobs' \in [Jobs -> JobRecord]
         /\ UNCHANGED <<file, old, papers, app, todo, held>>
  <1> DEFINE t == [jobs[j] EXCEPT !.pc = "settle", !.again = TRUE,
                                  !.to = "SubmissionUncertain"]
             r == IF jobs[j].again THEN Idle ELSE t
  <1>1. jobs[j] \in JobRecord
    BY DEF TypeOK
  <1>2. t \in JobRecord
    BY <1>1 DEF JobRecord, Outcomes
  <1>3. r \in JobRecord
    BY <1>2, IdleType
  <1>4. jobs' = [jobs EXCEPT ![j] = r]
    BY DEF UpdateThrows
  <1> QED
    BY <1>3, <1>4 DEF TypeOK, UpdateThrows, journal, processes

LEMMA ThrownType ==
  ASSUME TypeOK, NEW j \in Jobs, EngineThrows(j)
  PROVE  jobs' \in [Jobs -> JobRecord]
  <1>1. PICK again \in BOOLEAN :
          jobs' = [jobs EXCEPT ![j].pc = "settle",
                               ![j].to = "SubmissionUncertain",
                               ![j].again = again]
    BY DEF EngineThrows
  <1> DEFINE r == [jobs[j] EXCEPT !.pc = "settle",
                                  !.to = "SubmissionUncertain",
                                  !.again = again]
  <1>2. jobs[j] \in JobRecord
    BY DEF TypeOK
  <1>3. r \in JobRecord
    BY <1>2 DEF JobRecord, Outcomes
  <1>4. jobs' = [jobs EXCEPT ![j] = r]
    BY <1>1
  <1> QED
    BY <1>3, <1>4 DEF TypeOK

LEMMA GoneType ==
  ASSUME TypeOK, NEW a \in Apps, Gone(a)
  PROVE  /\ jobs' \in [Jobs -> JobRecord]
         /\ app' \in [Apps -> Phases]
         /\ todo' \in [Apps -> SUBSET Documents]
         /\ held' \in [Apps -> Documents \cup {None}]
         /\ UNCHANGED <<file, old, papers>>
  <1>1. \A j \in Jobs : jobs'[j] \in JobRecord
    BY IdleType DEF TypeOK, Gone
  <1>2. jobs' \in [Jobs -> JobRecord]
    BY <1>1 DEF Gone
  <1> QED
    BY <1>2 DEF TypeOK, Gone, journal, Phases

(* A process that ends disowns its jobs and lets go of its records. *)
LEMMA GoneKeeps ==
  ASSUME TypeOK, IInv, NEW a \in Apps, Gone(a)
  PROVE  IInv'
  <1>1. /\ UNCHANGED <<file, old, papers>>
        /\ \A j \in Jobs : jobs'[j] = Idle \/ jobs'[j] = jobs[j]
        /\ \A b \in Apps : IF b = a
                         THEN app'[b] = "off" /\ held'[b] = None
                         ELSE app'[b] = app[b] /\ held'[b] = held[b]
                                              /\ todo'[b] = todo[b]
    BY DEF Gone, TypeOK, journal
  <1>2. Owned' /\ Apart'
    BY <1>1 DEF IInv, Owned, Owns, Apart, Idle
  <1>3. Held' /\ OneUp'
    BY <1>1 DEF IInv, Held, OneUp
  <1>4. Pruned'
    BY <1>1, NoneAssumption DEF IInv, Pruned, Idle
  <1>5. Papers'
    BY <1>1 DEF IInv, Papers
  <1> QED
    BY <1>2, <1>3, <1>4, <1>5 DEF IInv

LEMMA SubmitKeeps ==
  ASSUME TypeOK, IInv, NEW j \in Jobs, Submit(j)
  PROVE  IInv'
  <1> DEFINE d == jobs[j].doc
  <1>1. PICK outcome \in AfterWrite : Settling(j, outcome)
    BY DEF Submit
  <1>2. /\ jobs[j].pc = "submitting"
        /\ d \in Documents /\ papers[d] = 0 /\ file[d] \notin {"absent", "torn"}
        /\ d \notin old
    BY DEF Submit, IInv, Owned, Owns
  <1>3. /\ papers' = [papers EXCEPT ![d] = @ + 1]
        /\ UNCHANGED <<file, old, app, todo, held>>
    BY DEF Submit, journal, processes
  <1>4. /\ jobs'[j].pc = "settle" /\ jobs'[j].to = outcome /\ jobs'[j].doc = d
        /\ \A i \in Jobs \ {j} : jobs'[i] = jobs[i]
    BY <1>1 DEF Settling, TypeOK, JobRecord
  <1>5. Owned' /\ Apart'
    BY <1>1, <1>2, <1>3, <1>4, NoneAssumption
    DEF IInv, Owned, Owns, Apart, TypeOK, JobRecord, AfterWrite, Outcomes
  <1>6. Held' /\ OneUp'
    BY <1>3 DEF IInv, Held, OneUp
  <1>7. Pruned'
    BY <1>3, <1>4 DEF IInv, Pruned
  <1>8. file[d] # "RejectedBeforeSubmission"
    BY <1>2 DEF Submit, IInv, Owned, Owns
  <1>9. Papers'
    BY <1>2, <1>3, <1>8 DEF IInv, Papers, Silent, TypeOK
  <1> QED
    BY <1>5, <1>6, <1>7, <1>9 DEF IInv

LEMMA JobTypes ==
  ASSUME TypeOK, IInv, NEW j \in Jobs, JobNext(j)
  PROVE  TypeOK'
  <1> USE BoundAssumption DEF TypeOK
  <1>1. ASSUME NEW a \in Apps, NEW d \in Documents, Create(j, a, d)
        PROVE  TypeOK'
    BY <1>1 DEF Create, Free, Write, Idle, processes, bounds, JobRecord,
    Contents, States, Unresolved, Prunable
  <1>2. CASE Mark(j)
    BY <1>2 DEF Mark, Write, processes, bounds, JobRecord, Contents,
    States, Unresolved, Prunable
  <1>3. CASE MarkFails(j)
    <2>1. jobs' \in [Jobs -> JobRecord]
      BY <1>3, IdleType DEF MarkFails
    <2>2. PICK left \in {"torn", "SubmissionStarted"} :
            Write(jobs[j].doc, left)
      BY <1>3 DEF MarkFails
    <2>3. left \in Contents
      BY DEF Contents, States, Unresolved
    <2>4. file' \in [Documents -> Contents] /\ old' \subseteq Documents
      BY <2>2, <2>3 DEF Write
    <2> QED
      BY <1>3, <2>1, <2>4 DEF MarkFails, Fault, processes
  <1>4. CASE Reject(j)
    BY <1>4, SettlingType DEF Reject, journal, processes, bounds, Outcomes
  <1>5. CASE EngineThrows(j)
    BY <1>5, ThrownType DEF EngineThrows, journal, processes, bounds
  <1>6. CASE Ready(j)
    BY <1>6 DEF Ready, journal, processes, bounds, JobRecord
  <1>7. CASE Submit(j)
    <2>1. PICK outcome \in AfterWrite : Settling(j, outcome)
      BY <1>7 DEF Submit
    <2>2. jobs' \in [Jobs -> JobRecord]
      BY <2>1, SettlingType DEF AfterWrite, Outcomes
    <2>3. jobs[j].doc \in Documents
      BY <1>7 DEF Submit, IInv, Owned, Owns
    <2>4. papers' \in [Documents -> Nat]
      BY <1>7, <2>3 DEF Submit
    <2> QED
      BY <1>7, <2>2, <2>4 DEF Submit, journal, processes, bounds
  <1>8. CASE SubmitFails(j)
    BY <1>8, SettlingType DEF SubmitFails, journal, processes, bounds,
    Outcomes
  <1>9. CASE Check(j)
    BY <1>9 DEF Check, Allowed, journal, processes, bounds, JobRecord
  <1>10. CASE Replace(j)
    <2>1. jobs' \in [Jobs -> JobRecord]
      BY <1>10, IdleType DEF Replace
    <2>2. jobs[j].to \in Contents
      BY <1>10 DEF Replace, IInv, Owned, Owns, Contents, States, Outcomes,
                  Unresolved, Prunable
    <2>3. file' \in [Documents -> Contents]
      BY <1>10, <2>2 DEF Replace, Write
    <2> QED
      BY <1>10, <2>1, <2>3 DEF Replace, Write, processes, bounds
  <1>11. CASE UpdateRefused(j)
    BY <1>11, UpdateThrowsType DEF UpdateRefused, Fault, processes, bounds
  <1>12. CASE UpdateFails(j)
    BY <1>12, UpdateThrowsType DEF UpdateFails, Fault, processes, bounds
  <1> QED
    BY <1>1, <1>2, <1>3, <1>4, <1>5, <1>6, <1>7, <1>8, <1>9, <1>10, <1>11,
    <1>12 DEF JobNext

LEMMA AppTypes ==
  ASSUME TypeOK, IInv, NEW a \in Apps, AppNext(a)
  PROVE  TypeOK'
  <1> USE BoundAssumption DEF TypeOK
  <1>1. CASE Start(a)
    BY <1>1 DEF Start, Recovering, Suspended, ToBlock, journal, bounds,
    Phases
  <1>2. ASSUME NEW d \in Documents, Hold(a, d)
        PROVE  TypeOK'
    BY <1>2 DEF Hold, Target, Allowed, journal, bounds
  <1>3. CASE Move(a)
    BY <1>3 DEF Move, Target, Write, bounds, Contents, States, Unresolved,
    Prunable
  <1>4. ASSUME NEW d \in Documents, HoldRefused(a, d)
        PROVE  TypeOK'
    BY <1>4 DEF HoldRefused, journal, bounds, Phases
  <1>5. CASE Blocked(a)
    BY <1>5 DEF Blocked, Suspended, ToPrune, journal, bounds, Phases
  <1>6. ASSUME NEW d \in Documents, Prune(a, d)
        PROVE  TypeOK'
    BY <1>6 DEF Prune, bounds, Contents, States, Unresolved, Prunable
  <1>7. CASE Recovered(a)
    BY <1>7 DEF Recovered, Suspended, journal, bounds, Phases
  <1>8. CASE RecoveryFails(a)
    BY <1>8 DEF RecoveryFails, Suspended, Fault, journal, Phases
  <1>9. CASE Resolve(a)
    BY <1>9 DEF Resolve, journal, bounds
  <1>10. CASE ResolveFails(a)
    BY <1>10 DEF ResolveFails, Fault, journal
  <1>11. CASE Crash(a)
    BY <1>11, GoneType DEF Crash, bounds
  <1>12. CASE Restart(a)
    BY <1>12 DEF Restart, journal, Phases
  <1>13. CASE Exit(a)
    BY <1>13, GoneType DEF Exit, bounds
  <1> QED
    BY <1>1, <1>2, <1>3, <1>4, <1>5, <1>6, <1>7, <1>8, <1>9, <1>10, <1>11,
    <1>12, <1>13 DEF AppNext, Recovery

LEMMA JobKeeps ==
  ASSUME TypeOK, IInv, NEW j \in Jobs, JobNext(j)
  PROVE  IInv'
  <1> USE NoneAssumption DEF TypeOK, IInv, Owned, Owns, Apart, Held, OneUp,
                                Pruned, Papers, Silent
  <1>1. ASSUME NEW a \in Apps, NEW d \in Documents, Create(j, a, d)
        PROVE  IInv'
    BY <1>1, NoneAssumption DEF Create, Free, Write, Idle, processes,
    bounds, JobRecord, Outcomes, States, Unresolved, Prunable
  <1>2. CASE Mark(j)
    BY <1>2, NoneAssumption DEF Mark, Write, processes, bounds, JobRecord,
    Outcomes, States, Unresolved, Prunable
  <1>3. CASE MarkFails(j)
    BY <1>3, NoneAssumption DEF MarkFails, Write, Fault, Idle, processes,
    JobRecord, Outcomes, States, Unresolved, Prunable
  <1>4. CASE Reject(j)
    BY <1>4, NoneAssumption DEF Reject, Settling, journal, processes,
    bounds, JobRecord, Outcomes, States, Unresolved, Prunable
  <1>5. CASE EngineThrows(j)
    BY <1>5, NoneAssumption DEF EngineThrows, journal, processes, bounds,
    JobRecord, Outcomes, States, Unresolved, Prunable
  <1>6. CASE Ready(j)
    BY <1>6, NoneAssumption DEF Ready, journal, processes, bounds,
    JobRecord, Outcomes, States, Unresolved, Prunable
  <1>7. CASE Submit(j)
    BY <1>7, SubmitKeeps
  <1>8. CASE SubmitFails(j)
    BY <1>8, NoneAssumption DEF SubmitFails, Settling, journal, processes,
    bounds, JobRecord, Outcomes, States, Unresolved, Prunable
  <1>9. CASE Check(j)
    BY <1>9, NoneAssumption DEF Check, Allowed, journal, processes, bounds,
    JobRecord, Outcomes, States, Unresolved, Prunable
  <1>10. CASE Replace(j)
    BY <1>10, NoneAssumption DEF Replace, Write, Idle, processes, bounds,
    JobRecord, Outcomes, States, Unresolved, Prunable
  <1>11. CASE UpdateRefused(j)
    BY <1>11, NoneAssumption DEF UpdateRefused, UpdateThrows, Idle,
    journal, processes, bounds, JobRecord, Outcomes, States, Unresolved,
    Prunable
  <1>12. CASE UpdateFails(j)
    BY <1>12, NoneAssumption DEF UpdateFails, UpdateThrows, Fault, Idle,
    journal, processes, JobRecord, Outcomes, States, Unresolved, Prunable
  <1> QED
    BY <1>1, <1>2, <1>3, <1>4, <1>5, <1>6, <1>7, <1>8, <1>9, <1>10, <1>11,
    <1>12 DEF JobNext

LEMMA AppKeeps ==
  ASSUME TypeOK, IInv, NEW a \in Apps, AppNext(a)
  PROVE  IInv'
  <1> USE NoneAssumption DEF TypeOK, IInv, Owned, Owns, Apart, Held, OneUp,
                                Pruned, Papers, Silent
  <1>1. CASE Start(a)
    BY <1>1, NoneAssumption DEF Start, Recovering, Suspended, ToBlock,
    journal, bounds, States, Unresolved, Prunable
  <1>2. ASSUME NEW d \in Documents, Hold(a, d)
        PROVE  IInv'
    BY <1>2, NoneAssumption DEF Hold, Target, Allowed, journal, bounds,
    States, Unresolved, Prunable
  <1>3. CASE Move(a)
    BY <1>3, NoneAssumption DEF Move, Target, Write, bounds, States,
    Unresolved, Prunable
  <1>4. ASSUME NEW d \in Documents, HoldRefused(a, d)
        PROVE  IInv'
    BY <1>4, NoneAssumption DEF HoldRefused, journal, bounds, States,
    Unresolved, Prunable
  <1>5. CASE Blocked(a)
    BY <1>5, NoneAssumption DEF Blocked, Suspended, ToPrune, journal,
    bounds, States, Unresolved, Prunable
  <1>6. ASSUME NEW d \in Documents, Prune(a, d)
        PROVE  IInv'
    BY <1>6, NoneAssumption DEF Prune, bounds, States, Unresolved, Prunable
  <1>7. CASE Recovered(a)
    BY <1>7, NoneAssumption DEF Recovered, Suspended, journal, bounds,
    States, Unresolved, Prunable
  <1>8. CASE RecoveryFails(a)
    BY <1>8, NoneAssumption DEF RecoveryFails, Suspended, Fault, journal,
    States, Unresolved, Prunable
  <1>9. CASE Resolve(a)
    BY <1>9, NoneAssumption DEF Resolve, journal, bounds, States,
    Unresolved, Prunable
  <1>10. CASE ResolveFails(a)
    BY <1>10, NoneAssumption DEF ResolveFails, Fault, journal, States,
    Unresolved, Prunable
  <1>11. CASE Crash(a)
    BY <1>11, GoneKeeps DEF Crash
  <1>12. CASE Restart(a)
    BY <1>12, NoneAssumption DEF Restart, journal, States, Unresolved,
    Prunable
  <1>13. CASE Exit(a)
    BY <1>13, GoneKeeps DEF Exit
  <1> QED
    BY <1>1, <1>2, <1>3, <1>4, <1>5, <1>6, <1>7, <1>8, <1>9, <1>10, <1>11,
    <1>12, <1>13 DEF AppNext, Recovery

LEMMA AgeKeeps ==
  ASSUME TypeOK, IInv, NEW d \in Documents, Age(d)
  PROVE  TypeOK' /\ IInv'
  <1>1. /\ old' = old \cup {d}
        /\ UNCHANGED <<file, papers, jobs, app, todo, held>>
        /\ UNCHANGED <<crashes, restarts, faults>>
    BY DEF Age, processes, bounds
  <1>2. TypeOK'
    BY <1>1 DEF TypeOK
  <1>3. Owned' /\ Apart' /\ Held'
    BY <1>1, NoneAssumption DEF Age, IInv, Owned, Owns, Apart, Held
  <1>4. OneUp' /\ Pruned' /\ Papers'
    BY <1>1 DEF IInv, OneUp, Pruned, Papers
  <1> QED
    BY <1>2, <1>3, <1>4 DEF IInv

LEMMA StutterKeeps ==
  ASSUME TypeOK, IInv, UNCHANGED vars
  PROVE  TypeOK' /\ IInv'
  BY DEF vars, TypeOK, IInv, Owned, Owns, Apart, Held, OneUp, Pruned, Papers

(* IInv: who owns a file, who may replace it and who may delete it, of all *)
(* jobs and of all processes, the dying and the starting one included.     *)
THEOREM Ownership == Spec => [](TypeOK /\ IInv)
  <1>1. Init => TypeOK /\ IInv
    <2> SUFFICES ASSUME Init PROVE TypeOK /\ IInv
      OBVIOUS
    <2>1. TypeOK
      BY BoundAssumption, IdleType DEF Init, TypeOK, Contents, Phases
    <2>2. IInv
      BY DEF Init, Idle, IInv, Owned, Apart, Held, OneUp, Pruned, Papers
    <2> QED
      BY <2>1, <2>2
  <1>2. TypeOK /\ IInv /\ [Next]_vars => (TypeOK /\ IInv)'
    BY JobTypes, AppTypes, JobKeeps, AppKeeps, AgeKeeps, StutterKeeps DEF Next
  <1> QED
    BY <1>1, <1>2, PTL DEF Spec

(* TypeOK: every file, job and process keeps its type; in particular only  *)
(* a state that the switch of PrintOnceAsync names is ever written.        *)
THEOREM TypeInvariant == Spec => []TypeOK
  BY Ownership, PTL

(* AtMostOnce: no crash, fault or restart lets a document be printed twice *)
(* while its journal file is kept.                                         *)
THEOREM PrintsAtMostOnce == Spec => []AtMostOnce
  <1>1. IInv => AtMostOnce
    BY DEF IInv, Papers, AtMostOnce
  <1> QED
    BY <1>1, Ownership, PTL

(* NoSilentJob: whatever may be on paper has a file that says so, in every *)
(* state in which the kiosk may die.                                       *)
THEOREM NoJobIsSilent == Spec => []NoSilentJob
  <1>1. TypeOK /\ IInv => NoSilentJob
    BY DEF TypeOK, IInv, Papers, NoSilentJob, Silent
  <1> QED
    BY <1>1, Ownership, PTL

---------------------------------------------------------------------------
(* As long as nobody restarts the app, one process has the files to itself *)

(* Only the process that is up has jobs, and only once it has recovered.   *)
Running ==
    \A j \in Jobs : jobs[j].pc # "idle" =>
        jobs[j].app \in Apps /\ app[jobs[j].app] = "running"

(* What a process holds it has still to do, or the administrator resolves. *)
Holding ==
    \A a \in Apps : held[a] # None =>
        \/ app[a] = "recovering" /\ held[a] \in todo[a]
        \/ app[a] = "running" /\ file[held[a]] = "RecoveryBlocked"

(* Recovery has every open record on its list; pruning starts with none.   *)
Blocking ==
    \A a \in Apps, d \in Documents : file[d] \in Unresolved =>
        /\ app[a] = "recovering" => d \in todo[a]
        /\ app[a] # "pruning"

(* A record that a job has checked is still what it was when replaced.     *)
Checked ==
    \A j \in Jobs : jobs[j].pc = "replace" =>
        Allowed(file[jobs[j].doc], jobs[j].to)

Listed ==
    \A a \in Apps : todo[a] # {} => app[a] \in {"recovering", "pruning", "running"}

NoneStops == \A a \in Apps : app[a] # "stopping"

Alone == NoneStops /\ Listed /\ Running /\ Holding /\ Blocking /\ Checked

(* A record that a job settles was not blocked before. *)
LEMMA OutcomeAllowed ==
  ASSUME NEW from, NEW to \in Outcomes, Allowed(from, to)
  PROVE  from \in {"SubmissionStarted", "Submitted"}
  BY DEF Allowed, Outcomes

(* A job that goes on stays with its process, and only Check lets it       *)
(* replace a record.                                                       *)
LEMMA JobFields ==
  ASSUME TypeOK, NEW j \in Jobs, JobNext(j)
  PROVE  \/ \E a \in Apps, d \in Documents : Create(j, a, d)
         \/ /\ jobs[j].pc # "idle"
            /\ \/ jobs'[j].pc = "idle"
               \/ /\ jobs'[j].app = jobs[j].app
                  /\ jobs'[j].pc # "replace" \/ Check(j)
  <1> DEFINE Goes == /\ jobs[j].pc # "idle"
                     /\ \/ jobs'[j].pc = "idle"
                        \/ /\ jobs'[j].app = jobs[j].app
                           /\ jobs'[j].pc # "replace" \/ Check(j)
  <1>1. jobs \in [Jobs -> JobRecord] /\ jobs[j] \in JobRecord
    BY DEF TypeOK
  <1>2. ASSUME NEW outcome, Settling(j, outcome), jobs[j].pc # "idle"
        PROVE  Goes
    BY <1>1, <1>2 DEF Settling, JobRecord
  <1>3. CASE Mark(j) \/ Ready(j) \/ Check(j)
    BY <1>1, <1>3 DEF Mark, Ready, Check, JobRecord
  <1>4. CASE MarkFails(j) \/ Replace(j)
    BY <1>1, <1>4 DEF MarkFails, Replace, Idle
  <1>5. CASE Reject(j) \/ Submit(j) \/ SubmitFails(j)
    BY <1>2, <1>5 DEF Reject, Submit, SubmitFails
  <1>6. CASE EngineThrows(j)
    BY <1>1, <1>6 DEF EngineThrows, JobRecord
  <1>7. ASSUME UpdateThrows(j), jobs[j].pc # "idle"
        PROVE  Goes
    <2> DEFINE r == [jobs[j] EXCEPT !.pc = "settle", !.again = TRUE,
                                    !.to = "SubmissionUncertain"]
    <2>1. jobs'[j] = Idle \/ jobs'[j] = r
      BY <1>1, <1>7 DEF UpdateThrows
    <2>2. r.pc = "settle" /\ r.app = jobs[j].app
      BY <1>1 DEF JobRecord
    <2> HIDE DEF r
    <2> QED
      BY <1>7, <2>1, <2>2 DEF Idle
  <1> QED
    BY <1>3, <1>4, <1>5, <1>6, <1>7 DEF JobNext, UpdateRefused, UpdateFails

LEMMA JobAlone ==
  ASSUME TypeOK, IInv, Alone, NEW j \in Jobs, JobNext(j)
  PROVE  Alone'
  <1>1. /\ UNCHANGED <<app, todo, held>>
        /\ \A i \in Jobs \ {j} : jobs'[i] = jobs[i]
        /\ jobs' \in [Jobs -> JobRecord]
    <2>1. TypeOK'
      BY JobTypes
    <2> QED
      BY <2>1 DEF JobNext, Create, Mark, MarkFails, Reject, EngineThrows, Ready,
                  Submit, SubmitFails, Check, Replace, UpdateRefused,
                  UpdateFails, UpdateThrows, Settling, processes, TypeOK
  <1>2. NoneStops' /\ Listed'
    BY <1>1 DEF Alone, NoneStops, Listed
  <1>3. (jobs'[j].pc # "idle" =>
           jobs'[j].app \in Apps /\ app[jobs'[j].app] = "running")
        /\ \E a \in Apps : app[a] = "running"
    <2>1. ASSUME NEW a \in Apps, NEW d \in Documents, Create(j, a, d)
          PROVE  /\ app[a] = "running"
                 /\ jobs'[j].app = a
      BY <2>1 DEF Create, Idle, Alone, NoneStops, TypeOK
    <2>2. ASSUME jobs[j].pc # "idle"
          PROVE  jobs[j].app \in Apps /\ app[jobs[j].app] = "running"
      BY <2>2 DEF Alone, Running
    <2> QED
      BY <2>1, <2>2, JobFields
  <1>4. \/ file' = file
        \/ \E d \in Documents :
             /\ file[d] \in {"absent", "torn", "SubmissionStarted", "Submitted"}
             /\ \A e \in Documents \ {d} : file'[e] = file[e]
             /\ \A i \in Jobs \ {j} : jobs[i].doc # d
    <2>1. ASSUME NEW a \in Apps, NEW d \in Documents, Create(j, a, d)
          PROVE  /\ file[d] = "absent"
                 /\ \A e \in Documents \ {d} : file'[e] = file[e]
                 /\ \A i \in Jobs \ {j} : jobs[i].doc # d
      BY <2>1, NoneAssumption
         DEF Create, Free, Write, TypeOK, IInv, Owned, Owns
    <2>2. ASSUME jobs[j].pc # "idle"
          PROVE  /\ jobs[j].doc \in Documents
                 /\ \A i \in Jobs \ {j} : jobs[i].doc # jobs[j].doc
                 /\ jobs[j].pc = "marking" => file[jobs[j].doc] = "torn"
                 /\ jobs[j].pc = "replace" =>
                       file[jobs[j].doc] \in {"SubmissionStarted", "Submitted"}
      BY <2>2, NoneAssumption, OutcomeAllowed
         DEF IInv, Owned, Owns, Apart, Alone, Checked
    <2>3. CASE Mark(j) \/ MarkFails(j) \/ Replace(j)
      <3>1. PICK x : Write(jobs[j].doc, x)
        BY <2>3 DEF Mark, MarkFails, Replace
      <3>2. \A e \in Documents \ {jobs[j].doc} : file'[e] = file[e]
        BY <3>1 DEF Write, TypeOK
      <3>3. jobs[j].pc \in {"marking", "replace"}
        BY <2>3 DEF Mark, MarkFails, Replace
      <3> QED
        BY <2>2, <3>2, <3>3
    <2>4. CASE \/ Reject(j) \/ EngineThrows(j) \/ Ready(j) \/ Submit(j)
               \/ SubmitFails(j) \/ Check(j) \/ UpdateRefused(j)
               \/ UpdateFails(j)
      BY <2>4 DEF Reject, EngineThrows, Ready, Submit, SubmitFails, Check,
                  UpdateRefused, UpdateFails, UpdateThrows, journal
    <2> QED
      BY <2>1, <2>3, <2>4 DEF JobNext
  <1>5. jobs'[j].pc = "replace" => Allowed(file'[jobs'[j].doc], jobs'[j].to)
    <2>1. jobs'[j].pc = "replace" => Check(j)
      <3>1. ASSUME NEW a \in Apps, NEW d \in Documents, Create(j, a, d)
            PROVE  jobs'[j].pc = "marking"
        BY <3>1 DEF Create, Idle, TypeOK
      <3> QED
        BY <3>1, JobFields
    <2>2. ASSUME Check(j)
          PROVE  Allowed(file'[jobs'[j].doc], jobs'[j].to)
      <3>1. /\ file' = file /\ Allowed(file[jobs[j].doc], jobs[j].to)
            /\ jobs'[j].doc = jobs[j].doc /\ jobs'[j].to = jobs[j].to
        BY <2>2 DEF Check, TypeOK, JobRecord, journal
      <3> QED
        BY <3>1
    <2> QED
      BY <2>1, <2>2
  <1>6. Running'
    BY <1>1, <1>3 DEF Alone, Running
  <1>7. Holding'
    BY <1>1, <1>4, NoneAssumption DEF Alone, Holding, TypeOK
  <1>8. Blocking'
    <2>1. \A b \in Apps : app[b] \notin {"recovering", "pruning"}
      BY <1>3 DEF IInv, OneUp
    <2> QED
      BY <1>1, <2>1 DEF Blocking
  <1>9. Checked'
    <2> SUFFICES ASSUME NEW i \in Jobs \ {j}, jobs[i].pc = "replace"
                 PROVE  Allowed(file'[jobs[i].doc], jobs[i].to)
      BY <1>1, <1>5 DEF Checked
    <2>1. Allowed(file[jobs[i].doc], jobs[i].to) /\ jobs[i].doc \in Documents
      BY DEF Alone, Checked, IInv, Owned, Owns
    <2>2. file'[jobs[i].doc] = file[jobs[i].doc]
      BY <1>4, <2>1
    <2> QED
      BY <2>1, <2>2
  <1> QED
    BY <1>2, <1>6, <1>7, <1>8, <1>9 DEF Alone

(* A process other than the one that is up does nothing. *)
LEMMA OnlyOne ==
  ASSUME TypeOK, IInv, Alone, NEW a \in Apps, app[a] # "off",
         NEW b \in Apps, b # a
  PROVE  app[b] = "off" /\ held[b] = None
  BY DEF TypeOK, Phases, IInv, OneUp, Alone, NoneStops, Holding

(* A step of a process that leaves files and jobs alone. *)
LEMMA AppQuiet ==
  ASSUME TypeOK, IInv, Alone, NEW a \in Apps, UNCHANGED <<file, jobs>>,
         app[a] = "running" => app'[a] = "running",
         app'[a] # "stopping",
         todo'[a] # {} => app'[a] \in {"recovering", "pruning", "running"},
         \A b \in Apps \ {a} :
            app'[b] = app[b] /\ held'[b] = held[b] /\ todo'[b] = todo[b],
         held'[a] # None =>
            \/ app'[a] = "recovering" /\ held'[a] \in todo'[a]
            \/ app'[a] = "running" /\ file[held'[a]] = "RecoveryBlocked",
         \A d \in Documents : file[d] \in Unresolved =>
            /\ app'[a] = "recovering" => d \in todo'[a]
            /\ app'[a] # "pruning"
  PROVE  Alone'
  BY DEF Alone, NoneStops, Listed, Running, Holding, Blocking, Checked

LEMMA AppAlone ==
  ASSUME TypeOK, IInv, Alone, NEW a \in Apps, AppNext(a), ~Restart(a)
  PROVE  Alone'
  <1>0. /\ app \in [Apps -> Phases] /\ held \in [Apps -> Documents \cup {None}]
        /\ todo \in [Apps -> SUBSET Documents] /\ file \in [Documents -> Contents]
        /\ NoneStops /\ Listed /\ Running /\ Holding /\ Blocking /\ Checked
    BY DEF TypeOK, Alone
  <1>1. CASE Start(a)
    BY <1>0, <1>1, AppQuiet
       DEF Start, Recovering, Suspended, ToBlock, journal, Holding, NoneStops
  <1>2. ASSUME NEW d \in Documents, Hold(a, d)
        PROVE  Alone'
    <2>1. /\ UNCHANGED <<file, jobs, app, todo>>
          /\ held' = [held EXCEPT ![a] = d] /\ d \in todo[a]
          /\ app[a] # "recovering" => file[d] = "RecoveryBlocked"
      BY <1>2 DEF Hold, Target, Allowed, Outcomes, journal
    <2> QED
      BY <1>0, <1>2, <2>1, AppQuiet DEF Hold, Phases, NoneStops, Listed, Blocking
  <1>3. CASE Move(a)
    <2>1. /\ held[a] \in Documents /\ held[a] # None
          /\ app[a] \in {"recovering", "running"}
          /\ file' = [file EXCEPT ![held[a]] = Target(a)]
          /\ todo' = [todo EXCEPT ![a] = @ \ {held[a]}]
          /\ held' = [held EXCEPT ![a] = None]
          /\ UNCHANGED <<jobs, app>>
          /\ app[a] = "recovering" => held[a] \in todo[a]
          /\ app[a] = "running" => file[held[a]] = "RecoveryBlocked"
      BY <1>0, <1>3 DEF Move, Write, Holding
    <2>2. Target(a) \notin Unresolved
      BY DEF Target, Unresolved
    <2>3. NoneStops' /\ Listed' /\ Running'
      BY <1>0, <2>1 DEF NoneStops, Listed, Running
    <2>4. Holding'
      BY <1>0, <2>1, OnlyOne DEF Holding
    <2>5. Blocking'
      BY <1>0, <2>1, <2>2, OnlyOne DEF Blocking
    <2>6. Checked'
      <3> SUFFICES ASSUME NEW i \in Jobs, jobs[i].pc = "replace"
                   PROVE  Allowed(file'[jobs[i].doc], jobs[i].to)
        BY <2>1 DEF Checked
      <3>1. /\ Allowed(file[jobs[i].doc], jobs[i].to)
            /\ jobs[i].doc \in Documents /\ jobs[i].to \in Outcomes
            /\ jobs[i].app \in Apps /\ app[jobs[i].app] = "running"
        BY <1>0 DEF Checked, Running, IInv, Owned, Owns
      <3>2. app[a] = "running"
        BY <2>1, <3>1, OnlyOne
      <3>3. file[jobs[i].doc] # "RecoveryBlocked"
        BY <3>1, OutcomeAllowed
      <3>4. file'[jobs[i].doc] = file[jobs[i].doc]
        BY <1>0, <2>1, <3>1, <3>2, <3>3
      <3> QED
        BY <3>1, <3>4
    <2> QED
      BY <2>3, <2>4, <2>5, <2>6 DEF Alone
  <1>4. ASSUME NEW d \in Documents, HoldRefused(a, d)
        PROVE  Alone'
    <2>1. app[a] # "running" => \A j \in Jobs : jobs[j].pc = "idle" \/ jobs[j].app # a
      BY <1>0 DEF Running
    <2> QED
      BY <1>0, <1>4, AppQuiet DEF HoldRefused, journal, NoneStops, Blocking
  <1>5. CASE Blocked(a)
    BY <1>0, <1>5, AppQuiet
       DEF Blocked, Suspended, journal, Holding, Blocking, NoneStops
  <1>6. ASSUME NEW d \in Documents, Prune(a, d)
        PROVE  Alone'
    <2>1. /\ app[a] = "pruning" /\ d \in todo[a]
          /\ file' = [file EXCEPT ![d] = "absent"]
          /\ todo' = [todo EXCEPT ![a] = @ \ {d}]
          /\ UNCHANGED <<jobs, app, held>>
      BY <1>6 DEF Prune
    <2>2. /\ \A j \in Jobs : jobs[j].doc # d
          /\ \A b \in Apps : held[b] # d
      BY <2>1 DEF IInv, Pruned
    <2>3. NoneStops' /\ Listed' /\ Running'
      BY <1>0, <2>1 DEF NoneStops, Listed, Running
    <2>4. Holding'
      BY <1>0, <2>1, <2>2 DEF Holding
    <2>5. Blocking'
      BY <1>0, <2>1 DEF Blocking, Unresolved
    <2>6. Checked'
      <3> SUFFICES ASSUME NEW i \in Jobs, jobs[i].pc = "replace"
                   PROVE  Allowed(file'[jobs[i].doc], jobs[i].to)
        BY <2>1 DEF Checked
      <3>1. file'[jobs[i].doc] = file[jobs[i].doc]
        BY <1>0, <2>1, <2>2 DEF IInv, Owned, Owns
      <3> QED
        BY <1>0, <3>1 DEF Checked
    <2> QED
      BY <2>3, <2>4, <2>5, <2>6 DEF Alone
  <1>7. CASE Recovered(a)
    BY <1>0, <1>7, AppQuiet
       DEF Recovered, Suspended, journal, Holding, NoneStops
  <1>8. CASE RecoveryFails(a)
    BY <1>0, <1>8, AppQuiet DEF RecoveryFails, Suspended, journal
  <1>9. CASE Resolve(a)
    BY <1>0, <1>9, AppQuiet DEF Resolve, journal, Holding
  <1>10. CASE ResolveFails(a)
    BY <1>0, <1>10, AppQuiet
       DEF ResolveFails, journal, Listed, Blocking, NoneStops
  <1>11. CASE Gone(a)
    <2>1. /\ UNCHANGED file
          /\ app' = [app EXCEPT ![a] = "off"]
          /\ todo' = [todo EXCEPT ![a] = {}]
          /\ held' = [held EXCEPT ![a] = None]
          /\ \A j \in Jobs :
                jobs'[j] = IF jobs[j].app = a THEN Idle ELSE jobs[j]
      BY <1>11 DEF Gone, journal
    <2>2. NoneStops' /\ Listed' /\ Holding' /\ Blocking'
      BY <1>0, <2>1 DEF NoneStops, Listed, Holding, Blocking
    <2>3. Running' /\ Checked'
      BY <1>0, <2>1 DEF Running, Checked, Idle
    <2> QED
      BY <2>2, <2>3 DEF Alone
  <1> QED
    BY <1>1, <1>2, <1>3, <1>4, <1>5, <1>6, <1>7, <1>8, <1>9, <1>10, <1>11
       DEF AppNext, Recovery, Crash, Exit

LEMMA NextAlone ==
  TypeOK /\ IInv /\ (restarts = 0 => Alone) /\ [Next]_vars
      => (restarts = 0 => Alone)'
  <1> SUFFICES ASSUME TypeOK, IInv, restarts = 0 => Alone, [Next]_vars,
                      restarts' = 0
               PROVE  Alone'
    OBVIOUS
  <1>1. restarts \in Nat
    BY BoundAssumption DEF TypeOK
  <1>2. restarts' = restarts \/ \E a \in Apps : Restart(a)
    BY DEF Next, JobNext, Create, Mark, MarkFails, Reject, EngineThrows, Ready,
           Submit, SubmitFails, Check, Replace, UpdateRefused, UpdateFails,
           AppNext, Recovery, Start, Hold, Move, HoldRefused, Blocked, Prune,
           Recovered, RecoveryFails, Resolve, ResolveFails, Crash, Exit,
           Age, Fault, bounds, vars
  <1>3. Alone
    BY <1>1, <1>2 DEF Restart
  <1>4. ASSUME NEW d \in Documents, Age(d)
        PROVE  Alone'
    BY <1>3, <1>4 DEF Age, processes, Alone, NoneStops, Listed, Running, Holding,
                     Blocking, Checked
  <1>5. ASSUME UNCHANGED vars
        PROVE  Alone'
    BY <1>3, <1>5 DEF vars, Alone, NoneStops, Listed, Running, Holding, Blocking,
                     Checked
  <1>6. ASSUME NEW a \in Apps, Restart(a)
        PROVE  FALSE
    BY <1>1, <1>6 DEF Restart
  <1> QED
    BY <1>3, <1>4, <1>5, <1>6, JobAlone, AppAlone DEF Next

(* Alone: without a restart that overlaps a print, exactly one process     *)
(* reads, replaces and deletes records, and nothing changes between its    *)
(* check of a record and its replacement.                                  *)
THEOREM AloneKept == Spec => [](restarts = 0 => Alone)
  <1>1. Init => (restarts = 0 => Alone)
    BY DEF Init, Idle, Alone, NoneStops, Listed, Running, Holding, Blocking,
           Checked, Unresolved
  <1> QED
    BY <1>1, NextAlone, Ownership, PTL DEF Spec

(* RecoveryBlocksAll: whatever crashed before and however often recovery   *)
(* had to begin again, the first session after it finds no print open.     *)
THEOREM RecoveryIsComplete == Spec => RecoveryBlocksAll
  <1> DEFINE Blocks ==
        \A a \in Apps :
          restarts = 0 /\ app[a] # "running" /\ app'[a] = "running" =>
              \A d \in Documents : file[d] \notin Unresolved
  <1>1. TypeOK /\ (restarts = 0 => Alone) /\ [Next]_vars => Blocks
    <2> SUFFICES ASSUME TypeOK, Alone, [Next]_vars, NEW a \in Apps,
                        app[a] # "running", app'[a] = "running"
                 PROVE  app[a] = "pruning"
      BY DEF Alone, Blocking
    <2>1. ASSUME NEW j \in Jobs, JobNext(j)
          PROVE  app' = app
      BY <2>1 DEF JobNext, Create, Mark, MarkFails, Reject, EngineThrows, Ready,
                  Submit, SubmitFails, Check, Replace, UpdateRefused,
                  UpdateFails, UpdateThrows, processes
    <2>2. ASSUME NEW b \in Apps, AppNext(b), ~Recovered(b)
          PROVE  app'[a] = app[a] \/ app'[a] # "running"
      BY <2>2 DEF AppNext, Recovery, Start, Recovering, Suspended, Hold, Move,
                  HoldRefused, Blocked, Prune, RecoveryFails, Resolve,
                  ResolveFails, Crash, Restart, Exit, Gone, TypeOK
    <2>3. ASSUME NEW b \in Apps, Recovered(b)
          PROVE  b = a => app[a] = "pruning"
      BY <2>3 DEF Recovered
    <2>4. ASSUME NEW b \in Apps, Recovered(b), b # a
          PROVE  app'[a] = app[a]
      BY <2>4 DEF Recovered, Suspended, TypeOK
    <2>5. (\E d \in Documents : Age(d)) \/ UNCHANGED vars => app' = app
      BY DEF Age, processes, vars
    <2> QED
      BY <2>1, <2>2, <2>3, <2>4, <2>5 DEF Next
  <1> QED
    BY <1>1, AloneKept, TypeInvariant, PTL DEF Spec, RecoveryBlocksAll

(* DoubtAcknowledged: a doubt leaves the journal by the administrator's    *)
(* acknowledgement only; no late job, recovery or pruning settles it.      *)
THEOREM DoubtStands == Spec => DoubtAcknowledged
  <1> DEFINE Stands ==
        \A d \in Documents :
          restarts = 0 /\ file[d] \in Doubtful =>
              file'[d] \in Doubtful \cup {"AdminResolved"}
  <1>1. TypeOK /\ IInv /\ (restarts = 0 => Alone) /\ [Next]_vars => Stands
    <2> SUFFICES ASSUME TypeOK, IInv, Alone, [Next]_vars, NEW d \in Documents,
                        file[d] \in Doubtful
                 PROVE  file'[d] \in Doubtful \cup {"AdminResolved"}
      OBVIOUS
    <2>1. ASSUME NEW j \in Jobs, NEW x, Write(jobs[j].doc, x),
                 jobs[j].pc \in {"marking", "replace"}
          PROVE  file'[d] = file[d]
      <3>1. \/ file[jobs[j].doc] = "torn"
            \/ file[jobs[j].doc] \in {"SubmissionStarted", "Submitted"}
        BY <2>1, OutcomeAllowed DEF Alone, Checked, IInv, Owned, Owns
      <3>2. jobs[j].doc # d
        BY <3>1 DEF Doubtful
      <3> QED
        BY <2>1, <3>2 DEF Write, TypeOK
    <2>2. ASSUME NEW j \in Jobs, JobNext(j)
          PROVE  file'[d] = file[d]
      <3>1. CASE Mark(j) \/ MarkFails(j) \/ Replace(j)
        <4>1. /\ jobs[j].pc \in {"marking", "replace"}
              /\ \E x : Write(jobs[j].doc, x)
          BY <3>1 DEF Mark, MarkFails, Replace
        <4> QED
          BY <2>1, <4>1
      <3>2. ASSUME NEW a \in Apps, NEW e \in Documents, Create(j, a, e)
            PROVE  file'[d] = file[d]
        BY <3>2 DEF Create, Free, Write, TypeOK, Doubtful
      <3> QED
        BY <2>2, <3>1, <3>2
           DEF JobNext, Reject, EngineThrows, Ready, Submit, SubmitFails, Check,
               UpdateRefused, UpdateFails, UpdateThrows, journal
    <2>3. ASSUME NEW a \in Apps, Move(a)
          PROVE  file'[d] \in Doubtful \cup {"AdminResolved"}
      BY <2>3 DEF Move, Write, Target, TypeOK, Doubtful
    <2>4. ASSUME NEW a \in Apps, NEW e \in Documents, Prune(a, e)
          PROVE  file'[d] = file[d]
      BY <2>4 DEF Prune, IInv, Pruned, Prunable, Doubtful, TypeOK
    <2>5. ASSUME NEW a \in Apps, AppNext(a), ~Move(a),
                 ~\E e \in Documents : Prune(a, e)
          PROVE  file' = file
      BY <2>5 DEF AppNext, Recovery, Start, Hold, HoldRefused, Blocked,
                  Recovered, RecoveryFails, Resolve, ResolveFails, Crash,
                  Restart, Exit, Gone, journal
    <2>6. (\E e \in Documents : Age(e)) \/ UNCHANGED vars => file' = file
      BY DEF Age, vars
    <2> QED
      BY <2>2, <2>3, <2>4, <2>5, <2>6 DEF Next
  <1> QED
    BY <1>1, AloneKept, Ownership, PTL DEF Spec, DoubtAcknowledged

===========================================================================
