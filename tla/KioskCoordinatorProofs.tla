---------------------- MODULE KioskCoordinatorProofs ----------------------
(***************************************************************************)
(* Proofs about KioskCoordinator, for any number of runs that overlap and  *)
(* any number of faults and clicks: first that one run at most goes on,    *)
(* then what the kiosk knows of the paper, of the document it has taken    *)
(* and of its own flags.                                                   *)
(***************************************************************************)
EXTENDS KioskCoordinator, TLAPS

RunsTyped == run \in [Runs -> RunRecord]

IInv == RunsTyped /\ OneLiveRun

(* A step that starts no run and revives none. *)
Calm ==
    /\ run' \in [Runs -> RunRecord]
    /\ \A r \in Runs : Live(r)' => Live(r)
    /\ active' = active

(* Any step after which only the active run may go on. *)
Kept == RunsTyped' /\ OneLiveRun'

LEMMA CalmKeeps ==
    ASSUME IInv, Calm
    PROVE  Kept
  BY DEF IInv, Calm, Kept, RunsTyped, OneLiveRun

---------------------------------------------------------------------------
(* Updates of one run *)

Places == {"free", "delay", "engine", "done"} \cup (Ops \ {"printing"})
Endings == {"none", "error", "suspended"}
Engines == {"none", "rendering", "asking", "threw", "aborted", "spooling"}

(* A changed field leaves a run's record a record, and its token alone. *)
LEMMA FieldTypes ==
    ASSUME NEW x \in RunRecord
    PROVE  /\ \A at \in Places :
                 /\ [x EXCEPT !.at = at] \in RunRecord
                 /\ [x EXCEPT !.at = at].cancelled = x.cancelled
                 /\ [x EXCEPT !.at = at].at = at
           /\ \A then \in Endings :
                 /\ [x EXCEPT !.then = then] \in RunRecord
                 /\ [x EXCEPT !.then = then].cancelled = x.cancelled
                 /\ [x EXCEPT !.then = then].at = x.at
           /\ \A consumed \in BOOLEAN :
                 /\ [x EXCEPT !.consumed = consumed] \in RunRecord
                 /\ [x EXCEPT !.consumed = consumed].cancelled = x.cancelled
                 /\ [x EXCEPT !.consumed = consumed].at = x.at
           /\ \A engine \in Engines :
                 /\ [x EXCEPT !.engine = engine] \in RunRecord
                 /\ [x EXCEPT !.engine = engine].cancelled = x.cancelled
                 /\ [x EXCEPT !.engine = engine].at = x.at
           /\ \A paper \in BOOLEAN :
                 /\ [x EXCEPT !.paper = paper] \in RunRecord
                 /\ [x EXCEPT !.paper = paper].cancelled = x.cancelled
                 /\ [x EXCEPT !.paper = paper].at = x.at
           /\ \A cancelled \in BOOLEAN :
                 /\ [x EXCEPT !.cancelled = cancelled] \in RunRecord
                 /\ [x EXCEPT !.cancelled = cancelled].cancelled = cancelled
                 /\ [x EXCEPT !.cancelled = cancelled].at = x.at
  BY DEF RunRecord, Places, Endings, Engines

(* A run that goes on, ends, or only talks to its engine. *)
LEMMA MoveCalm ==
    ASSUME RunsTyped, NEW r \in Runs, NEW x \in RunRecord,
           x.at = "done" \/ x.cancelled = run[r].cancelled,
           run[r].at \notin {"free", "done"} \/ x.at = run[r].at,
           run' = [run EXCEPT ![r] = x],
           active' = active
    PROVE  Calm
<1>1. run' \in [Runs -> RunRecord]
  BY DEF RunsTyped
<1>2. \A s \in Runs : Live(s)' => Live(s)
  BY DEF RunsTyped, Live
<1> QED
  BY <1>1, <1>2 DEF Calm

LEMMA StillCalm ==
    ASSUME RunsTyped, run' = run, active' = active
    PROVE  Calm
  BY DEF RunsTyped, Calm, Live

LEMMA PlaceCalm ==
    ASSUME RunsTyped, NEW r \in Runs, NEW at \in Places,
           run[r].at \notin {"free", "done"},
           run' = [run EXCEPT ![r].at = at],
           active' = active
    PROVE  Calm
<1> DEFINE x == [run[r] EXCEPT !.at = at]
<1>1. run[r] \in RunRecord
  BY DEF RunsTyped
<1>2. x \in RunRecord /\ x.cancelled = run[r].cancelled
  BY <1>1, FieldTypes
<1>3. run' = [run EXCEPT ![r] = x]
  OBVIOUS
<1> HIDE DEF x
<1> QED
  BY <1>2, <1>3, MoveCalm

LEMMA EngineCalm ==
    ASSUME RunsTyped, NEW r \in Runs, NEW engine \in Engines,
           run' = [run EXCEPT ![r].engine = engine],
           active' = active
    PROVE  Calm
<1> DEFINE x == [run[r] EXCEPT !.engine = engine]
<1>1. run[r] \in RunRecord
  BY DEF RunsTyped
<1>2. x \in RunRecord /\ x.cancelled = run[r].cancelled /\ x.at = run[r].at
  BY <1>1, FieldTypes
<1>3. run' = [run EXCEPT ![r] = x]
  OBVIOUS
<1> HIDE DEF x
<1> QED
  BY <1>2, <1>3, MoveCalm

(* Two fields at once. *)
LEMMA BothTypes ==
    ASSUME NEW z \in RunRecord, NEW at \in Places, NEW consumed \in BOOLEAN,
           NEW engine \in Engines
    PROVE  /\ LET x == [z EXCEPT !.at = at, !.consumed = consumed]
              IN  x \in RunRecord /\ x.cancelled = z.cancelled
           /\ LET x == [z EXCEPT !.at = at, !.engine = engine]
              IN  x \in RunRecord /\ x.cancelled = z.cancelled
<1> DEFINE y == [z EXCEPT !.at = at]
<1>1. y \in RunRecord /\ y.cancelled = z.cancelled
  BY FieldTypes
<1> HIDE DEF y
<1>2. LET x == [y EXCEPT !.consumed = consumed]
      IN  x \in RunRecord /\ x.cancelled = y.cancelled
  BY <1>1, FieldTypes
<1>3. LET x == [y EXCEPT !.engine = engine]
      IN  x \in RunRecord /\ x.cancelled = y.cancelled
  BY <1>1, FieldTypes
<1> QED
  BY <1>1, <1>2, <1>3 DEF y

LEMMA ConsumeCalm ==
    ASSUME RunsTyped, NEW r \in Runs, run[r].at = "status",
           run' = [run EXCEPT ![r].at = "consume", ![r].consumed = TRUE],
           active' = active
    PROVE  Calm
<1> DEFINE x == [run[r] EXCEPT !.at = "consume", !.consumed = TRUE]
<1>1. run[r] \in RunRecord /\ "consume" \in Places
  BY DEF RunsTyped, Places, Ops, TokenOps
<1>2. x \in RunRecord /\ x.cancelled = run[r].cancelled
  BY <1>1, BothTypes DEF Engines
<1>3. run' = [run EXCEPT ![r] = x]
  BY DEF RunsTyped
<1> HIDE DEF x
<1> QED
  BY <1>2, <1>3, MoveCalm

LEMMA HandOverCalm ==
    ASSUME RunsTyped, NEW r \in Runs, run[r].at = "validating",
           run' = [run EXCEPT ![r].at = "engine", ![r].engine = "rendering"],
           active' = active
    PROVE  Calm
<1> DEFINE x == [run[r] EXCEPT !.at = "engine", !.engine = "rendering"]
<1>1. run[r] \in RunRecord /\ "engine" \in Places /\ "rendering" \in Engines
  BY DEF RunsTyped, Places, Engines
<1>2. x \in RunRecord /\ x.cancelled = run[r].cancelled
  BY <1>1, BothTypes
<1>3. run' = [run EXCEPT ![r] = x]
  BY DEF RunsTyped
<1> HIDE DEF x
<1> QED
  BY <1>2, <1>3, MoveCalm

LEMMA SubmitCalm ==
    ASSUME RunsTyped, NEW r \in Runs, NEW paper \in BOOLEAN,
           run' = [run EXCEPT ![r].engine = "none", ![r].paper = paper],
           active' = active
    PROVE  Calm
<1> DEFINE y == [run[r] EXCEPT !.engine = "none"]
           x == [y EXCEPT !.paper = paper]
<1>1. run[r] \in RunRecord /\ "none" \in Engines
  BY DEF RunsTyped, Engines
<1>2. y \in RunRecord /\ y.cancelled = run[r].cancelled /\ y.at = run[r].at
  BY <1>1, FieldTypes
<1>3. run' = [run EXCEPT ![r] = x]
  BY DEF RunsTyped
<1> HIDE DEF y
<1>4. x \in RunRecord /\ x.cancelled = y.cancelled /\ x.at = y.at
  BY <1>2 DEF RunRecord
<1> HIDE DEF x
<1> QED
  BY <1>2, <1>3, <1>4, MoveCalm

(* What is left of a run that has ended, or of any when the app has. *)
LEMMA RemainsTypes ==
    ASSUME NEW z \in RunRecord
    PROVE  /\ LET x == [Idle EXCEPT !.at = "done", !.paper = z.paper]
              IN  x \in RunRecord /\ x.at = "done"
           /\ LET x == [Idle EXCEPT !.paper = z.paper]
              IN  x \in RunRecord /\ x.at = "free"
  BY DEF Idle, RunRecord

LEMMA EndedCalm ==
    ASSUME RunsTyped, NEW r \in Runs, run[r].at \notin {"free", "done"},
           run' = Ended(r), active' = active
    PROVE  Calm
<1> DEFINE x == [Idle EXCEPT !.at = "done", !.paper = run[r].paper]
<1>1. run[r] \in RunRecord
  BY DEF RunsTyped
<1>2. x \in RunRecord /\ x.at = "done"
  BY <1>1, RemainsTypes
<1>3. run' = [run EXCEPT ![r] = x]
  BY DEF Ended
<1> HIDE DEF x
<1> QED
  BY <1>2, <1>3, MoveCalm

LEMMA EndCalm ==
    ASSUME RunsTyped, NEW r \in Runs, NEW tail,
           run[r].at \notin {"free", "done"}, End(r, tail)
    PROVE  Calm
  BY EndedCalm DEF End

LEMMA GoOnCalm ==
    ASSUME RunsTyped, NEW r \in Runs, NEW op \in Places, NEW tail,
           run[r].at \notin {"free", "done"}, GoOn(r, op, tail)
    PROVE  Calm
  BY PlaceCalm DEF GoOn, fields

(* A run turns to its last call, in the try block or in a catch clause. *)
TurnsTo(r, op, then) ==
    \/ run' = [run EXCEPT ![r].at = op, ![r].then = then]
    \/ \E guarded \in BOOLEAN :
          run' = [run EXCEPT ![r].at = op, ![r].then = then,
                             ![r].guarded = guarded]

LEMMA TurnLeaves ==
    ASSUME RunsTyped, NEW r \in Runs, NEW op \in {"failed", "cancel"},
           NEW then \in Endings, TurnsTo(r, op, then)
    PROVE  \E x \in RunRecord :
              /\ run' = [run EXCEPT ![r] = x]
              /\ x.at = op /\ x.then = then
              /\ x.consumed = run[r].consumed
              /\ x.cancelled = run[r].cancelled
              /\ x.engine = run[r].engine /\ x.paper = run[r].paper
<1>1. run[r] \in RunRecord /\ op \in Places
  BY DEF RunsTyped, Places, Ops, TokenOps
<1>2. CASE run' = [run EXCEPT ![r].at = op, ![r].then = then]
  <2> DEFINE x == [run[r] EXCEPT !.at = op, !.then = then]
  <2>1. /\ x \in RunRecord /\ x.at = op /\ x.then = then
        /\ x.consumed = run[r].consumed
        /\ x.cancelled = run[r].cancelled
        /\ x.engine = run[r].engine /\ x.paper = run[r].paper
    BY <1>1 DEF RunRecord, Places, Endings
  <2>2. run' = [run EXCEPT ![r] = x]
    BY <1>2 DEF RunsTyped
  <2> QED
    BY <2>1, <2>2
<1>3. ASSUME NEW guarded \in BOOLEAN,
             run' = [run EXCEPT ![r].at = op, ![r].then = then,
                                ![r].guarded = guarded]
      PROVE  \E x \in RunRecord :
                /\ run' = [run EXCEPT ![r] = x]
                /\ x.at = op /\ x.then = then
                /\ x.consumed = run[r].consumed
                /\ x.cancelled = run[r].cancelled
                /\ x.engine = run[r].engine /\ x.paper = run[r].paper
  <2> DEFINE x == [run[r] EXCEPT !.at = op, !.then = then,
                                 !.guarded = guarded]
  <2>1. /\ x \in RunRecord /\ x.at = op /\ x.then = then
        /\ x.consumed = run[r].consumed
        /\ x.cancelled = run[r].cancelled
        /\ x.engine = run[r].engine /\ x.paper = run[r].paper
    BY <1>1 DEF RunRecord, Places, Endings
  <2>2. run' = [run EXCEPT ![r] = x]
    BY <1>3 DEF RunsTyped
  <2> QED
    BY <2>1, <2>2
<1> QED
  BY <1>2, <1>3 DEF TurnsTo

LEMMA FinishCalm ==
    ASSUME RunsTyped, NEW r \in Runs, NEW op \in {"failed", "cancel"},
           NEW then \in Endings,
           run[r].at \notin {"free", "done"},
           TurnsTo(r, op, then),
           active' = active
    PROVE  Calm
  BY TurnLeaves, MoveCalm

LEMMA ThrowCalm ==
    ASSUME RunsTyped, NEW r \in Runs, NEW tail,
           run[r].at \notin {"free", "done"}, Throw(r, tail)
    PROVE  Calm
  BY FinishCalm DEF Throw, Finish, TurnsTo, fields, Endings

LEMMA AbandonCalm ==
    ASSUME RunsTyped, NEW r \in Runs, NEW tail,
           run[r].at \notin {"free", "done"}, Abandon(r, tail)
    PROVE  Calm
  BY FinishCalm, EndCalm DEF Abandon, Finish, TurnsTo, fields, Endings

(* An answer: a caller that is no run has no engine. *)
LEMMA ResumeCalm ==
    ASSUME RunsTyped, NEW w, NEW answer, Resume(w, answer),
           active' = active
    PROVE  Calm
<1>1. CASE run' = run
  BY <1>1, StillCalm
<1>2. CASE w \in Runs /\ awaiting[w].op = "printing"
  BY <1>2, EngineCalm DEF Resume, Engines
<1>3. CASE w \notin Runs
  BY <1>1, <1>3 DEF Resume, RunsTyped
<1> QED
  BY <1>1, <1>2, <1>3 DEF Resume

---------------------------------------------------------------------------
(* A fresh session *)

LEMMA CancelType ==
    ASSUME NEW before \in [Runs -> RunRecord]
    PROVE  /\ CancelActive(before) \in [Runs -> RunRecord]
           /\ \A r \in Runs :
                 /\ CancelActive(before)[r].at = before[r].at
                 /\ CancelActive(before)[r].cancelled
                       = (before[r].cancelled \/ r = active)
<1>1. ASSUME NEW r \in Runs
      PROVE  LET x == [before[r] EXCEPT !.cancelled = @ \/ r = active]
             IN  /\ x \in RunRecord
                 /\ x.at = before[r].at
                 /\ x.cancelled = (before[r].cancelled \/ r = active)
  BY DEF RunRecord
<1> QED
  BY <1>1 DEF CancelActive

LEMMA StartedType == Started \in RunRecord
  BY DEF Started, Idle, RunRecord, Ops, TokenOps

(* Whatever the caller has done to the runs, as long as no run but the     *)
(* active one is live when the session starts.                             *)
LEMMA FreshKeeps ==
    ASSUME NEW before \in [Runs -> RunRecord], NEW tail,
           \A r \in Runs : before[r].at \notin {"free", "done"}
                              /\ ~before[r].cancelled => r = active,
           FreshSession(before, tail)
    PROVE  Kept
<1> DEFINE others == CancelActive(before)
<1>1. PICK new \in Runs : run' = [others EXCEPT ![new] = Started]
                          /\ active' = new
  BY DEF FreshSession
<1>2. /\ others \in [Runs -> RunRecord]
      /\ \A r \in Runs : others[r].at \in {"free", "done"}
                            \/ others[r].cancelled
  BY CancelType
<1> HIDE DEF others
<1>3. RunsTyped'
  BY <1>1, <1>2, StartedType DEF RunsTyped
<1>4. OneLiveRun'
  BY <1>1, <1>2 DEF OneLiveRun, Live
<1> QED
  BY <1>3, <1>4 DEF Kept

---------------------------------------------------------------------------
(* The steps *)

LEMMA ContinueKeeps ==
    ASSUME IInv, NEW r \in Runs, Continue(r) \/ Poll(r)
    PROVE  Kept
<1> USE DEF IInv, Places, Ops, TokenOps, Endings, Engines
<1>1. CASE Created(r)
  <2>1. CASE Answer = "ok" /\ run[r].cancelled
    BY <1>1, <2>1, EndedCalm, CalmKeeps DEF Created, Failed
  <2>2. CASE Answer = "ok" /\ ~run[r].cancelled
    BY <1>1, <2>2, PlaceCalm, CalmKeeps DEF Created, Failed
  <2>3. CASE Answer # "ok"
    BY <1>1, <2>3, EndCalm, CalmKeeps DEF Created
  <2> QED
    BY <2>1, <2>2, <2>3
<1>2. CASE Poll(r)
  BY <1>2, AbandonCalm, GoOnCalm, CalmKeeps DEF Poll
<1>3. CASE GiveUp(r)
  <2>1. Ended(r) \in [Runs -> RunRecord]
    BY RemainsTypes DEF RunsTyped, Ended
  <2>2. \A s \in Runs : Ended(r)[s].at \notin {"free", "done"}
                           /\ ~Ended(r)[s].cancelled => s = active
    BY RemainsTypes DEF RunsTyped, Ended, OneLiveRun, Live
  <2> QED
    BY <1>3, <2>1, <2>2, FreshKeeps DEF GiveUp
<1>4. CASE Progress(r)
  BY <1>4, EndCalm, PlaceCalm, CalmKeeps DEF Progress, fields
<1>5. CASE Consume(r)
  <2>1. CASE MayConsume(r)
    BY <1>5, <2>1, ConsumeCalm, CalmKeeps DEF Consume
  <2>2. CASE ~MayConsume(r)
    BY <1>5, <2>2, FinishCalm, CalmKeeps
       DEF Consume, Finish, TurnsTo, fields
  <2> QED
    BY <2>1, <2>2
<1>6. CASE PollFails(r)
  BY <1>6, AbandonCalm, ThrowCalm, CalmKeeps DEF PollFails
<1>7. CASE Fetch(r)
  BY <1>7, AbandonCalm, ThrowCalm, GoOnCalm, CalmKeeps DEF Fetch
<1>8. CASE Validate(r)
  <2>1. CASE run' = [run EXCEPT ![r].at = "engine",
                                ![r].engine = "rendering"]
             /\ active' = active
    BY <1>8, <2>1, HandOverCalm, CalmKeeps DEF Validate
  <2>2. CASE run' = [run EXCEPT ![r].at = "failed", ![r].then = "error"]
             /\ active' = active
    BY <1>8, <2>2, FinishCalm, CalmKeeps DEF Validate, TurnsTo
  <2> QED
    BY <1>8, <2>1, <2>2, AbandonCalm, ThrowCalm, CalmKeeps
       DEF Validate, fields
<1>9. CASE Report(r)
  BY <1>9, AbandonCalm, ThrowCalm, GoOnCalm, FinishCalm, CalmKeeps
     DEF Report, Finish, TurnsTo, fields
<1>10. CASE Complete(r)
  BY <1>10, AbandonCalm, ThrowCalm, EndCalm, CalmKeeps DEF Complete
<1>11. CASE Finished(r)
  BY <1>11, ThrowCalm, EndCalm, CalmKeeps DEF Finished
<1> QED
  BY <1>1, <1>2, <1>3, <1>4, <1>5, <1>6, <1>7, <1>8, <1>9, <1>10, <1>11
     DEF Continue

LEMMA EngineKeepsOne ==
    ASSUME IInv, NEW r \in Runs, Engine(r)
    PROVE  Kept
<1> USE DEF IInv, Engines, EngineKeeps, fields
<1>1. CASE Refuse(r)
  BY <1>1, EngineCalm, CalmKeeps DEF Refuse
<1>2. CASE AskToPrint(r)
  BY <1>2, EngineCalm, CalmKeeps DEF AskToPrint
<1>3. CASE NotReady(r)
  BY <1>3, EngineCalm, CalmKeeps DEF NotReady
<1>4. CASE Submit(r)
  <2>1. PICK paper \in BOOLEAN :
            run' = [run EXCEPT ![r].engine = "none", ![r].paper = paper]
    BY <1>4 DEF Submit
  <2> QED
    BY <1>4, <2>1, SubmitCalm, CalmKeeps DEF Submit
<1> QED
  BY <1>1, <1>2, <1>3, <1>4 DEF Engine

LEMMA FreshRun ==
    ASSUME IInv, NEW tail, FreshSession(run, tail)
    PROVE  Kept
  BY FreshKeeps DEF IInv, RunsTyped, OneLiveRun, Live

LEMMA InterruptKeeps ==
    ASSUME IInv, NEW w, NEW op, Interrupt(w, op)
    PROVE  Kept
<1>1. /\ CancelActive(run) \in [Runs -> RunRecord]
      /\ \A r \in Runs :
            /\ CancelActive(run)[r].at = run[r].at
            /\ CancelActive(run)[r].cancelled
                  = (run[r].cancelled \/ r = active)
  BY CancelType DEF IInv, RunsTyped
<1>2. CASE FreshSession(CancelActive(run), queue)
  BY <1>1, <1>2, FreshKeeps DEF IInv, OneLiveRun, Live
<1>3. CASE run' = CancelActive(run) /\ active' = active
  BY <1>1, <1>3, CalmKeeps DEF Calm, Live
<1> QED
  BY <1>2, <1>3 DEF Interrupt

LEMMA QuitKeeps ==
    ASSUME IInv, Quit
    PROVE  Kept
<1>1. \A r \in Runs : [Idle EXCEPT !.paper = run[r].paper] \in RunRecord
                        /\ [Idle EXCEPT !.paper = run[r].paper].at = "free"
  BY RemainsTypes DEF IInv, RunsTyped
<1>2. /\ run' \in [Runs -> RunRecord]
      /\ \A r \in Runs : run'[r].at = "free"
  BY <1>1 DEF Quit
<1> QED
  BY <1>2 DEF Kept, RunsTyped, OneLiveRun, Live

LEMMA ReplyCalm ==
    ASSUME RunsTyped, NEW q, NEW answer, Reply(q, answer), active' = active
    PROVE  Calm
  BY ResumeCalm, StillCalm DEF Reply

LEMMA NetworkKeeps ==
    ASSUME IInv, Network
    PROVE  Kept
<1> USE DEF IInv, fields
<1>1. ASSUME NEW q \in requests, Serve(q) PROVE Kept
  <2>1. active' = active
    BY <1>1 DEF Serve
  <2>2. PICK answer : Reply(q, answer)
    BY <1>1 DEF Serve
  <2> QED
    BY <2>1, <2>2, ReplyCalm, CalmKeeps
<1>2. ASSUME NEW w \in Callers, Lose(w) PROVE Kept
  BY <1>2, ResumeCalm, CalmKeeps DEF Lose
<1>3. ASSUME NEW r \in Runs, Abort(r) PROVE Kept
  BY <1>3, ResumeCalm, CalmKeeps DEF Abort
<1> QED
  BY <1>1, <1>2, <1>3 DEF Network

LEMMA NextKeeps == IInv /\ [Next]_vars => IInv'
<1> SUFFICES ASSUME IInv, [Next]_vars PROVE Kept
  BY DEF Kept, IInv
<1>1. CASE Interface
  <2>1. CASE Open \/ Tick
    BY <2>1, FreshRun DEF Open, Tick
  <2> QED
    BY <1>1, <2>1, ContinueKeeps DEF Interface
<1>2. CASE Clicked
  BY <1>2, InterruptKeeps DEF Clicked, ForceDiscard, SelectPrinter
<1>3. CASE Returned
  BY <1>3, QuitKeeps, FreshRun DEF Returned, Interrupted
<1>4. CASE Network
  BY <1>4, NetworkKeeps
<1>5. ASSUME NEW r \in Runs, Engine(r) PROVE Kept
  BY <1>5, EngineKeepsOne
<1>6. CASE Dispose
  BY <1>6, QuitKeeps DEF Dispose
<1>7. ASSUME NEW r \in Runs, Phone(r) \/ Expire(r) PROVE Kept
  BY <1>7, StillCalm, CalmKeeps DEF Phone, Expire, fields, IInv
<1>8. CASE UNCHANGED vars
  BY <1>8, StillCalm, CalmKeeps DEF vars, IInv
<1> QED
  BY <1>1, <1>2, <1>3, <1>4, <1>5, <1>6, <1>7, <1>8 DEF Next

(* However timer, operator and loop interleave, and whatever answers come  *)
(* late: the runs that were told to stop are all but one.                  *)
THEOREM OneRunGoesOn == Spec => []OneLiveRun
<1>1. Init => IInv
  <2> SUFFICES ASSUME Init PROVE IInv
    OBVIOUS
  <2>1. Idle \in RunRecord
    BY DEF Idle, RunRecord
  <2> QED
    BY <2>1 DEF Init, IInv, RunsTyped, OneLiveRun, Live, Idle
<1>2. IInv => OneLiveRun
  BY DEF IInv
<1> QED
  BY <1>1, <1>2, NextKeeps, PTL DEF Spec

---------------------------------------------------------------------------
(* The inductive invariant *)

ServerStates == Statuses \cup {"none"}

Answers ==
    Statuses \cup {"none", "ok", "refused", "lost", "broken", "aborted",
                   "submitted", "badDocument", "rejected"}

Posting == [to : Callers, answer : Answers]

ScreenStates == {"preparing", "waiting", "claimed", "uploading", "validating",
                 "printing", "completed", "error", "suspended"}

(* The type of every variable. *)
TypeOK ==
    /\ server \in [Runs -> ServerStates]
    /\ run \in [Runs -> RunRecord]
    /\ requests \in SUBSET Request
    /\ awaiting \in [Callers -> Request \cup {None}]
    /\ queue \in Seq(Posting)
    /\ {active, current, doomed} \subseteq Runs \cup {None}
    /\ currentConsumed \in BOOLEAN
    /\ changing \in BOOLEAN
    /\ screen \in [state : ScreenStates, timed : BOOLEAN,
                   run : Runs \cup {None}]
    /\ faults \in Nat
    /\ clicks \in Nat
    /\ down \in BOOLEAN

(* e is a continuation of the queue. *)
In(e, q) == \E i \in 1..Len(q) : q[i] = e

(* No caller has two continuations. *)
Distinct(q) == \A i, j \in 1..Len(q) : q[i].to = q[j].to => i = j

(* Any continuation of w comes after e. *)
After(q, e, w) ==
    \A i, j \in 1..Len(q) : q[i] = e /\ q[j].to = w => i < j

(* A caller has sent a request, or its continuation is posted, not both. *)
CallerWaits(w) ==
    awaiting[w] # None =>
        /\ awaiting[w].from = w
        /\ awaiting[w].op = "printing" => w \in Runs
        /\ \A e \in Posting : In(e, queue) => e.to # w

(* A run is where the request that it awaits has been sent. *)
RunWaits(r) ==
    /\ awaiting[r] # None =>
          /\ awaiting[r].run = r
          /\ IF awaiting[r].op = "printing" THEN run[r].engine = "asking"
             ELSE run[r].engine = "none" /\ run[r].at = awaiting[r].op
    /\ run[r].engine # "none" =>
          /\ run[r].at = "engine"
          /\ \A e \in Posting : In(e, queue) => e.to # r
    /\ \A e \in Posting :
          In(e, queue) /\ e.to = r => run[r].at \notin {"free", "done", "delay"}

Waiting ==
    /\ Distinct(queue)
    /\ \A w \in Callers : CallerWaits(w)
    /\ \A r \in Runs : RunWaits(r)

Unprinted == {"create", "delay", "status", "consume", "download", "validating"}

(* What is known of the paper, and what the requests under way will do. *)
PaperTold(r) ==
    /\ run[r].paper => server[r] \in {"printing", "completed", "failed"}
    /\ server[r] = "completed" => run[r].paper
    /\ run[r].at = "completed" => run[r].paper
    /\ run[r].at \in Unprinted \/ run[r].engine # "none" => ~run[r].paper
    /\ run[r].at \in {"failed", "cancel"} /\ run[r].then = "error"
          => ~run[r].paper
    /\ run[r].engine = "spooling" => server[r] \in {"printing", "failed"}
    /\ \A q \in requests : q.run = r /\ q.op = "completed" => run[r].paper
    /\ \A q \in requests :
          ~down /\ q.run = r /\ q.op = "create" => awaiting[r] = q
    /\ \A e \in Posting : In(e, queue) /\ e.to = r =>
          /\ e.answer = "submitted" => run[r].paper
          /\ e.answer = "badDocument" => ~run[r].paper

(* No document is at the kiosk, or on its way to it. *)
Unread(r) ==
    /\ server[r] \notin Processing
    /\ \A q \in requests : q.run = r => q.op # "consume"

(* A run consumes or is cancelled, not both. *)
CancelSpares(r) ==
    /\ \A q \in requests : q.run = r /\ q.op = "cancel" =>
          /\ run[r].cancelled \/ run[r].at \in {"cancel", "done", "free"}
          /\ Unread(r)
    /\ run[r].at \notin {"free", "done"} /\ ~run[r].consumed => Unread(r)
    /\ run[r].at \in {"create", "delay", "status", "cancel"} =>
          ~run[r].consumed

(* The flags that all runs share, and the run they are about. *)
FlagsTell(r) ==
    /\ current = r =>
          /\ run[r].at \notin {"free", "done"}
          /\ run[r].consumed => currentConsumed
    /\ Live(r) /\ run[r].consumed => current = r /\ ~changing

(* A run that was cancelled after its session was created clears the flags *)
(* before the run that followed it can set them.                           *)
ClearsFirst(s) ==
    LET e == [to |-> s, answer |-> "ok"]
    IN  In(e, queue) /\ run[s].at = "create" /\ run[s].cancelled =>
            \A r \in Runs :
                Live(r) => run[r].at = "create" /\ After(queue, e, r)

ScreenTells ==
    /\ screen.state = "completed" =>
          screen.run \in Runs /\ run[screen.run].paper
    /\ screen.state = "error" =>
          /\ screen.run \in Runs
          /\ run[screen.run].at = "done" /\ ~run[screen.run].paper

SafetyInvariant ==
    /\ TypeOK
    /\ OneLiveRun
    /\ Waiting
    /\ \A r \in Runs : PaperTold(r)
    /\ \A r \in Runs : CancelSpares(r)
    /\ \A r \in Runs : FlagsTell(r)
    /\ \A r \in Runs : ClearsFirst(r)
    /\ ScreenTells

---------------------------------------------------------------------------
(* The queue of continuations *)

(* What is left when its first continuation is taken. *)
LEMMA Taken ==
    ASSUME NEW q \in Seq(Posting), q # <<>>, Distinct(q)
    PROVE  /\ Tail(q) \in Seq(Posting)
           /\ Distinct(Tail(q))
           /\ Head(q) \in Posting
           /\ In(Head(q), q)
           /\ \A e : In(e, Tail(q)) => In(e, q) /\ e.to # Head(q).to
           /\ \A e, w : After(q, e, w) => After(Tail(q), e, w)
           /\ \A e : In(e, q) => ~After(q, e, Head(q).to)
<1>1. /\ Len(q) \in Nat /\ Len(q) > 0
      /\ Tail(q) \in Seq(Posting)
      /\ Len(Tail(q)) = Len(q) - 1
      /\ Head(q) = q[1] /\ Head(q) \in Posting
      /\ \A i \in 1..Len(Tail(q)) : Tail(q)[i] = q[i + 1]
  OBVIOUS
<1>2. \A i \in 1..Len(Tail(q)) : i + 1 \in 1..Len(q)
  BY <1>1
<1>3. Distinct(Tail(q))
  BY <1>1, <1>2 DEF Distinct
<1>4. In(Head(q), q)
  BY <1>1 DEF In
<1>5. ASSUME NEW e, In(e, Tail(q))
      PROVE  In(e, q) /\ e.to # Head(q).to
  <2>1. PICK i \in 1..Len(Tail(q)) : Tail(q)[i] = e
    BY <1>5 DEF In
  <2>2. q[i + 1] = e /\ i + 1 \in 1..Len(q) /\ i + 1 # 1
    BY <2>1, <1>1, <1>2
  <2> QED
    BY <2>2, <1>1 DEF In, Distinct
<1>6. ASSUME NEW e, NEW w, After(q, e, w)
      PROVE  After(Tail(q), e, w)
  BY <1>1, <1>2, <1>6 DEF After
<1>7. ASSUME NEW e, In(e, q)
      PROVE  ~After(q, e, Head(q).to)
  <2>1. PICK i \in 1..Len(q) : q[i] = e
    BY <1>7 DEF In
  <2> QED
    BY <2>1, <1>1 DEF After
<1> QED
  BY <1>1, <1>3, <1>4, <1>5, <1>6, <1>7

(* What is there when a caller that has no continuation is posted one. *)
LEMMA Appended ==
    ASSUME NEW q \in Seq(Posting), NEW x \in Posting, Distinct(q),
           \A e \in Posting : In(e, q) => e.to # x.to
    PROVE  /\ Append(q, x) \in Seq(Posting)
           /\ Distinct(Append(q, x))
           /\ \A e : In(e, Append(q, x)) <=> In(e, q) \/ e = x
           /\ \A e, w : e # x /\ After(q, e, w)
                           => After(Append(q, x), e, w)
<1> DEFINE a == Append(q, x)
<1>1. /\ Len(q) \in Nat
      /\ a \in Seq(Posting)
      /\ Len(a) = Len(q) + 1
      /\ a[Len(a)] = x
      /\ \A i \in 1..Len(q) : a[i] = q[i] /\ q[i] \in Posting
  OBVIOUS
<1> HIDE DEF a
<1>2. \A i \in 1..Len(a) : i \in 1..Len(q) \/ i = Len(a)
  BY <1>1
<1>3. \A i \in 1..Len(q) : q[i].to # x.to /\ i \in 1..Len(a) /\ i < Len(a)
  BY <1>1 DEF In
<1>4. Distinct(a)
  BY <1>1, <1>2, <1>3 DEF Distinct
<1>5. \A e : In(e, a) <=> In(e, q) \/ e = x
  BY <1>1, <1>2, <1>3 DEF In
<1>6. ASSUME NEW e, NEW w, e # x, After(q, e, w)
      PROVE  After(a, e, w)
  <2> SUFFICES ASSUME NEW i \in 1..Len(a), NEW j \in 1..Len(a),
                      a[i] = e, a[j].to = w
               PROVE  i < j
    BY DEF After
  <2>1. i \in 1..Len(q)
    BY <1>1, <1>2, <1>6
  <2> QED
    BY <2>1, <1>1, <1>2, <1>3, <1>6 DEF After
<1> QED
  BY <1>1, <1>4, <1>5, <1>6 DEF a

LEMMA Unposted ==
    ASSUME NEW q \in Seq(Posting), NEW w,
           \A e \in Posting : In(e, q) => e.to # w
    PROVE  \A e : After(q, e, w)
  BY DEF After, In

LEMMA EmptyQueue ==
    /\ <<>> \in Seq(Posting)
    /\ Distinct(<<>>)
    /\ \A e : ~In(e, <<>>)
  BY DEF Distinct, In

---------------------------------------------------------------------------
(* A run takes its turn *)

(* What a run finds when its continuation is taken from the queue, or its  *)
(* delay is over; no run that was cancelled must still clear its flags.    *)
Turn(r, tail) ==
    /\ tail \in Seq(Posting)
    /\ Distinct(tail)
    /\ \A e : In(e, tail) => In(e, queue) /\ e.to # r
    /\ \A e, w : After(queue, e, w) => After(tail, e, w)
    /\ \A s \in Runs :
          In([to |-> s, answer |-> "ok"], tail)
             /\ run[s].at = "create" /\ run[s].cancelled => ~Live(r)
    /\ awaiting[r] = None
    /\ run[r].engine = "none"
    /\ run[r].at \notin {"free", "done"}

LEMMA PostedTurn ==
    ASSUME SafetyInvariant, NEW r \in Runs, Posted(r)
    PROVE  /\ Turn(r, Rest)
           /\ [to |-> r, answer |-> Answer] \in Posting
           /\ In([to |-> r, answer |-> Answer], queue)
<1> DEFINE e == Head(queue)
<1>1. /\ queue \in Seq(Posting) /\ queue # <<>> /\ Distinct(queue)
      /\ e.to = r
  BY DEF SafetyInvariant, TypeOK, Waiting, Posted
<1>2. /\ Rest \in Seq(Posting)
      /\ Distinct(Rest)
      /\ e \in Posting
      /\ In(e, queue)
      /\ \A d : In(d, Rest) => In(d, queue) /\ d.to # r
      /\ \A d, w : After(queue, d, w) => After(Rest, d, w)
      /\ \A d : In(d, queue) => ~After(queue, d, r)
  BY <1>1, Taken DEF Rest
<1> HIDE DEF e
<1>3. awaiting[r] = None /\ run[r].engine = "none"
      /\ run[r].at \notin {"free", "done"}
  BY <1>1, <1>2 DEF SafetyInvariant, Waiting, CallerWaits, RunWaits, Callers
<1>4. ASSUME NEW s \in Runs, In([to |-> s, answer |-> "ok"], Rest),
             run[s].at = "create", run[s].cancelled
      PROVE  ~Live(r)
  BY <1>2, <1>4 DEF SafetyInvariant, ClearsFirst
<1>5. e = [to |-> r, answer |-> Answer]
  BY <1>1, <1>2 DEF Posting, Answer, e
<1> QED
  BY <1>2, <1>3, <1>4, <1>5 DEF Turn

LEMMA DelayTurn ==
    ASSUME SafetyInvariant, NEW r \in Runs, run[r].at = "delay"
    PROVE  Turn(r, queue)
<1>1. \A e : In(e, queue) => e \in Posting
  BY DEF SafetyInvariant, TypeOK, In
<1>2. \A e : In(e, queue) => e.to # r
  BY <1>1 DEF SafetyInvariant, Waiting, RunWaits
<1>3. awaiting[r] = None
  <2> SUFFICES ASSUME awaiting[r] # None PROVE FALSE
    OBVIOUS
  <2>1. awaiting[r] \in Request
    BY DEF SafetyInvariant, TypeOK, Callers
  <2> QED
    BY <2>1 DEF SafetyInvariant, Waiting, RunWaits, Request, Ops, TokenOps
<1> QED
  BY <1>2, <1>3
     DEF Turn, SafetyInvariant, TypeOK, Waiting, RunWaits, ClearsFirst

(* A run that goes on without another run starting. *)
Moved(r, x) ==
    /\ x \in RunRecord
    /\ x.cancelled = run[r].cancelled
    /\ x.paper = run[r].paper
    /\ run' = [run EXCEPT ![r] = x]
    /\ UNCHANGED <<server, active, faults, clicks, down>>

(* The screen does not speak of the paper, or as it did before. *)
ScreenQuiet ==
    \/ UNCHANGED screen
    \/ /\ screen' \in [state : ScreenStates, timed : BOOLEAN,
                       run : Runs \cup {None}]
       /\ screen'.state \notin {"completed", "error"}

(* The flags that a run may have changed with its own place. *)
FlagsFollow(r, x) ==
    /\ {current', doomed'} \subseteq Runs \cup {None}
    /\ currentConsumed' \in BOOLEAN
    /\ changing' = changing
    /\ \A s \in Runs \ {r} :
          /\ current' = s => current = s
                             /\ (currentConsumed => currentConsumed')
          /\ Live(s) /\ run[s].consumed /\ current = s => current' = s
    /\ current' = r /\ x.consumed => currentConsumed'
    /\ ~x.cancelled /\ x.consumed => current' = r /\ ~changing

(* The call of a run that may still consume, or has said what it will do. *)
CallFits(r, op, x) ==
    /\ run[r].at = "cancel" => op = "cancel"
    /\ op = "consume" => run[r].at = "status" /\ x.consumed
    /\ op = "status" => ~x.consumed
    /\ op = "cancel" => ~x.consumed
    /\ op = "completed" => x.paper
    /\ op \in Unprinted => ~x.paper
    /\ op \in {"failed", "cancel"} /\ x.then = "error" => ~x.paper
    /\ run[r].consumed => x.consumed

LEMMA AskTypes ==
    ASSUME SafetyInvariant, NEW r \in Runs, NEW op \in Ops, NEW tail,
           Turn(r, tail), Ask(r, op, r, tail)
    PROVE  /\ queue' \in Seq(Posting)
           /\ Distinct(queue')
           /\ \A e : In(e, queue') => In(e, tail)
                         \/ e = [to |-> r, answer |-> "aborted"]
           /\ \A e : In(e, queue') /\ e.to = r
                         => awaiting'[r] = None
           /\ \A e, w : e # [to |-> r, answer |-> "aborted"]
                           /\ After(queue, e, w) => After(queue', e, w)
           /\ requests' \in SUBSET Request
           /\ awaiting' \in [Callers -> Request \cup {None}]
           /\ \A w \in Callers \ {r} : awaiting'[w] = awaiting[w]
           /\ awaiting'[r] = None
                 \/ awaiting'[r] = [from |-> r, op |-> op, run |-> r]
           /\ \A q \in requests' :
                 \/ q \in requests
                 \/ /\ q = [from |-> r, op |-> op, run |-> r]
                    /\ run[r].cancelled => op \notin TokenOps
<1> DEFINE q == [from |-> r, op |-> op, run |-> r]
           e == [to |-> r, answer |-> "aborted"]
<1>1. q \in Request /\ e \in Posting /\ r \in Callers
  BY DEF Request, Posting, Answers, Callers
<1>2. CASE queue' = Append(tail, e) /\ UNCHANGED <<requests, awaiting>>
  <2>1. /\ Append(tail, e) \in Seq(Posting)
        /\ Distinct(Append(tail, e))
        /\ \A d : In(d, Append(tail, e)) <=> In(d, tail) \/ d = e
        /\ \A d, w : d # e /\ After(tail, d, w)
                        => After(Append(tail, e), d, w)
    BY <1>1, Appended DEF Turn
  <2>2. requests \in SUBSET Request
        /\ awaiting \in [Callers -> Request \cup {None}]
    BY DEF SafetyInvariant, TypeOK
  <2>3. /\ awaiting[r] = None
        /\ \A d, w : After(queue, d, w) => After(tail, d, w)
    BY DEF Turn
  <2> QED
    BY <1>2, <2>1, <2>2, <2>3
<1>3. CASE /\ requests' = requests \cup {q}
           /\ awaiting' = [awaiting EXCEPT ![r] = q]
           /\ queue' = tail
           /\ (run[r].cancelled => op \notin TokenOps)
  BY <1>1, <1>3 DEF Turn, SafetyInvariant, TypeOK
<1> QED
  BY <1>2, <1>3 DEF Ask, Send

LEMMA AskSafe ==
    ASSUME SafetyInvariant, OneLiveRun', NEW r \in Runs,
           NEW op \in Ops \ {"printing", "create"}, NEW x, NEW tail,
           Turn(r, tail), Moved(r, x), x.at = op, x.engine = "none",
           CallFits(r, op, x), FlagsFollow(r, x), ScreenQuiet,
           Ask(r, op, r, tail)
    PROVE  SafetyInvariant'
<1> DEFINE q == [from |-> r, op |-> op, run |-> r]
           e == [to |-> r, answer |-> "aborted"]
<1>1. /\ queue' \in Seq(Posting)
      /\ Distinct(queue')
      /\ \A d : In(d, queue') => In(d, tail) \/ d = e
      /\ \A d : In(d, queue') /\ d.to = r => awaiting'[r] = None
      /\ \A d, w : d # e /\ After(queue, d, w) => After(queue', d, w)
      /\ requests' \in SUBSET Request
      /\ awaiting' \in [Callers -> Request \cup {None}]
      /\ \A w \in Callers \ {r} : awaiting'[w] = awaiting[w]
      /\ awaiting'[r] = None \/ awaiting'[r] = q
      /\ \A p \in requests' :
            p \in requests \/ (p = q /\ (run[r].cancelled => op \notin TokenOps))
  BY AskTypes
<1>2. /\ \A s \in Runs \ {r} : run'[s] = run[s]
      /\ run'[r] = x
      /\ run' \in [Runs -> RunRecord]
  BY DEF Moved, SafetyInvariant, TypeOK
<1>3. TypeOK'
  BY <1>1, <1>2
     DEF TypeOK, SafetyInvariant, Moved, FlagsFollow, ScreenQuiet
<1>4. Waiting'
  <2>1. \A w \in Callers : CallerWaits(w)'
    BY <1>1 DEF SafetyInvariant, Waiting, CallerWaits, Turn
  <2>2. \A s \in Runs \ {r} : RunWaits(s)'
    BY <1>1, <1>2 DEF SafetyInvariant, Waiting, RunWaits, Callers, Turn
  <2>3. RunWaits(r)'
    BY <1>1, <1>2 DEF RunWaits, Ops, TokenOps, Turn
  <2> QED
    BY <1>1, <2>1, <2>2, <2>3 DEF Waiting
<1>5. ASSUME NEW s \in Runs PROVE PaperTold(s)'
  <2>1. CASE s # r
    BY <2>1, <1>1, <1>2
       DEF SafetyInvariant, PaperTold, Moved, Callers, Turn
  <2>2. CASE s = r
    <3>1. \A d : In(d, queue') /\ d.to = r => d.answer = "aborted"
      BY <1>1 DEF Turn
    <3>2. PaperTold(r) /\ awaiting[r] = None /\ r \in Callers
      BY DEF SafetyInvariant, Turn, Callers
    <3>3. /\ server' = server /\ down' = down /\ x.paper = run[r].paper
      BY DEF Moved
    <3>4. \A p \in requests' : p.run = r /\ p.op = "completed" => x.paper
      BY <1>1, <3>2, <3>3 DEF PaperTold, CallFits
    <3>5. \A p \in requests' : ~down /\ p.run = r => p.op # "create"
      BY <1>1, <3>2, RequestAssumption
         DEF PaperTold, SafetyInvariant, TypeOK
    <3> QED
      BY <2>2, <1>2, <3>1, <3>2, <3>3, <3>4, <3>5
         DEF PaperTold, CallFits, Unprinted
  <2> QED
    BY <2>1, <2>2
<1>6. ASSUME NEW s \in Runs PROVE CancelSpares(s)'
  <2>1. CASE s # r
    BY <2>1, <1>1, <1>2 DEF SafetyInvariant, CancelSpares, Unread, Moved
  <2>2. CASE s = r
    <3>1. /\ CancelSpares(r) /\ server' = server
          /\ run[r].at \notin {"free", "done"}
      BY DEF SafetyInvariant, Turn, Moved
    <3>2. op = "consume" /\ q \in requests' =>
             \/ q \in requests
             \/ \A p \in requests' : p.run = r => p.op # "cancel"
      BY <1>1, <3>1 DEF CancelSpares, CallFits, TokenOps
    <3>3. ASSUME NEW p \in requests', p.run = r, p.op = "cancel"
          PROVE  (x.cancelled \/ x.at \in {"cancel", "done", "free"})
                    /\ Unread(r)'
      <4>1. Unread(r) /\ (x.cancelled \/ op = "cancel")
        BY <1>1, <3>1, <3>3 DEF CancelSpares, CallFits, Moved
      <4> QED
        BY <1>1, <3>1, <3>2, <3>3, <4>1 DEF Unread
    <3>4. ASSUME ~x.consumed
          PROVE  Unread(r)'
      BY <1>1, <3>1, <3>4 DEF CancelSpares, CallFits, Unread
    <3>5. x.at \in {"create", "delay", "status", "cancel"} => ~x.consumed
      BY DEF CallFits, Ops, TokenOps
    <3> QED
      BY <2>2, <1>2, <3>3, <3>4, <3>5 DEF CancelSpares
  <2> QED
    BY <2>1, <2>2
<1>7. ASSUME NEW s \in Runs PROVE FlagsTell(s)'
  BY <1>2 DEF SafetyInvariant, FlagsTell, FlagsFollow, Live, Moved, Ops,
              TokenOps
<1>8. ASSUME NEW s \in Runs PROVE ClearsFirst(s)'
  BY <1>1, <1>2 DEF SafetyInvariant, ClearsFirst, Moved, Live, Turn
<1>9. ScreenTells'
  BY <1>2 DEF SafetyInvariant, ScreenTells, ScreenQuiet, Moved, Turn
<1> QED
  BY <1>3, <1>4, <1>5, <1>6, <1>7, <1>8, <1>9 DEF SafetyInvariant

(* A run that goes on without a request: to its delay or to the engine. *)
LEMMA StaySafe ==
    ASSUME SafetyInvariant, OneLiveRun', NEW r \in Runs, NEW x, NEW tail,
           Turn(r, tail), Moved(r, x), Quiet(tail),
           \/ x.at = "delay" /\ x.engine = "none" /\ ~x.consumed
           \/ x.at = "engine" /\ x.engine = "rendering",
           run[r].consumed => x.consumed, run[r].at # "cancel",
           ~x.paper, FlagsFollow(r, x), ScreenQuiet
    PROVE  SafetyInvariant'
<1>1. /\ queue' = tail
      /\ tail \in Seq(Posting)
      /\ Distinct(tail)
      /\ \A e : In(e, tail) => In(e, queue) /\ e.to # r
      /\ UNCHANGED <<requests, awaiting>>
      /\ awaiting[r] = None
  BY DEF Turn, Quiet
<1>2. /\ \A s \in Runs \ {r} : run'[s] = run[s]
      /\ run'[r] = x
      /\ run' \in [Runs -> RunRecord]
  BY DEF Moved, SafetyInvariant, TypeOK
<1>3. TypeOK'
  BY <1>1, <1>2
     DEF TypeOK, SafetyInvariant, Moved, FlagsFollow, ScreenQuiet
<1>4. Waiting'
  <2>1. \A w \in Callers : CallerWaits(w)'
    BY <1>1 DEF SafetyInvariant, Waiting, CallerWaits
  <2>2. \A s \in Runs \ {r} : RunWaits(s)'
    BY <1>1, <1>2 DEF SafetyInvariant, Waiting, RunWaits
  <2>3. RunWaits(r)'
    BY <1>1, <1>2 DEF RunWaits
  <2> QED
    BY <1>1, <2>1, <2>2, <2>3 DEF Waiting
<1>5. ASSUME NEW s \in Runs PROVE PaperTold(s)'
  <2>1. CASE s # r
    BY <2>1, <1>1, <1>2 DEF SafetyInvariant, PaperTold, Moved
  <2>2. CASE s = r
    BY <2>2, <1>1, <1>2 DEF SafetyInvariant, PaperTold, Moved
  <2> QED
    BY <2>1, <2>2
<1>6. ASSUME NEW s \in Runs PROVE CancelSpares(s)'
  <2>1. CASE s # r
    BY <2>1, <1>1, <1>2 DEF SafetyInvariant, CancelSpares, Unread, Moved
  <2>2. CASE s = r
    BY <2>2, <1>1, <1>2
       DEF SafetyInvariant, CancelSpares, Unread, Moved, Turn
  <2> QED
    BY <2>1, <2>2
<1>7. ASSUME NEW s \in Runs PROVE FlagsTell(s)'
  BY <1>2 DEF SafetyInvariant, FlagsTell, FlagsFollow, Live, Moved
<1>8. ASSUME NEW s \in Runs PROVE ClearsFirst(s)'
  BY <1>1, <1>2 DEF SafetyInvariant, ClearsFirst, Moved, Live, Turn
<1>9. ScreenTells'
  BY <1>2 DEF SafetyInvariant, ScreenTells, ScreenQuiet, Moved, Turn
<1> QED
  BY <1>3, <1>4, <1>5, <1>6, <1>7, <1>8, <1>9 DEF SafetyInvariant

(* The last screen of a run tells what is known of its paper. *)
ScreenEnds(r) ==
    \/ ScreenQuiet
    \/ /\ screen' \in [state : ScreenStates, timed : BOOLEAN,
                       run : Runs \cup {None}]
       /\ screen'.run = r
       /\ screen'.state = "completed" => run[r].paper
       /\ screen'.state = "error" => ~run[r].paper

(* The flags that a run has changed when it ends. *)
FlagsEnd(r) ==
    /\ {current', doomed'} \subseteq Runs \cup {None}
    /\ currentConsumed' \in BOOLEAN
    /\ changing' = changing
    /\ current' # r
    /\ \A s \in Runs \ {r} :
          /\ current' = s => current = s
                             /\ (currentConsumed => currentConsumed')
          /\ Live(s) /\ run[s].consumed => current' = s

LEMMA ClearEnds ==
    ASSUME SafetyInvariant, NEW r \in Runs, Clear(r)
    PROVE  FlagsEnd(r)
  BY NoneAssumption
     DEF SafetyInvariant, TypeOK, FlagsTell, Clear, FlagsEnd

LEMMA EndSafe ==
    ASSUME SafetyInvariant, OneLiveRun', NEW r \in Runs, NEW tail,
           Turn(r, tail), run' = Ended(r), Quiet(tail),
           UNCHANGED <<server, active, faults, clicks, down>>,
           FlagsEnd(r), ScreenEnds(r)
    PROVE  SafetyInvariant'
<1> DEFINE x == [Idle EXCEPT !.at = "done", !.paper = run[r].paper]
<1>1. /\ queue' = tail
      /\ tail \in Seq(Posting)
      /\ Distinct(tail)
      /\ \A e : In(e, tail) => In(e, queue) /\ e.to # r
      /\ UNCHANGED <<requests, awaiting>>
      /\ awaiting[r] = None
  BY DEF Turn, Quiet
<1>2. /\ x \in RunRecord /\ x.at = "done" /\ x.paper = run[r].paper
      /\ x.engine = "none" /\ x.then = "none"
  BY DEF SafetyInvariant, TypeOK, Idle, RunRecord
<1>3. /\ \A s \in Runs \ {r} : run'[s] = run[s]
      /\ run'[r] = x
      /\ run' \in [Runs -> RunRecord]
  BY <1>2 DEF SafetyInvariant, TypeOK, Ended
<1> HIDE DEF x
<1>4. TypeOK'
  BY <1>1, <1>3 DEF TypeOK, SafetyInvariant, FlagsEnd, ScreenEnds, ScreenQuiet
<1>5. Waiting'
  <2>1. \A w \in Callers : CallerWaits(w)'
    BY <1>1 DEF SafetyInvariant, Waiting, CallerWaits
  <2>2. \A s \in Runs \ {r} : RunWaits(s)'
    BY <1>1, <1>3 DEF SafetyInvariant, Waiting, RunWaits
  <2>3. RunWaits(r)'
    BY <1>1, <1>2, <1>3 DEF RunWaits
  <2> QED
    BY <1>1, <2>1, <2>2, <2>3 DEF Waiting
<1>6. ASSUME NEW s \in Runs PROVE PaperTold(s)'
  <2>1. CASE s # r
    BY <2>1, <1>1, <1>3 DEF SafetyInvariant, PaperTold
  <2>2. CASE s = r
    BY <2>2, <1>1, <1>2, <1>3 DEF SafetyInvariant, PaperTold, Unprinted
  <2> QED
    BY <2>1, <2>2
<1>7. ASSUME NEW s \in Runs PROVE CancelSpares(s)'
  BY <1>1, <1>2, <1>3 DEF SafetyInvariant, CancelSpares, Unread
<1>8. ASSUME NEW s \in Runs PROVE FlagsTell(s)'
  BY <1>2, <1>3 DEF SafetyInvariant, FlagsTell, FlagsEnd, Live
<1>9. ASSUME NEW s \in Runs PROVE ClearsFirst(s)'
  BY <1>1, <1>2, <1>3 DEF SafetyInvariant, ClearsFirst, Live, Turn
<1>10. ScreenTells'
  BY <1>2, <1>3
     DEF SafetyInvariant, ScreenTells, ScreenEnds, ScreenQuiet, Turn
<1> QED
  BY <1>4, <1>5, <1>6, <1>7, <1>8, <1>9, <1>10 DEF SafetyInvariant

---------------------------------------------------------------------------
(* A run starts *)

(* What the caller of FreshSession has changed in the same step: it may    *)
(* have cancelled runs, and may itself be a run that has ended.            *)
Before(before, tail) ==
    /\ before \in [Runs -> RunRecord]
    /\ tail \in Seq(Posting)
    /\ Distinct(tail)
    /\ \A e : In(e, tail) => In(e, queue)
    /\ \A s \in Runs :
          /\ before[s].paper = run[s].paper
          /\ \/ /\ before[s].at = run[s].at
                /\ before[s].then = run[s].then
                /\ before[s].consumed = run[s].consumed
                /\ before[s].engine = run[s].engine
                /\ run[s].cancelled => before[s].cancelled
             \/ /\ before[s].at = "done"
                /\ before[s].engine = "none"
                /\ awaiting[s] = None
                /\ \A e : In(e, tail) => e.to # s
                /\ current' # s

(* CancelActive touches nothing but the token. *)
LEMMA CancelLeaves ==
    ASSUME NEW before \in [Runs -> RunRecord], NEW s \in Runs
    PROVE  LET x == CancelActive(before)[s]
           IN  /\ x \in RunRecord
               /\ x.at = before[s].at
               /\ x.then = before[s].then
               /\ x.consumed = before[s].consumed
               /\ x.engine = before[s].engine
               /\ x.paper = before[s].paper
               /\ x.cancelled = (before[s].cancelled \/ s = active)
<1> DEFINE x == [before[s] EXCEPT !.cancelled = @ \/ s = active]
<1>1. /\ x \in RunRecord
      /\ x.at = before[s].at
      /\ x.then = before[s].then
      /\ x.consumed = before[s].consumed
      /\ x.engine = before[s].engine
      /\ x.paper = before[s].paper
      /\ x.cancelled = (before[s].cancelled \/ s = active)
  BY DEF RunRecord
<1>2. CancelActive(before)[s] = x
  BY DEF CancelActive
<1> QED
  BY <1>1, <1>2

LEMMA FreshSafe ==
    ASSUME SafetyInvariant, OneLiveRun', NEW before, NEW tail,
           FreshSession(before, tail), Before(before, tail),
           {current', doomed'} \subseteq Runs \cup {None},
           currentConsumed' \in BOOLEAN, changing' \in BOOLEAN,
           faults' \in Nat, clicks' \in Nat, down' = down,
           \A s \in Runs : current' = s =>
              current = s /\ (currentConsumed => currentConsumed')
    PROVE  SafetyInvariant'
<1> DEFINE others == CancelActive(before)
<1>1. PICK new \in Runs :
         /\ Vacant(before, new)
         /\ run' = [others EXCEPT ![new] = Started]
         /\ active' = new
         /\ server' = [server EXCEPT ![new] = "none"]
         /\ Send(new, [from |-> new, op |-> "create", run |-> new],
                 {q \in requests : q.run # new})
         /\ queue' = tail
         /\ Show("preparing", FALSE, new)
  BY DEF FreshSession
<1> DEFINE q == [from |-> new, op |-> "create", run |-> new]
<1>2. q \in Request /\ new \in Callers
  BY DEF Request, Callers, Ops, TokenOps
<1>3. ASSUME NEW s \in Runs
      PROVE  /\ others[s].at = before[s].at
             /\ others[s].then = before[s].then
             /\ others[s].consumed = before[s].consumed
             /\ others[s].engine = before[s].engine
             /\ others[s].paper = before[s].paper
             /\ before[s].cancelled => others[s].cancelled
             /\ others[s] \in RunRecord
  <2>1. before \in [Runs -> RunRecord]
    BY DEF Before
  <2> QED
    BY <2>1, CancelLeaves
<1>4. /\ others \in [Runs -> RunRecord]
      /\ \A s \in Runs \ {new} : run'[s] = others[s]
      /\ run'[new] = Started
      /\ run' \in [Runs -> RunRecord]
  BY <1>1, <1>3, StartedType DEF CancelActive
<1> HIDE DEF others
<1>5. /\ queue' = tail
      /\ tail \in Seq(Posting)
      /\ Distinct(tail)
      /\ \A e : In(e, tail) => In(e, queue)
  BY <1>1 DEF Before
<1>6. /\ requests' = {p \in requests : p.run # new} \cup {q}
      /\ awaiting' = [awaiting EXCEPT ![new] = q]
      /\ awaiting' \in [Callers -> Request \cup {None}]
      /\ awaiting'[new] = q
      /\ \A w \in Callers \ {new} : awaiting'[w] = awaiting[w]
  BY <1>1, <1>2 DEF Send, SafetyInvariant, TypeOK
<1>7. \A e \in Posting : In(e, tail) => e.to # new
  BY <1>1, <1>5 DEF Vacant, Before, SafetyInvariant, Waiting, RunWaits
<1>8. \A s \in Runs \ {new} : ~Live(s)'
  BY <1>1, NoneAssumption DEF OneLiveRun
<1>9. /\ Started.at = "create" /\ Started.then = "none"
      /\ Started.engine = "none" /\ ~Started.paper
      /\ ~Started.consumed /\ ~Started.cancelled
  BY DEF Started, Idle
<1>10. TypeOK'
  BY <1>1, <1>2, <1>4, <1>5, <1>6
     DEF TypeOK, SafetyInvariant, Show, ServerStates, ScreenStates
<1>11. Waiting'
  <2>1. ASSUME NEW w \in Callers PROVE CallerWaits(w)'
    <3>1. CASE w = new
      BY <3>1, <1>5, <1>6, <1>7 DEF CallerWaits
    <3>2. CASE w # new
      BY <3>2, <1>5, <1>6 DEF SafetyInvariant, Waiting, CallerWaits
    <3> QED
      BY <3>1, <3>2
  <2>2. ASSUME NEW s \in Runs \ {new} PROVE RunWaits(s)'
    BY <1>3, <1>4, <1>5, <1>6
       DEF SafetyInvariant, Waiting, RunWaits, Before, Callers
  <2>3. RunWaits(new)'
    BY <1>4, <1>5, <1>6, <1>7, <1>9 DEF RunWaits
  <2> QED
    BY <1>5, <2>1, <2>2, <2>3 DEF Waiting
<1>12. ASSUME NEW s \in Runs PROVE PaperTold(s)'
  <2>1. CASE s # new
    <3>1. server'[s] = server[s] /\ awaiting'[s] = awaiting[s]
      BY <1>1, <1>6, <2>1 DEF SafetyInvariant, TypeOK, Callers
    <3> QED
      BY <2>1, <3>1, <1>3, <1>4, <1>5, <1>6
         DEF SafetyInvariant, PaperTold, Before, Unprinted
  <2>2. CASE s = new
    <3>1. server'[new] = "none"
      BY <1>1 DEF SafetyInvariant, TypeOK
    <3> QED
      BY <2>2, <3>1, <1>4, <1>5, <1>6, <1>7, <1>9 DEF PaperTold
  <2> QED
    BY <2>1, <2>2
<1>13. ASSUME NEW s \in Runs PROVE CancelSpares(s)'
  <2>1. CASE s # new
    <3>1. server'[s] = server[s]
      BY <1>1, <2>1 DEF SafetyInvariant, TypeOK
    <3> QED
      BY <2>1, <3>1, <1>3, <1>4, <1>6
         DEF SafetyInvariant, CancelSpares, Unread, Before
  <2>2. CASE s = new
    <3>1. server'[new] = "none"
      BY <1>1 DEF SafetyInvariant, TypeOK
    <3> QED
      BY <2>2, <3>1, <1>4, <1>6, <1>9
         DEF CancelSpares, Unread, Processing
  <2> QED
    BY <2>1, <2>2
<1>14. ASSUME NEW s \in Runs PROVE FlagsTell(s)'
  <2>1. current' # new
    BY <1>1 DEF SafetyInvariant, FlagsTell, Vacant, Before
  <2> QED
    BY <2>1, <1>3, <1>4, <1>8, <1>9
       DEF SafetyInvariant, FlagsTell, Before, Live
<1>15. ASSUME NEW s \in Runs PROVE ClearsFirst(s)'
  <2>1. \A e : After(queue', e, new)
    BY <1>5, <1>7, Unposted
  <2> QED
    BY <2>1, <1>4, <1>8, <1>9 DEF ClearsFirst
<1>16. ScreenTells'
  BY <1>1 DEF ScreenTells, Show
<1> QED
  BY <1>10, <1>11, <1>12, <1>13, <1>14, <1>15, <1>16 DEF SafetyInvariant

---------------------------------------------------------------------------
(* The code of a run *)

(* A step that changes the place of a run, and no other field. *)
LEMMA PlaceLeaves ==
    ASSUME NEW z \in RunRecord, NEW at \in Places
    PROVE  LET x == [z EXCEPT !.at = at]
           IN  /\ x \in RunRecord /\ x.at = at
               /\ x.then = z.then /\ x.consumed = z.consumed
               /\ x.cancelled = z.cancelled /\ x.engine = z.engine
               /\ x.paper = z.paper
  BY DEF RunRecord, Places

(* A run that leaves the flags alone. *)
LEMMA FlagsLeft ==
    ASSUME SafetyInvariant, NEW r \in Runs, NEW x, UNCHANGED fields,
           run[r].at \notin {"free", "done"},
           x.cancelled = run[r].cancelled, x.consumed = run[r].consumed
    PROVE  FlagsFollow(r, x)
  BY DEF SafetyInvariant, TypeOK, FlagsTell, FlagsFollow, Live, fields

LEMMA GoOnSafe ==
    ASSUME SafetyInvariant, OneLiveRun', NEW r \in Runs, NEW tail,
           NEW op \in {"status", "download", "validating", "completed"},
           Turn(r, tail), GoOn(r, op, tail), ScreenQuiet, UNCHANGED limits,
           run[r].at # "cancel", op = "status" => ~run[r].consumed,
           op = "completed" <=> run[r].paper
    PROVE  SafetyInvariant'
<1> DEFINE x == [run[r] EXCEPT !.at = op]
<1>1. run[r] \in RunRecord /\ op \in Places
      /\ op \in Ops \ {"printing", "create"}
  BY DEF SafetyInvariant, TypeOK, Places, Ops, TokenOps
<1>2. /\ x \in RunRecord /\ x.at = op
      /\ x.then = run[r].then /\ x.consumed = run[r].consumed
      /\ x.cancelled = run[r].cancelled /\ x.engine = run[r].engine
      /\ x.paper = run[r].paper
  BY <1>1, PlaceLeaves
<1>3. run' = [run EXCEPT ![r] = x]
  BY DEF GoOn
<1> HIDE DEF x
<1>4. Moved(r, x)
  BY <1>2, <1>3 DEF Moved, GoOn, fields, limits
<1>5. CallFits(r, op, x)
  BY <1>2 DEF CallFits, Unprinted
<1>6. FlagsFollow(r, x)
  BY <1>2, FlagsLeft DEF GoOn, Turn
<1> QED
  BY <1>1, <1>2, <1>4, <1>5, <1>6, AskSafe DEF GoOn, Turn

(* The last call of a run. *)
LEMMA FinishSafe ==
    ASSUME SafetyInvariant, OneLiveRun', NEW r \in Runs, NEW tail,
           NEW op \in {"failed", "cancel"}, NEW then \in Endings,
           Turn(r, tail), run[r].at = "cancel" => op = "cancel",
           TurnsTo(r, op, then),
           Ask(r, op, r, tail), UNCHANGED <<server, fields, limits>>,
           ScreenQuiet,
           op = "cancel" => ~run[r].consumed,
           then = "error" => ~run[r].paper
    PROVE  SafetyInvariant'
<1>1. RunsTyped /\ op \in Ops \ {"printing", "create"}
  BY DEF SafetyInvariant, TypeOK, RunsTyped, Ops, TokenOps
<1>2. PICK x \in RunRecord :
         /\ run' = [run EXCEPT ![r] = x]
         /\ x.at = op /\ x.then = then
         /\ x.consumed = run[r].consumed
         /\ x.cancelled = run[r].cancelled
         /\ x.engine = run[r].engine /\ x.paper = run[r].paper
  BY <1>1, TurnLeaves
<1>4. Moved(r, x)
  BY <1>2 DEF Moved, fields, limits
<1>5. CallFits(r, op, x)
  BY <1>2 DEF CallFits, Unprinted
<1>6. FlagsFollow(r, x)
  BY <1>2, FlagsLeft DEF Turn
<1> QED
  BY <1>1, <1>2, <1>4, <1>5, <1>6, AskSafe DEF Turn

LEMMA EndsSafe ==
    ASSUME SafetyInvariant, OneLiveRun', NEW r \in Runs, NEW tail,
           Turn(r, tail), End(r, tail), ScreenEnds(r), UNCHANGED limits
    PROVE  SafetyInvariant'
  BY EndSafe, ClearEnds DEF End, limits

LEMMA ThrowSafe ==
    ASSUME SafetyInvariant, OneLiveRun', NEW r \in Runs, NEW tail,
           Turn(r, tail), Throw(r, tail), UNCHANGED limits
    PROVE  SafetyInvariant'
<1>1. ScreenQuiet /\ UNCHANGED <<server, fields, limits>>
  BY DEF Throw, Finish, ScreenQuiet
<1>2. CASE run[r].consumed
  <2>1. run[r].at # "cancel"
    BY <1>2 DEF SafetyInvariant, CancelSpares
  <2> QED
    BY <1>1, <1>2, <2>1, FinishSafe DEF Throw, Finish, TurnsTo, Endings
<1>3. CASE ~run[r].consumed
  BY <1>1, <1>3, FinishSafe DEF Throw, Finish, TurnsTo, Endings
<1> QED
  BY <1>2, <1>3

LEMMA AbandonSafe ==
    ASSUME SafetyInvariant, OneLiveRun', NEW r \in Runs, NEW tail,
           Turn(r, tail), run[r].at # "cancel", Abandon(r, tail),
           UNCHANGED limits
    PROVE  SafetyInvariant'
<1>1. ScreenQuiet /\ ScreenEnds(r)
  BY DEF Abandon, Finish, ScreenQuiet, ScreenEnds
<1>2. CASE run[r].consumed \/ doomed = r
  BY <1>1, <1>2, EndsSafe DEF Abandon
<1>3. CASE ~(run[r].consumed \/ doomed = r)
  BY <1>1, <1>3, FinishSafe DEF Abandon, Finish, TurnsTo, Endings
<1> QED
  BY <1>2, <1>3

LEMMA ScreenStays == UNCHANGED screen => ScreenQuiet
  BY DEF ScreenQuiet

LEMMA ShowQuiet ==
    ASSUME SafetyInvariant, NEW r \in Runs,
           NEW state \in ScreenStates \ {"completed", "error"},
           NEW timed \in BOOLEAN, Show(state, timed, r)
    PROVE  ScreenQuiet
  BY DEF Show, ScreenQuiet

LEMMA CreatedSafe ==
    ASSUME SafetyInvariant, OneLiveRun', NEW r \in Runs, Created(r),
           UNCHANGED limits
    PROVE  SafetyInvariant'
<1>1. /\ Turn(r, Rest) /\ run[r].at = "create"
      /\ In([to |-> r, answer |-> Answer], queue)
  BY PostedTurn DEF Created
<1>2. CASE Answer # "ok"
  <2>1. End(r, Rest) /\ UNCHANGED limits
    BY <1>2 DEF Created
  <2>2. ScreenEnds(r)
    <3>1. UNCHANGED screen \/ Show("suspended", FALSE, r)
      BY <1>2 DEF Created, ShowThen
    <3> QED
      BY <3>1, ShowQuiet, ScreenStays DEF ScreenEnds, ScreenStates
  <2> QED
    BY <1>1, <2>1, <2>2, EndsSafe
<1>3. CASE Answer = "ok" /\ run[r].cancelled
  <2>1. /\ run' = Ended(r) /\ current' = None /\ Quiet(Rest)
        /\ doomed' = (IF doomed = r THEN None ELSE doomed)
        /\ currentConsumed' = FALSE
        /\ UNCHANGED <<server, active, changing>>
        /\ ShowWaiting(r)
    BY <1>3 DEF Created, Failed
  <2>2. \A s \in Runs : Live(s) => ~run[s].consumed
    BY <1>1, <1>3 DEF SafetyInvariant, ClearsFirst, CancelSpares
  <2>3. FlagsEnd(r)
    BY <2>1, <2>2, NoneAssumption DEF FlagsEnd, SafetyInvariant, TypeOK
  <2>4. ScreenEnds(r)
    BY <2>1 DEF ShowWaiting, Show, ScreenEnds, ScreenQuiet, ScreenStates
  <2> QED
    BY <1>1, <2>1, <2>3, <2>4, EndSafe DEF limits
<1>4. CASE Answer = "ok" /\ ~run[r].cancelled
  <2> DEFINE x == [run[r] EXCEPT !.at = "delay"]
  <2>1. /\ run' = [run EXCEPT ![r] = x]
        /\ current' = r /\ Quiet(Rest) /\ currentConsumed' = FALSE
        /\ UNCHANGED <<server, active, changing, doomed>>
        /\ ShowWaiting(r)
    BY <1>4 DEF Created, Failed
  <2>2. run[r] \in RunRecord /\ "delay" \in Places
    BY DEF SafetyInvariant, TypeOK, Places
  <2>3. /\ x \in RunRecord /\ x.at = "delay"
        /\ x.then = run[r].then /\ x.consumed = run[r].consumed
        /\ x.cancelled = run[r].cancelled /\ x.engine = run[r].engine
        /\ x.paper = run[r].paper
    BY <2>2, PlaceLeaves
  <2> HIDE DEF x
  <2>4. ~run[r].consumed /\ ~run[r].paper /\ run[r].engine = "none"
    BY <1>1 DEF SafetyInvariant, CancelSpares, PaperTold, Turn, Unprinted
  <2>5. \A s \in Runs \ {r} : ~Live(s)
    BY <1>1, <1>4 DEF SafetyInvariant, OneLiveRun, Live
  <2>6. FlagsFollow(r, x)
    BY <2>1, <2>3, <2>4, <2>5 DEF FlagsFollow, SafetyInvariant, TypeOK
  <2>7. ScreenQuiet
    BY <2>1, ShowQuiet DEF ShowWaiting, ScreenStates
  <2>8. Moved(r, x)
    BY <2>1, <2>3 DEF Moved, limits
  <2> QED
    BY <1>1, <2>1, <2>3, <2>4, <2>6, <2>7, <2>8, StaySafe
<1> QED
  BY <1>2, <1>3, <1>4

LEMMA PollSafe ==
    ASSUME SafetyInvariant, OneLiveRun', NEW r \in Runs, Poll(r),
           UNCHANGED limits
    PROVE  SafetyInvariant'
<1>1. Turn(r, queue) /\ run[r].at = "delay"
  BY DelayTurn DEF Poll
<1>2. ~run[r].consumed /\ ~run[r].paper
  BY <1>1 DEF SafetyInvariant, CancelSpares, PaperTold, Unprinted
<1>3. CASE run[r].cancelled
  BY <1>1, <1>3, AbandonSafe DEF Poll
<1>4. CASE ~run[r].cancelled
  BY <1>1, <1>2, <1>4, GoOnSafe, ScreenStays DEF Poll
<1> QED
  BY <1>3, <1>4

(* The run ends, and another takes its place. *)
LEMMA GiveUpSafe ==
    ASSUME SafetyInvariant, OneLiveRun', NEW r \in Runs, GiveUp(r),
           UNCHANGED limits
    PROVE  SafetyInvariant'
<1>1. Turn(r, Rest) /\ FreshSession(Ended(r), Rest) /\ FlagsEnd(r)
  BY PostedTurn, ClearEnds DEF GiveUp
<1>2. LET x == [Idle EXCEPT !.at = "done", !.paper = run[r].paper]
      IN  /\ x \in RunRecord /\ x.at = "done" /\ x.paper = run[r].paper
          /\ x.engine = "none"
  BY DEF SafetyInvariant, TypeOK, Idle, RunRecord
<1>3. Before(Ended(r), Rest)
  <2>1. /\ Ended(r) \in [Runs -> RunRecord]
        /\ Ended(r)[r].at = "done" /\ Ended(r)[r].paper = run[r].paper
        /\ Ended(r)[r].engine = "none"
        /\ \A s \in Runs \ {r} : Ended(r)[s] = run[s]
    BY <1>2 DEF Ended, SafetyInvariant, TypeOK
  <2> QED
    BY <1>1, <2>1 DEF Before, Turn, FlagsEnd
<1>4. \A s \in Runs : current' = s =>
          current = s /\ (currentConsumed => currentConsumed')
  BY <1>1 DEF FlagsEnd
<1>5. /\ {current', doomed'} \subseteq Runs \cup {None}
      /\ currentConsumed' \in BOOLEAN /\ changing' \in BOOLEAN
      /\ faults' \in Nat /\ clicks' \in Nat /\ down' = down
  BY <1>1 DEF FlagsEnd, SafetyInvariant, TypeOK, limits
<1> QED
  BY <1>1, <1>3, <1>4, <1>5, FreshSafe

LEMMA ProgressSafe ==
    ASSUME SafetyInvariant, OneLiveRun', NEW r \in Runs, Progress(r),
           UNCHANGED limits
    PROVE  SafetyInvariant'
<1>1. Turn(r, Rest) /\ run[r].at = "status"
  BY PostedTurn DEF Progress
<1>2. ScreenQuiet
  BY DEF Progress, ShowClaimed, ShowUploading, Show, ScreenQuiet,
         SafetyInvariant, TypeOK, ScreenStates
<1>3. CASE run[r].cancelled
  BY <1>1, <1>2, <1>3, EndsSafe DEF Progress, ScreenEnds
<1>4. CASE ~run[r].cancelled
  <2> DEFINE x == [run[r] EXCEPT !.at = "delay"]
  <2>1. /\ run' = [run EXCEPT ![r] = x] /\ Quiet(Rest)
        /\ UNCHANGED <<server, fields>>
    BY <1>4 DEF Progress
  <2>2. run[r] \in RunRecord /\ "delay" \in Places
    BY DEF SafetyInvariant, TypeOK, Places
  <2>3. /\ x \in RunRecord /\ x.at = "delay"
        /\ x.then = run[r].then /\ x.consumed = run[r].consumed
        /\ x.cancelled = run[r].cancelled /\ x.engine = run[r].engine
        /\ x.paper = run[r].paper
    BY <2>2, PlaceLeaves
  <2> HIDE DEF x
  <2>4. ~run[r].consumed /\ ~run[r].paper /\ run[r].engine = "none"
    BY <1>1 DEF SafetyInvariant, CancelSpares, PaperTold, Turn, Unprinted
  <2>5. FlagsFollow(r, x)
    BY <1>1, <2>1, <2>3, FlagsLeft
  <2>6. Moved(r, x)
    BY <2>1, <2>3 DEF Moved, limits, fields
  <2> QED
    BY <1>1, <1>2, <2>1, <2>3, <2>4, <2>5, <2>6, StaySafe
<1> QED
  BY <1>3, <1>4

LEMMA ConsumeSafe ==
    ASSUME SafetyInvariant, OneLiveRun', NEW r \in Runs, Consume(r),
           UNCHANGED limits
    PROVE  SafetyInvariant'
<1>1. Turn(r, Rest) /\ run[r].at = "status"
  BY PostedTurn DEF Consume
<1>2. ~run[r].consumed /\ ~run[r].paper /\ run[r].engine = "none"
  BY <1>1 DEF SafetyInvariant, CancelSpares, PaperTold, Turn, Unprinted
<1>3. CASE MayConsume(r)
  <2> DEFINE x == [run[r] EXCEPT !.at = "consume", !.consumed = TRUE]
  <2>1. /\ run' = [run EXCEPT ![r].at = "consume", ![r].consumed = TRUE]
        /\ currentConsumed' = TRUE
        /\ Ask(r, "consume", r, Rest)
        /\ UNCHANGED <<server, active, current, doomed, changing, screen>>
        /\ ~changing /\ current = r
    BY <1>3 DEF Consume, MayConsume
  <2>2. /\ run[r] \in RunRecord
        /\ "consume" \in Ops \ {"printing", "create"}
    BY DEF SafetyInvariant, TypeOK, Ops, TokenOps
  <2>3. /\ x \in RunRecord /\ x.at = "consume"
        /\ x.then = run[r].then /\ x.consumed
        /\ x.cancelled = run[r].cancelled /\ x.engine = run[r].engine
        /\ x.paper = run[r].paper
    BY <2>2 DEF RunRecord
  <2>4. run' = [run EXCEPT ![r] = x]
    BY <2>1 DEF SafetyInvariant, TypeOK
  <2> HIDE DEF x
  <2>5. Moved(r, x)
    BY <2>1, <2>3, <2>4 DEF Moved, limits
  <2>6. CallFits(r, "consume", x)
    BY <1>1, <1>2, <2>3 DEF CallFits
  <2>7. FlagsFollow(r, x)
    BY <2>1, <2>3 DEF FlagsFollow, SafetyInvariant, TypeOK
  <2> QED
    BY <1>1, <1>2, <2>1, <2>2, <2>3, <2>5, <2>6, <2>7, AskSafe, ScreenStays
<1>4. CASE ~MayConsume(r)
  BY <1>1, <1>2, <1>4, FinishSafe, ScreenStays
     DEF Consume, Finish, TurnsTo, Endings, limits, fields
<1> QED
  BY <1>3, <1>4

LEMMA PollFailsSafe ==
    ASSUME SafetyInvariant, OneLiveRun', NEW r \in Runs, PollFails(r),
           UNCHANGED limits
    PROVE  SafetyInvariant'
<1>1. Turn(r, Rest) /\ run[r].at = "status"
  BY PostedTurn DEF PollFails
<1> QED
  BY <1>1, AbandonSafe, ThrowSafe DEF PollFails

LEMMA FetchSafe ==
    ASSUME SafetyInvariant, OneLiveRun', NEW r \in Runs, Fetch(r),
           UNCHANGED limits
    PROVE  SafetyInvariant'
<1>1. Turn(r, Rest) /\ run[r].at \in {"consume", "download"}
  BY PostedTurn DEF Fetch
<1>2. ~run[r].paper
  BY <1>1 DEF SafetyInvariant, PaperTold, Unprinted
<1>3. CASE Answer = "ok"
  <2>1. PICK op \in {"download", "validating"} : GoOn(r, op, Rest)
    BY <1>3 DEF Fetch, Failed
  <2>2. ScreenQuiet
    BY <1>3, ScreenStays DEF Fetch, Failed
  <2> QED
    BY <1>1, <1>2, <2>1, <2>2, GoOnSafe
<1>4. CASE Answer # "ok"
  BY <1>1, <1>4, AbandonSafe, ThrowSafe DEF Fetch
<1> QED
  BY <1>3, <1>4

LEMMA ValidateSafe ==
    ASSUME SafetyInvariant, OneLiveRun', NEW r \in Runs, Validate(r),
           UNCHANGED limits
    PROVE  SafetyInvariant'
<1>1. Turn(r, Rest) /\ run[r].at = "validating"
  BY PostedTurn DEF Validate
<1>2. ~run[r].paper
  BY <1>1 DEF SafetyInvariant, PaperTold, Unprinted
<1>3. CASE Answer = "ok"
  <2>1. ScreenQuiet /\ UNCHANGED <<server, fields, limits>>
    BY <1>3, ShowQuiet DEF Validate, ShowValidating, ScreenStates, Failed
  <2>2. CASE /\ run' = [run EXCEPT ![r].at = "engine",
                                   ![r].engine = "rendering"]
             /\ Quiet(Rest)
    <3> DEFINE x == [run[r] EXCEPT !.at = "engine", !.engine = "rendering"]
    <3>1. run[r] \in RunRecord
      BY DEF SafetyInvariant, TypeOK
    <3>2. /\ x \in RunRecord /\ x.at = "engine"
          /\ x.then = run[r].then /\ x.consumed = run[r].consumed
          /\ x.cancelled = run[r].cancelled /\ x.engine = "rendering"
          /\ x.paper = run[r].paper
      BY <3>1 DEF RunRecord
    <3>3. run' = [run EXCEPT ![r] = x]
      BY <2>2 DEF SafetyInvariant, TypeOK
    <3> HIDE DEF x
    <3>4. Moved(r, x)
      BY <2>1, <3>2, <3>3 DEF Moved, limits, fields
    <3>5. FlagsFollow(r, x)
      BY <1>1, <2>1, <3>2, FlagsLeft
    <3> QED
      BY <1>1, <1>2, <2>1, <2>2, <3>2, <3>4, <3>5, StaySafe
  <2>3. CASE /\ run' = [run EXCEPT ![r].at = "failed", ![r].then = "error"]
             /\ Ask(r, "failed", r, Rest)
    BY <1>1, <1>2, <2>1, <2>3, FinishSafe DEF TurnsTo, Endings
  <2> QED
    BY <1>3, <2>2, <2>3 DEF Validate, Failed
<1>4. CASE Answer # "ok"
  BY <1>1, <1>4, AbandonSafe, ThrowSafe DEF Validate
<1> QED
  BY <1>3, <1>4

LEMMA ReportSafe ==
    ASSUME SafetyInvariant, OneLiveRun', NEW r \in Runs, Report(r),
           UNCHANGED limits
    PROVE  SafetyInvariant'
<1>1. Turn(r, Rest) /\ run[r].at = "engine"
  BY PostedTurn DEF Report
<1>2. /\ Answer = "submitted" => run[r].paper
      /\ Answer = "badDocument" => ~run[r].paper
  BY PostedTurn DEF Report, SafetyInvariant, PaperTold
<1>3. CASE Answer = "submitted"
  BY <1>1, <1>2, <1>3, GoOnSafe, ScreenStays DEF Report
<1>4. CASE Answer = "badDocument"
  BY <1>1, <1>2, <1>4, FinishSafe, ScreenStays
     DEF Report, Finish, TurnsTo, Endings
<1>5. CASE Answer = "rejected"
  BY <1>1, <1>5, FinishSafe, ScreenStays
     DEF Report, Finish, TurnsTo, Endings
<1>6. CASE Answer \in {"broken", "aborted"}
  BY <1>1, <1>6, AbandonSafe, ThrowSafe DEF Report
<1> QED
  BY <1>3, <1>4, <1>5, <1>6 DEF Report

LEMMA CompleteSafe ==
    ASSUME SafetyInvariant, OneLiveRun', NEW r \in Runs, Complete(r),
           UNCHANGED limits
    PROVE  SafetyInvariant'
<1>1. Turn(r, Rest) /\ run[r].at = "completed" /\ run[r].paper
  BY PostedTurn DEF Complete, SafetyInvariant, PaperTold
<1>2. CASE Answer \in {"ok", "refused", "lost"}
  <2>1. End(r, Rest) /\ ShowCompleted(r)
    BY <1>2 DEF Complete
  <2>2. ScreenEnds(r)
    BY <1>1, <2>1 DEF ShowCompleted, Show, ScreenEnds, ScreenStates
  <2> QED
    BY <1>1, <2>1, <2>2, EndsSafe
<1>3. CASE Answer \notin {"ok", "refused", "lost"}
  BY <1>1, <1>3, AbandonSafe, ThrowSafe DEF Complete
<1> QED
  BY <1>2, <1>3

LEMMA FinishedSafe ==
    ASSUME SafetyInvariant, OneLiveRun', NEW r \in Runs, Finished(r),
           UNCHANGED limits
    PROVE  SafetyInvariant'
<1>1. Turn(r, Rest) /\ run[r].at \in {"failed", "cancel"}
  BY PostedTurn DEF Finished
<1>2. CASE Throw(r, Rest)
  BY <1>1, <1>2, ThrowSafe
<1>3. CASE ~Throw(r, Rest)
  <2>1. /\ run[r].then \in Endings
        /\ run[r].then = "error" => ~run[r].paper
    BY <1>1 DEF SafetyInvariant, PaperTold, TypeOK, RunRecord, Endings
  <2>2. /\ End(r, Rest)
        /\ \/ UNCHANGED screen \/ Show("suspended", FALSE, r)
           \/ (Show("error", TRUE, r) /\ ~run[r].paper)
    BY <1>3, <2>1 DEF Finished, ShowThen, Endings
  <2>3. CASE UNCHANGED screen \/ Show("suspended", FALSE, r)
    <3>1. ScreenEnds(r)
      BY <2>3, ShowQuiet, ScreenStays DEF ScreenEnds, ScreenStates
    <3> QED
      BY <1>1, <2>2, <3>1, EndsSafe
  <2>4. CASE Show("error", TRUE, r) /\ ~run[r].paper
    <3>1. ScreenEnds(r)
      BY <2>4 DEF Show, ScreenEnds, ScreenStates
    <3> QED
      BY <1>1, <2>2, <3>1, EndsSafe
  <2> QED
    BY <2>2, <2>3, <2>4
<1> QED
  BY <1>2, <1>3

LEMMA ContinueSafe ==
    ASSUME SafetyInvariant, OneLiveRun', NEW r \in Runs,
           Continue(r) \/ Poll(r), UNCHANGED limits
    PROVE  SafetyInvariant'
  BY CreatedSafe, PollSafe, GiveUpSafe, ProgressSafe, ConsumeSafe,
     PollFailsSafe, FetchSafe, ValidateSafe, ReportSafe, CompleteSafe,
     FinishedSafe
     DEF Continue

---------------------------------------------------------------------------
(* The print engine *)

(* PrintAsync returns: its result is the only continuation of the run. *)
LEMMA ResultSafe ==
    ASSUME SafetyInvariant, OneLiveRun', NEW r \in Runs,
           NEW x \in RunRecord, NEW result \in Answers,
           run[r].engine \notin {"none", "asking"},
           run' = [run EXCEPT ![r] = x],
           x.at = run[r].at, x.then = run[r].then,
           x.consumed = run[r].consumed, x.cancelled = run[r].cancelled,
           x.engine = "none",
           x.paper => run[r].engine = "spooling",
           result = "submitted" => x.paper,
           result = "badDocument" => ~x.paper,
           Result(r, result), EngineKeeps, UNCHANGED screen, faults' \in Nat
    PROVE  SafetyInvariant'
<1> DEFINE e == [to |-> r, answer |-> result]
<1>1. /\ run[r].at = "engine" /\ ~run[r].paper /\ awaiting[r] = None
      /\ \A d \in Posting : In(d, queue) => d.to # r
  BY DEF SafetyInvariant, Waiting, RunWaits, PaperTold
<1>2. /\ queue' \in Seq(Posting)
      /\ Distinct(queue')
      /\ \A d : In(d, queue') <=> In(d, queue) \/ d = e
      /\ \A d, w : d # e /\ After(queue, d, w) => After(queue', d, w)
  <2>1. e \in Posting
    BY DEF Posting, Callers
  <2> QED
    BY <1>1, <2>1, Appended DEF Result, SafetyInvariant, TypeOK, Waiting
<1>3. /\ \A s \in Runs \ {r} : run'[s] = run[s]
      /\ run'[r] = x
      /\ run' \in [Runs -> RunRecord]
  BY DEF SafetyInvariant, TypeOK
<1>4. UNCHANGED <<server, requests, awaiting, active, current,
                  currentConsumed, doomed, changing, clicks, down, screen>>
  BY DEF EngineKeeps, fields
<1>5. TypeOK'
  BY <1>2, <1>3, <1>4 DEF TypeOK, SafetyInvariant
<1>6. Waiting'
  <2>1. \A w \in Callers : CallerWaits(w)'
    BY <1>1, <1>2, <1>4 DEF SafetyInvariant, Waiting, CallerWaits
  <2>2. \A s \in Runs \ {r} : RunWaits(s)'
    BY <1>2, <1>3, <1>4 DEF SafetyInvariant, Waiting, RunWaits
  <2>3. RunWaits(r)'
    BY <1>1, <1>2, <1>3, <1>4 DEF RunWaits
  <2> QED
    BY <1>2, <2>1, <2>2, <2>3 DEF Waiting
<1>7. ASSUME NEW s \in Runs PROVE PaperTold(s)'
  <2>1. CASE s # r
    BY <2>1, <1>2, <1>3, <1>4 DEF SafetyInvariant, PaperTold
  <2>2. CASE s = r
    BY <2>2, <1>1, <1>2, <1>3, <1>4
       DEF SafetyInvariant, PaperTold, Unprinted
  <2> QED
    BY <2>1, <2>2
<1>8. ASSUME NEW s \in Runs PROVE CancelSpares(s)'
  BY <1>3, <1>4 DEF SafetyInvariant, CancelSpares, Unread
<1>9. ASSUME NEW s \in Runs PROVE FlagsTell(s)'
  BY <1>3, <1>4 DEF SafetyInvariant, FlagsTell, Live
<1>10. ASSUME NEW s \in Runs PROVE ClearsFirst(s)'
  BY <1>1, <1>2, <1>3 DEF SafetyInvariant, ClearsFirst, Live
<1>11. ScreenTells'
  BY <1>1, <1>3, <1>4 DEF SafetyInvariant, ScreenTells
<1> QED
  BY <1>5, <1>6, <1>7, <1>8, <1>9, <1>10, <1>11 DEF SafetyInvariant

(* onReadyToSubmit *)
LEMMA AskToPrintSafe ==
    ASSUME SafetyInvariant, OneLiveRun', NEW r \in Runs, AskToPrint(r)
    PROVE  SafetyInvariant'
<1> DEFINE x == [run[r] EXCEPT !.engine = "asking"]
           q == [from |-> r, op |-> "printing", run |-> r]
<1>1. /\ run[r].engine = "rendering" /\ run[r].at = "engine"
      /\ ~run[r].paper /\ awaiting[r] = None
      /\ \A d \in Posting : In(d, queue) => d.to # r
  BY DEF SafetyInvariant, Waiting, RunWaits, PaperTold, AskToPrint
<1>2. run[r] \in RunRecord /\ q \in Request /\ r \in Callers
  BY DEF SafetyInvariant, TypeOK, Request, Callers, Ops, TokenOps
<1>3. /\ x \in RunRecord /\ x.at = run[r].at /\ x.then = run[r].then
      /\ x.consumed = run[r].consumed /\ x.cancelled = run[r].cancelled
      /\ x.engine = "asking" /\ x.paper = run[r].paper
  BY <1>2 DEF RunRecord
<1>4. run' = [run EXCEPT ![r] = x]
  BY DEF AskToPrint
<1> HIDE DEF x
<1>5. /\ \A s \in Runs \ {r} : run'[s] = run[s]
      /\ run'[r] = x
      /\ run' \in [Runs -> RunRecord]
  BY <1>3, <1>4 DEF SafetyInvariant, TypeOK
<1>6. /\ requests' = requests \cup {q}
      /\ requests' \in SUBSET Request
      /\ awaiting' = [awaiting EXCEPT ![r] = q]
      /\ awaiting' \in [Callers -> Request \cup {None}]
      /\ awaiting'[r] = q
      /\ \A w \in Callers \ {r} : awaiting'[w] = awaiting[w]
  BY <1>2 DEF AskToPrint, Send, SafetyInvariant, TypeOK
<1>7. UNCHANGED <<server, queue, active, current, currentConsumed, doomed,
                  changing, screen, faults, clicks, down>>
  BY DEF AskToPrint, fields, limits
<1>8. TypeOK'
  BY <1>5, <1>6, <1>7 DEF TypeOK, SafetyInvariant
<1>9. Waiting'
  <2>1. \A w \in Callers : CallerWaits(w)'
    BY <1>1, <1>6, <1>7 DEF SafetyInvariant, Waiting, CallerWaits
  <2>2. \A s \in Runs \ {r} : RunWaits(s)'
    BY <1>5, <1>6, <1>7 DEF SafetyInvariant, Waiting, RunWaits, Callers
  <2>3. RunWaits(r)'
    BY <1>1, <1>3, <1>5, <1>6, <1>7 DEF RunWaits
  <2> QED
    BY <1>7, <2>1, <2>2, <2>3 DEF SafetyInvariant, Waiting
<1>10. ASSUME NEW s \in Runs PROVE PaperTold(s)'
  <2>1. CASE s # r
    BY <2>1, <1>5, <1>6, <1>7 DEF SafetyInvariant, PaperTold, Callers
  <2>2. CASE s = r
    <3>1. PaperTold(r)
      BY DEF SafetyInvariant
    <3>2. \A p \in requests : ~down /\ p.run = r => p.op # "create"
      BY <1>1, <3>1, RequestAssumption
         DEF PaperTold, SafetyInvariant, TypeOK
    <3> QED
      BY <2>2, <3>1, <3>2, <1>1, <1>3, <1>5, <1>6, <1>7
         DEF PaperTold, Unprinted
  <2> QED
    BY <2>1, <2>2
<1>11. ASSUME NEW s \in Runs PROVE CancelSpares(s)'
  BY <1>3, <1>5, <1>6, <1>7 DEF SafetyInvariant, CancelSpares, Unread
<1>12. ASSUME NEW s \in Runs PROVE FlagsTell(s)'
  BY <1>3, <1>5, <1>7 DEF SafetyInvariant, FlagsTell, Live
<1>13. ASSUME NEW s \in Runs PROVE ClearsFirst(s)'
  BY <1>3, <1>5, <1>7 DEF SafetyInvariant, ClearsFirst, Live
<1>14. ScreenTells'
  BY <1>3, <1>5, <1>7 DEF SafetyInvariant, ScreenTells
<1> QED
  BY <1>8, <1>9, <1>10, <1>11, <1>12, <1>13, <1>14 DEF SafetyInvariant

LEMMA EngineSafe ==
    ASSUME SafetyInvariant, OneLiveRun', NEW r \in Runs, Engine(r)
    PROVE  SafetyInvariant'
<1>1. /\ run[r] \in RunRecord /\ run \in [Runs -> RunRecord]
      /\ faults \in Nat /\ faults + 1 \in Nat
      /\ run[r].engine # "none" => ~run[r].paper
  BY DEF SafetyInvariant, TypeOK, PaperTold
<1> DEFINE y(paper) == [run[r] EXCEPT !.engine = "none", !.paper = paper]
           x == [run[r] EXCEPT !.engine = "none"]
<1>2. \A paper \in BOOLEAN :
         /\ y(paper) \in RunRecord /\ y(paper).at = run[r].at
         /\ y(paper).then = run[r].then
         /\ y(paper).consumed = run[r].consumed
         /\ y(paper).cancelled = run[r].cancelled
         /\ y(paper).engine = "none" /\ y(paper).paper = paper
  BY <1>1 DEF RunRecord
<1>3. /\ x \in RunRecord /\ x.at = run[r].at /\ x.then = run[r].then
      /\ x.consumed = run[r].consumed /\ x.cancelled = run[r].cancelled
      /\ x.engine = "none" /\ x.paper = run[r].paper
  BY <1>1 DEF RunRecord
<1>4. CASE Refuse(r)
  <2>1. /\ run' = [run EXCEPT ![r] = x]
        /\ run[r].engine = "rendering" /\ EngineKeeps /\ UNCHANGED screen
    BY <1>4 DEF Refuse
  <2>2. PICK result \in {"badDocument", "aborted", "rejected", "broken"} :
           Result(r, result) /\ faults' \in Nat
    BY <1>1, <1>4 DEF Refuse
  <2>3. result \in Answers
    BY DEF Answers
  <2> HIDE DEF x
  <2> QED
    BY <1>1, <1>3, <2>1, <2>2, <2>3, ResultSafe
<1>5. CASE AskToPrint(r)
  BY <1>5, AskToPrintSafe
<1>6. CASE NotReady(r)
  <2>1. /\ run' = [run EXCEPT ![r] = x] /\ faults' \in Nat
        /\ run[r].engine \in {"threw", "aborted"}
        /\ EngineKeeps /\ UNCHANGED screen
    BY <1>1, <1>6 DEF NotReady
  <2>2. PICK result \in {"rejected", "aborted"} : Result(r, result)
    BY <1>6 DEF NotReady
  <2>3. result \in Answers
    BY DEF Answers
  <2> HIDE DEF x
  <2> QED
    BY <1>1, <1>3, <2>1, <2>2, <2>3, ResultSafe
<1>7. CASE Submit(r)
  <2>1. run[r].engine = "spooling" /\ EngineKeeps /\ UNCHANGED screen
    BY <1>7 DEF Submit
  <2>2. PICK paper \in BOOLEAN,
             result \in {"submitted", "rejected", "broken"} :
           /\ run' = [run EXCEPT ![r].engine = "none", ![r].paper = paper]
           /\ Result(r, result) /\ faults' \in Nat
           /\ result = "submitted" => paper
    BY <1>1, <1>7 DEF Submit
  <2>3. result \in Answers
    BY DEF Answers
  <2>4. run' = [run EXCEPT ![r] = y(paper)]
    BY <1>1, <2>2
  <2>5. PICK z : z = y(paper)
    OBVIOUS
  <2> HIDE DEF y
  <2> QED
    BY <1>1, <1>2, <2>1, <2>2, <2>3, <2>4, <2>5, ResultSafe
<1> QED
  BY <1>4, <1>5, <1>6, <1>7 DEF Engine

---------------------------------------------------------------------------
(* The network and the server *)

(* The server may go on as long as it tells the truth about the paper, and *)
(* takes no document that the kiosk has not asked for.                     *)
ServerMoves ==
    /\ server' \in [Runs -> ServerStates]
    /\ \A s \in Runs :
          /\ run[s].paper => server'[s] \in {"printing", "completed", "failed"}
          /\ server'[s] = "completed" => run[s].paper
          /\ run[s].engine = "spooling"
                => server'[s] \in {"printing", "failed"}
          /\ Unread(s) => server'[s] \notin Processing

LEMMA ServerStays ==
    ASSUME SafetyInvariant, UNCHANGED server
    PROVE  ServerMoves
  BY DEF SafetyInvariant, TypeOK, PaperTold, ServerMoves, Unread

(* A transition of the published table, to a status that the kiosk asks    *)
(* for or that phone and cleanup reach.                                    *)
LEMMA TransitionMoves ==
    ASSUME SafetyInvariant, NEW s \in Runs, NEW to \in Statuses,
           CanTransition(server[s], to),
           server' = [server EXCEPT ![s] = to],
           to = "completed" => run[s].paper,
           to = "consumed" => ~Unread(s)
    PROVE  ServerMoves
<1>1. /\ server[s] \in ServerStates
      /\ run[s].paper => server[s] \in {"printing", "completed", "failed"}
      /\ server[s] = "completed" => run[s].paper
      /\ run[s].engine = "spooling" => server[s] \in {"printing", "failed"}
      /\ run[s].engine # "none" => ~run[s].paper
      /\ Unread(s) => server[s] \notin Processing
  BY DEF SafetyInvariant, TypeOK, PaperTold, Unread
<1>2. /\ server[s] \in {"printing", "completed", "failed"}
            => server[s] = "printing" /\ to \in {"completed", "failed"}
      /\ to \in {"validating", "printing"} => server[s] \in Processing
  BY <1>1 DEF CanTransition, Successors, Statuses, ServerStates, Processing
<1>3. /\ run[s].paper => to \in {"printing", "completed", "failed"}
      /\ run[s].engine = "spooling" => to \in {"printing", "failed"}
      /\ Unread(s) => to \notin Processing
  BY <1>1, <1>2 DEF Processing
<1>4. /\ server' \in [Runs -> ServerStates]
      /\ server'[s] = to
      /\ \A p \in Runs \ {s} : server'[p] = server[p]
  BY DEF SafetyInvariant, TypeOK, ServerStates
<1>5. ASSUME NEW p \in Runs \ {s}
      PROVE  /\ run[p].paper
                   => server'[p] \in {"printing", "completed", "failed"}
             /\ server'[p] = "completed" => run[p].paper
             /\ run[p].engine = "spooling"
                   => server'[p] \in {"printing", "failed"}
             /\ Unread(p) => server'[p] \notin Processing
  BY <1>4 DEF SafetyInvariant, PaperTold, Unread
<1> QED
  BY <1>3, <1>4, <1>5 DEF ServerMoves

(* Nobody but the server notices. *)
LEMMA ServedSafe ==
    ASSUME SafetyInvariant, OneLiveRun', ServerMoves,
           requests' \in SUBSET requests,
           UNCHANGED <<run, awaiting, queue, fields, screen, limits>>
    PROVE  SafetyInvariant'
<1> USE DEF fields, limits
<1>1. TypeOK'
  BY DEF TypeOK, SafetyInvariant, ServerMoves
<1>2. Waiting'
  BY DEF SafetyInvariant, Waiting, CallerWaits, RunWaits
<1>3. ASSUME NEW s \in Runs PROVE PaperTold(s)'
  BY DEF SafetyInvariant, PaperTold, ServerMoves
<1>4. ASSUME NEW s \in Runs PROVE CancelSpares(s)'
  <2>1. Unread(s) => Unread(s)'
    BY DEF Unread, ServerMoves
  <2> QED
    BY <2>1 DEF SafetyInvariant, CancelSpares
<1>5. ASSUME NEW s \in Runs PROVE FlagsTell(s)' /\ ClearsFirst(s)'
  BY DEF SafetyInvariant, FlagsTell, ClearsFirst, Live
<1>6. ScreenTells'
  BY DEF SafetyInvariant, ScreenTells
<1> QED
  BY <1>1, <1>2, <1>3, <1>4, <1>5, <1>6 DEF SafetyInvariant

Replies == Answers \ {"submitted", "badDocument"}

(* The answer to a request is posted. *)
LEMMA PostedSafe ==
    ASSUME SafetyInvariant, OneLiveRun', NEW w \in Callers,
           NEW answer \in Replies,
           awaiting[w] # None, awaiting[w].op # "printing",
           Resume(w, answer), ServerMoves,
           awaiting' = [awaiting EXCEPT ![w] = None],
           \A p \in requests' : p \in requests
              /\ (p.op = "create" => p # awaiting[w]),
           w \in Runs /\ run[w].at = "create" /\ run[w].cancelled
              => answer # "ok",
           UNCHANGED <<fields, clicks, down>>, faults' \in Nat
    PROVE  SafetyInvariant'
<1> USE DEF fields
<1> DEFINE e == [to |-> w, answer |-> answer]
<1>1. \A d \in Posting : In(d, queue) => d.to # w
  BY DEF SafetyInvariant, Waiting, CallerWaits
<1>2. /\ queue' \in Seq(Posting)
      /\ Distinct(queue')
      /\ \A d : In(d, queue') <=> In(d, queue) \/ d = e
      /\ \A d, v : d # e /\ After(queue, d, v) => After(queue', d, v)
  <2>1. e \in Posting
    BY DEF Posting, Replies
  <2>2. queue' = Append(queue, e)
    BY DEF Resume
  <2>3. queue \in Seq(Posting) /\ Distinct(queue)
    BY DEF SafetyInvariant, TypeOK, Waiting
  <2> QED
    BY <1>1, <2>1, <2>2, <2>3, Appended
<1>3. UNCHANGED <<run, screen>>
  BY DEF Resume
<1>4. /\ awaiting' \in [Callers -> Request \cup {None}]
      /\ awaiting'[w] = None
      /\ \A v \in Callers \ {w} : awaiting'[v] = awaiting[v]
  BY DEF SafetyInvariant, TypeOK
<1>5. TypeOK'
  BY <1>2, <1>3, <1>4 DEF TypeOK, SafetyInvariant, ServerMoves
<1>6. Waiting'
  <2>1. ASSUME NEW v \in Callers PROVE CallerWaits(v)'
    BY <1>2, <1>4 DEF SafetyInvariant, Waiting, CallerWaits
  <2>2. ASSUME NEW s \in Runs, s # w PROVE RunWaits(s)'
    BY <2>2, <1>2, <1>3, <1>4 DEF SafetyInvariant, Waiting, RunWaits, Callers
  <2>3. ASSUME w \in Runs PROVE RunWaits(w)'
    <3>1. run[w].engine = "none" /\ run[w].at = awaiting[w].op
      BY <2>3 DEF SafetyInvariant, Waiting, RunWaits
    <3>2. awaiting[w] \in Request
      BY DEF SafetyInvariant, TypeOK
    <3>3. run[w].at \notin {"free", "done", "delay"}
      BY <3>1, <3>2 DEF Request, Ops, TokenOps
    <3> QED
      BY <3>1, <3>3, <1>3, <1>4 DEF RunWaits
  <2> QED
    BY <1>2, <2>1, <2>2, <2>3 DEF Waiting
<1>7. ASSUME NEW s \in Runs PROVE PaperTold(s)'
  <2>1. \A d \in Posting : In(d, queue') /\ d.to = s =>
           \/ In(d, queue)
           \/ d.answer \notin {"submitted", "badDocument"}
    BY <1>2 DEF Replies
  <2>2. \A p \in requests' :
           ~down /\ p.run = s /\ p.op = "create" => awaiting'[s] = p
    BY <1>4 DEF SafetyInvariant, PaperTold, Callers
  <2> QED
    BY <2>1, <2>2, <1>3 DEF SafetyInvariant, PaperTold, ServerMoves
<1>8. ASSUME NEW s \in Runs PROVE CancelSpares(s)'
  <2>1. Unread(s) => Unread(s)'
    BY DEF Unread, ServerMoves
  <2> QED
    BY <2>1, <1>3 DEF SafetyInvariant, CancelSpares
<1>9. ASSUME NEW s \in Runs PROVE FlagsTell(s)'
  BY <1>3 DEF SafetyInvariant, FlagsTell, Live
<1>10. ASSUME NEW s \in Runs PROVE ClearsFirst(s)'
  BY <1>2, <1>3 DEF SafetyInvariant, ClearsFirst, Live
<1>11. ScreenTells'
  BY <1>3 DEF SafetyInvariant, ScreenTells
<1> QED
  BY <1>5, <1>6, <1>7, <1>8, <1>9, <1>10, <1>11 DEF SafetyInvariant

(* The answer to onReadyToSubmit: the engine goes on only when the server  *)
(* has recorded that it prints.                                            *)
LEMMA ReadySafe ==
    ASSUME SafetyInvariant, OneLiveRun', NEW w \in Callers,
           NEW answer \in Replies,
           awaiting[w] # None, awaiting[w].op = "printing", w \in Runs,
           Resume(w, answer), ServerMoves,
           answer = "ok" => server'[w] = "printing",
           awaiting' = [awaiting EXCEPT ![w] = None],
           \A p \in requests' : p \in requests
              /\ (p.op = "create" => p # awaiting[w]),
           UNCHANGED <<fields, clicks, down>>, faults' \in Nat
    PROVE  SafetyInvariant'
<1> USE DEF fields
<1> DEFINE engine == IF answer = "ok" THEN "spooling"
                     ELSE IF answer = "aborted" THEN "aborted" ELSE "threw"
           x == [run[w] EXCEPT !.engine = engine]
<1>1. run[w].engine = "asking" /\ run[w].at = "engine" /\ ~run[w].paper
  BY DEF SafetyInvariant, Waiting, RunWaits, PaperTold
<1>2. run[w] \in RunRecord
  BY DEF SafetyInvariant, TypeOK
<1>3. /\ engine \in {"spooling", "aborted", "threw"}
      /\ engine = "spooling" => server'[w] = "printing"
  OBVIOUS
<1>4. run' = [run EXCEPT ![w] = x] /\ UNCHANGED queue
  BY DEF Resume
<1> HIDE DEF engine
<1>5. /\ x \in RunRecord /\ x.at = run[w].at /\ x.then = run[w].then
      /\ x.consumed = run[w].consumed /\ x.cancelled = run[w].cancelled
      /\ x.engine = engine /\ x.paper = run[w].paper
  BY <1>2, <1>3 DEF RunRecord
<1> HIDE DEF x
<1>6. /\ \A s \in Runs \ {w} : run'[s] = run[s]
      /\ run'[w] = x
      /\ run' \in [Runs -> RunRecord]
  BY <1>4, <1>5 DEF SafetyInvariant, TypeOK
<1>7. /\ awaiting' \in [Callers -> Request \cup {None}]
      /\ awaiting'[w] = None
      /\ \A v \in Callers \ {w} : awaiting'[v] = awaiting[v]
  BY DEF SafetyInvariant, TypeOK
<1>8. ScreenQuiet
  <2>1. UNCHANGED screen \/ Show("printing", FALSE, w)
    BY DEF Resume, ShowPrinting
  <2> QED
    BY <2>1, ShowQuiet, ScreenStays DEF ScreenStates
<1>9. TypeOK'
  BY <1>4, <1>6, <1>7, <1>8 DEF TypeOK, SafetyInvariant, ServerMoves, ScreenQuiet
<1>10. Waiting'
  <2>1. ASSUME NEW v \in Callers PROVE CallerWaits(v)'
    BY <1>4, <1>7 DEF SafetyInvariant, Waiting, CallerWaits
  <2>2. ASSUME NEW s \in Runs, s # w PROVE RunWaits(s)'
    BY <2>2, <1>4, <1>6, <1>7
       DEF SafetyInvariant, Waiting, RunWaits, Callers
  <2>3. RunWaits(w)'
    BY <1>1, <1>4, <1>5, <1>6, <1>7 DEF SafetyInvariant, Waiting, RunWaits
  <2> QED
    BY <1>4, <2>1, <2>2, <2>3 DEF SafetyInvariant, Waiting
<1>11. ASSUME NEW s \in Runs PROVE PaperTold(s)'
  <2>1. \A p \in requests' :
           ~down /\ p.run = s /\ p.op = "create" => awaiting'[s] = p
    BY <1>7 DEF SafetyInvariant, PaperTold, Callers
  <2>2. CASE s # w
    BY <2>1, <2>2, <1>4, <1>6 DEF SafetyInvariant, PaperTold, ServerMoves
  <2>3. CASE s = w
    BY <2>1, <2>3, <1>1, <1>3, <1>4, <1>5, <1>6
       DEF SafetyInvariant, PaperTold, ServerMoves, Unprinted
  <2> QED
    BY <2>2, <2>3
<1>12. ASSUME NEW s \in Runs PROVE CancelSpares(s)'
  <2>1. Unread(s) => Unread(s)'
    BY DEF Unread, ServerMoves
  <2> QED
    BY <2>1, <1>5, <1>6 DEF SafetyInvariant, CancelSpares
<1>13. ASSUME NEW s \in Runs PROVE FlagsTell(s)'
  BY <1>5, <1>6 DEF SafetyInvariant, FlagsTell, Live
<1>14. ASSUME NEW s \in Runs PROVE ClearsFirst(s)'
  BY <1>4, <1>5, <1>6 DEF SafetyInvariant, ClearsFirst, Live
<1>15. ScreenTells'
  BY <1>5, <1>6, <1>8 DEF SafetyInvariant, ScreenTells, ScreenQuiet
<1> QED
  BY <1>9, <1>10, <1>11, <1>12, <1>13, <1>14, <1>15 DEF SafetyInvariant

LEMMA ReplySafe ==
    ASSUME SafetyInvariant, OneLiveRun', ~down, NEW q \in requests,
           NEW answer \in Replies \ {"broken"}, Reply(q, answer), ServerMoves,
           answer = "ok" /\ q.op = "printing" => server'[q.run] = "printing",
           requests' = requests \ {q},
           UNCHANGED <<fields, clicks, down>>
    PROVE  SafetyInvariant'
<1>1. /\ q \in Request /\ q # None /\ q.from \in Callers
      /\ faults \in Nat /\ faults + 1 \in Nat
  BY RequestAssumption DEF SafetyInvariant, TypeOK, Request
<1>2. CASE awaiting[q.from] = q /\ ~Stopped(q.from)
  <2> DEFINE w == q.from
  <2>1. PICK said \in Replies : Resume(w, said) /\ said \in {answer, "broken"}
                                /\ faults' \in Nat
    BY <1>1, <1>2 DEF Reply, Replies, Answers
  <2>2. awaiting' = [awaiting EXCEPT ![w] = None]
    BY <1>2 DEF Reply
  <2>3. CASE q.op # "printing"
    <3>1. w \in Runs /\ run[w].at = "create" => ~run[w].cancelled
      BY <1>1, <1>2, <2>3
         DEF Stopped, SafetyInvariant, Waiting, RunWaits, TokenOps
    <3> QED
      BY <1>1, <1>2, <2>1, <2>2, <2>3, <3>1, PostedSafe
  <2>4. CASE q.op = "printing"
    <3>1. w \in Runs
      BY <1>1, <1>2, <2>4 DEF SafetyInvariant, Waiting, CallerWaits
    <3>2. q.run = w
      BY <1>1, <1>2, <3>1 DEF SafetyInvariant, Waiting, RunWaits
    <3> QED
      BY <1>1, <1>2, <2>1, <2>2, <2>4, <3>1, <3>2, ReadySafe
  <2> QED
    BY <2>3, <2>4
<1>3. CASE ~(awaiting[q.from] = q /\ ~Stopped(q.from))
  BY <1>3, ServedSafe DEF Reply, fields, limits
<1> QED
  BY <1>2, <1>3

LEMMA ServeSafe ==
    ASSUME SafetyInvariant, OneLiveRun', ~down, NEW q \in requests, Serve(q)
    PROVE  SafetyInvariant'
<1>1. /\ q \in Request /\ q.run \in Runs /\ q.op \in Ops
      /\ server[q.run] \in ServerStates
      /\ requests' = requests \ {q} /\ UNCHANGED <<fields, clicks, down>>
  BY DEF SafetyInvariant, TypeOK, Request, Serve
<1>2. CASE q.op \in {"status", "download"}
  <2>1. PICK answer \in Replies \ {"broken"} : Reply(q, answer)
    BY <1>1, <1>2 DEF Serve, Replies, Answers, ServerStates, Statuses
  <2>2. ServerMoves
    BY <1>2, ServerStays DEF Serve
  <2> QED
    BY <1>1, <1>2, <2>1, <2>2, ReplySafe
<1>3. CASE /\ q.op \notin {"status", "download"}
           /\ ~(q.op = "create" \/ CanTransition(server[q.run], Wanted(q.op)))
  <2>1. Reply(q, "refused") /\ ServerMoves
    BY <1>3, ServerStays DEF Serve
  <2> QED
    BY <1>1, <2>1, ReplySafe DEF Replies, Answers
<1>4. CASE q.op = "create"
  <2>1. /\ server' = [server EXCEPT ![q.run] = "waiting"]
        /\ Reply(q, "ok")
    BY <1>4 DEF Serve, Wanted
  <2>2. run[q.run].engine = "none" /\ ~run[q.run].paper
    <3>1. awaiting[q.run] = q /\ q # None
      BY <1>1, <1>4, RequestAssumption DEF SafetyInvariant, PaperTold
    <3> QED
      BY <1>1, <1>4, <3>1
         DEF SafetyInvariant, Waiting, RunWaits, PaperTold, Unprinted
  <2>3. /\ server' \in [Runs -> ServerStates]
        /\ server'[q.run] = "waiting"
        /\ \A s \in Runs \ {q.run} : server'[s] = server[s]
    BY <1>1, <2>1 DEF SafetyInvariant, TypeOK, ServerStates, Statuses
  <2>4. ServerMoves
    BY <2>2, <2>3
       DEF ServerMoves, SafetyInvariant, PaperTold, Unread, Processing
  <2> QED
    BY <1>1, <1>4, <2>1, <2>4, ReplySafe DEF Replies, Answers
<1>5. CASE /\ q.op \notin {"create", "status", "download"}
           /\ CanTransition(server[q.run], Wanted(q.op))
  <2> DEFINE to == Wanted(q.op)
  <2>1. /\ server' = [server EXCEPT ![q.run] = to]
        /\ Reply(q, "ok")
    BY <1>5 DEF Serve
  <2>2. /\ to \in Statuses
        /\ to = "completed" => q.op = "completed"
        /\ to = "consumed" => q.op = "consume"
        /\ q.op = "printing" => to = "printing"
    BY <1>1, <1>5 DEF Wanted, Statuses, Ops, TokenOps
  <2> HIDE DEF to
  <2>3. /\ to = "completed" => run[q.run].paper
        /\ to = "consumed" => ~Unread(q.run)
    BY <1>1, <2>2 DEF SafetyInvariant, PaperTold, Unread
  <2>4. ServerMoves
    BY <1>1, <1>5, <2>1, <2>2, <2>3, TransitionMoves DEF to
  <2>5. q.op = "printing" => server'[q.run] = "printing"
    BY <1>1, <2>1, <2>2 DEF SafetyInvariant, TypeOK
  <2> QED
    BY <1>1, <2>1, <2>4, <2>5, ReplySafe DEF Replies, Answers
<1> QED
  BY <1>2, <1>3, <1>4, <1>5

(* The caller stops waiting; the request may still be served. *)
LEMMA ForgottenSafe ==
    ASSUME SafetyInvariant, OneLiveRun', NEW w \in Callers,
           NEW answer \in {"lost", "aborted"}, awaiting[w] # None,
           Resume(w, answer), Forget(w),
           UNCHANGED <<server, fields, clicks, down>>, faults' \in Nat
    PROVE  SafetyInvariant'
<1>1. /\ awaiting' = [awaiting EXCEPT ![w] = None]
      /\ \A p \in requests' : p \in requests
            /\ (p.op = "create" => p # awaiting[w])
  BY DEF Forget
<1>2. ServerMoves /\ answer \in Replies
  BY ServerStays DEF Replies, Answers
<1>3. CASE awaiting[w].op # "printing"
  BY <1>1, <1>2, <1>3, PostedSafe
<1>4. CASE awaiting[w].op = "printing"
  <2>1. w \in Runs
    BY <1>4 DEF SafetyInvariant, Waiting, CallerWaits
  <2> QED
    BY <1>1, <1>2, <1>4, <2>1, ReadySafe
<1> QED
  BY <1>3, <1>4

LEMMA NetworkSafe ==
    ASSUME SafetyInvariant, OneLiveRun', ~down, Network
    PROVE  SafetyInvariant'
<1>1. ASSUME NEW q \in requests, Serve(q) PROVE SafetyInvariant'
  BY <1>1, ServeSafe
<1>2. ASSUME NEW w \in Callers, Lose(w) PROVE SafetyInvariant'
  <2>1. faults' \in Nat /\ UNCHANGED <<server, fields, clicks, down>>
    BY <1>2 DEF Lose, SafetyInvariant, TypeOK
  <2> QED
    BY <1>2, <2>1, ForgottenSafe DEF Lose
<1>3. ASSUME NEW r \in Runs, Abort(r) PROVE SafetyInvariant'
  <2>1. faults' \in Nat /\ UNCHANGED <<server, fields, clicks, down>>
    BY <1>3 DEF Abort, SafetyInvariant, TypeOK, limits
  <2> QED
    BY <1>3, <2>1, ForgottenSafe DEF Abort, Stopped, Callers
<1> QED
  BY <1>1, <1>2, <1>3 DEF Network

---------------------------------------------------------------------------
(* What interrupts a run *)

(* The view timer, the first session and the end of an operator's wait. *)
LEMMA AnewSafe ==
    ASSUME SafetyInvariant, OneLiveRun', NEW tail, FreshSession(run, tail),
           tail \in Seq(Posting), Distinct(tail),
           \A e : In(e, tail) => In(e, queue),
           UNCHANGED <<current, currentConsumed, doomed, faults, clicks, down>>,
           changing' \in BOOLEAN
    PROVE  SafetyInvariant'
<1>1. Before(run, tail)
  BY DEF Before, SafetyInvariant, TypeOK
<1>2. /\ {current', doomed'} \subseteq Runs \cup {None}
      /\ currentConsumed' \in BOOLEAN
      /\ faults' \in Nat /\ clicks' \in Nat /\ down' = down
      /\ \A s \in Runs : current' = s =>
            current = s /\ (currentConsumed => currentConsumed')
  BY DEF SafetyInvariant, TypeOK
<1> QED
  BY <1>1, <1>2, FreshSafe

(* A click without a registration: nothing to wait for. *)
LEMMA ClickAnewSafe ==
    ASSUME SafetyInvariant, OneLiveRun',
           FreshSession(CancelActive(run), queue),
           UNCHANGED <<current, currentConsumed, changing, faults, down>>,
           doomed' = current, clicks' = clicks + 1
    PROVE  SafetyInvariant'
<1>1. Before(CancelActive(run), queue)
  <2>1. run \in [Runs -> RunRecord] /\ queue \in Seq(Posting)
        /\ Distinct(queue)
    BY DEF SafetyInvariant, TypeOK, Waiting
  <2>2. CancelActive(run) \in [Runs -> RunRecord]
    BY <2>1, CancelType
  <2>3. ASSUME NEW s \in Runs
        PROVE  LET x == CancelActive(run)[s]
               IN  /\ x.paper = run[s].paper
                   /\ x.at = run[s].at
                   /\ x.then = run[s].then
                   /\ x.consumed = run[s].consumed
                   /\ x.engine = run[s].engine
                   /\ run[s].cancelled => x.cancelled
    BY <2>1, CancelLeaves
  <2> QED
    BY <2>1, <2>2, <2>3 DEF Before
<1>2. /\ {current', doomed'} \subseteq Runs \cup {None}
      /\ currentConsumed' \in BOOLEAN /\ changing' \in BOOLEAN
      /\ faults' \in Nat /\ clicks' \in Nat /\ down' = down
      /\ \A s \in Runs : current' = s =>
            current = s /\ (currentConsumed => currentConsumed')
  BY DEF SafetyInvariant, TypeOK
<1> QED
  BY <1>1, <1>2, FreshSafe

(* A click with a registration: the run is told to stop, and the session   *)
(* is ended at the server.                                                 *)
LEMMA ClickAsksSafe ==
    ASSUME SafetyInvariant, OneLiveRun', NEW w \in Operators,
           NEW op \in {"failed", "cancel"},
           op = "cancel" => ~currentConsumed,
           w = "printer" => MaySelect,
           Interrupt(w, op), current # None,
           UNCHANGED <<faults, down>>
    PROVE  SafetyInvariant'
<1> DEFINE q == [from |-> w, op |-> op, run |-> current]
<1>1. /\ current \in Runs /\ w \in Callers /\ w \notin Runs
      /\ q \in Request
  BY NoneAssumption
     DEF SafetyInvariant, TypeOK, Callers, Request, Ops
<1>2. /\ run' = CancelActive(run) /\ Ask(w, op, current, queue)
      /\ changing' = (changing \/ w = "printer")
      /\ UNCHANGED <<server, active, screen, current, currentConsumed>>
      /\ doomed' = current /\ clicks' = clicks + 1
      /\ \A i \in 1..Len(queue) : queue[i].to # w
      /\ awaiting[w] = None
  BY DEF Interrupt
<1>3. /\ requests' = requests \cup {q}
      /\ awaiting' = [awaiting EXCEPT ![w] = q]
      /\ awaiting' \in [Callers -> Request \cup {None}]
      /\ awaiting'[w] = q
      /\ \A v \in Callers \ {w} : awaiting'[v] = awaiting[v]
      /\ queue' = queue
  BY <1>1, <1>2 DEF Ask, Send, SafetyInvariant, TypeOK
<1>4. \A e : In(e, queue) => e.to # w
  BY <1>2 DEF In
<1>5. /\ run' \in [Runs -> RunRecord]
      /\ \A s \in Runs :
            /\ run'[s].at = run[s].at
            /\ run'[s].then = run[s].then
            /\ run'[s].consumed = run[s].consumed
            /\ run'[s].engine = run[s].engine
            /\ run'[s].paper = run[s].paper
            /\ run'[s].cancelled = (run[s].cancelled \/ s = active)
  <2>1. run \in [Runs -> RunRecord]
    BY DEF SafetyInvariant, TypeOK
  <2> QED
    BY <2>1, <1>2, CancelType, CancelLeaves
<1>6. \A s \in Runs : ~Live(s)'
  BY <1>2, <1>5 DEF SafetyInvariant, OneLiveRun, Live
<1>7. TypeOK'
  BY <1>1, <1>2, <1>3, <1>5 DEF SafetyInvariant, TypeOK
<1>8. Waiting'
  <2>1. ASSUME NEW v \in Callers PROVE CallerWaits(v)'
    BY <1>3, <1>4 DEF SafetyInvariant, Waiting, CallerWaits
  <2>2. ASSUME NEW s \in Runs PROVE RunWaits(s)'
    BY <1>1, <1>3, <1>5 DEF SafetyInvariant, Waiting, RunWaits, Callers
  <2> QED
    BY <1>3, <2>1, <2>2 DEF SafetyInvariant, Waiting
<1>9. ASSUME NEW s \in Runs PROVE PaperTold(s)'
  <2>1. s \in Callers /\ awaiting'[s] = awaiting[s]
    BY <1>1, <1>3 DEF Callers
  <2> QED
    BY <2>1, <1>2, <1>3, <1>5 DEF SafetyInvariant, PaperTold
<1>10. ASSUME NEW s \in Runs PROVE CancelSpares(s)'
  <2>1. Unread(s) => Unread(s)'
    BY <1>2, <1>3 DEF Unread
  <2>2. CancelSpares(s)
    BY DEF SafetyInvariant
  <2>3. ASSUME s = current, op = "cancel"
        PROVE  Unread(s) /\ run'[s].cancelled
    <3>1. run[s].at \notin {"free", "done"} /\ ~run[s].consumed
      BY <2>3 DEF SafetyInvariant, FlagsTell
    <3> QED
      BY <2>2, <3>1, <1>5 DEF CancelSpares, SafetyInvariant, OneLiveRun, Live
  <2>4. ASSUME NEW p \in requests', p.run = s, p.op = "cancel"
        PROVE  /\ run'[s].cancelled \/ run'[s].at \in {"cancel", "done", "free"}
               /\ Unread(s)'
    <3>1. CASE p \in requests
      BY <2>1, <2>2, <2>4, <3>1, <1>5 DEF CancelSpares
    <3>2. CASE p = q
      BY <2>1, <2>3, <2>4, <3>2
    <3> QED
      BY <1>3, <3>1, <3>2
  <2> QED
    BY <2>1, <2>2, <2>4, <1>5 DEF CancelSpares
<1>11. ASSUME NEW s \in Runs PROVE FlagsTell(s)'
  BY <1>2, <1>5, <1>6 DEF SafetyInvariant, FlagsTell
<1>12. ASSUME NEW s \in Runs PROVE ClearsFirst(s)'
  BY <1>6 DEF ClearsFirst
<1>13. ScreenTells'
  BY <1>2, <1>5 DEF SafetyInvariant, ScreenTells
<1> QED
  BY <1>7, <1>8, <1>9, <1>10, <1>11, <1>12, <1>13 DEF SafetyInvariant

LEMMA InterruptSafe ==
    ASSUME SafetyInvariant, OneLiveRun', NEW w \in Operators,
           NEW op \in {"failed", "cancel"},
           op = "cancel" => ~currentConsumed,
           w = "printer" => MaySelect,
           Interrupt(w, op), UNCHANGED <<faults, down>>
    PROVE  SafetyInvariant'
<1>1. CASE current = None
  BY <1>1, ClickAnewSafe DEF Interrupt
<1>2. CASE current # None
  BY <1>2, ClickAsksSafe
<1> QED
  BY <1>1, <1>2

(* The memory of the app goes; a cancel may be on its way. *)
LEMMA QuitSafe ==
    ASSUME SafetyInvariant, OneLiveRun', Quit,
           requests' \in SUBSET Request,
           \A q \in requests' : q \in requests
              \/ (q.op = "cancel" /\ q.run \in Runs /\ Unread(q.run))
    PROVE  SafetyInvariant'
<1>1. \A s \in Runs :
         LET x == [Idle EXCEPT !.paper = run[s].paper]
         IN  /\ x \in RunRecord /\ x.at = "free" /\ x.engine = "none"
             /\ x.paper = run[s].paper /\ x.then = "none"
  BY DEF SafetyInvariant, TypeOK, Idle, RunRecord
<1>2. /\ run' \in [Runs -> RunRecord]
      /\ \A s \in Runs :
            /\ run'[s].at = "free" /\ run'[s].engine = "none"
            /\ run'[s].paper = run[s].paper /\ run'[s].then = "none"
  BY <1>1 DEF Quit
<1>3. /\ down' = TRUE
      /\ awaiting' = [w \in Callers |-> None]
      /\ queue' = <<>> /\ queue' \in Seq(Posting) /\ Distinct(queue')
      /\ \A e : ~In(e, queue')
      /\ active' = None /\ current' = None /\ doomed' = None
      /\ currentConsumed' = FALSE /\ changing' = FALSE
      /\ screen' = [state |-> "preparing", timed |-> FALSE, run |-> None]
      /\ UNCHANGED <<server, faults, clicks>>
  BY EmptyQueue DEF Quit, Show
<1>4. TypeOK'
  BY <1>2, <1>3 DEF SafetyInvariant, TypeOK, ScreenStates
<1>5. Waiting'
  <2>1. \A w \in Callers : awaiting'[w] = None
    BY <1>3
  <2>2. Runs \subseteq Callers
    BY DEF Callers
  <2> QED
    BY <2>1, <2>2, <1>2, <1>3 DEF Waiting, CallerWaits, RunWaits
<1>6. ASSUME NEW s \in Runs PROVE PaperTold(s)'
  BY <1>2, <1>3 DEF SafetyInvariant, PaperTold, Unprinted
<1>7. ASSUME NEW s \in Runs PROVE CancelSpares(s)'
  <2>1. Unread(s) => Unread(s)'
    BY <1>3 DEF Unread
  <2> QED
    BY <2>1, <1>2 DEF SafetyInvariant, CancelSpares
<1>8. ASSUME NEW s \in Runs PROVE FlagsTell(s)'
  BY <1>2, <1>3, NoneAssumption DEF FlagsTell, Live
<1>9. ASSUME NEW s \in Runs PROVE ClearsFirst(s)'
  BY <1>3 DEF ClearsFirst
<1>10. ScreenTells'
  BY <1>3 DEF ScreenTells
<1> QED
  BY <1>4, <1>5, <1>6, <1>7, <1>8, <1>9, <1>10 DEF SafetyInvariant

LEMMA DisposeSafe ==
    ASSUME SafetyInvariant, OneLiveRun', Dispose
    PROVE  SafetyInvariant'
<1> DEFINE q == [from |-> current, op |-> "cancel", run |-> current]
<1>1. CASE current # None /\ ~currentConsumed
  <2>1. current \in Runs /\ q \in Request
    BY <1>1 DEF SafetyInvariant, TypeOK, Request, Callers, Ops
  <2>2. Unread(current)
    BY <1>1, <2>1 DEF SafetyInvariant, FlagsTell, CancelSpares
  <2>3. requests' = requests \cup {q}
    BY <1>1 DEF Dispose
  <2> QED
    BY <2>1, <2>2, <2>3, QuitSafe DEF Dispose, SafetyInvariant, TypeOK
<1>2. CASE ~(current # None /\ ~currentConsumed)
  BY <1>2, QuitSafe DEF Dispose, SafetyInvariant, TypeOK
<1> QED
  BY <1>1, <1>2

LEMMA ReturnedSafe ==
    ASSUME SafetyInvariant, OneLiveRun', NEW w \in Operators, Interrupted(w),
           UNCHANGED <<faults, clicks>>
    PROVE  SafetyInvariant'
<1>1. CASE w = "discard" /\ Answer = "broken"
  BY <1>1, QuitSafe DEF Interrupted, SafetyInvariant, TypeOK
<1>2. CASE ~(w = "discard" /\ Answer = "broken")
  <2>1. /\ queue \in Seq(Posting) /\ queue # <<>> /\ Distinct(queue)
    BY DEF SafetyInvariant, TypeOK, Waiting, Interrupted, Posted
  <2>2. /\ Rest \in Seq(Posting) /\ Distinct(Rest)
        /\ \A e : In(e, Rest) => In(e, queue)
    BY <2>1, Taken DEF Rest
  <2>3. /\ FreshSession(run, Rest)
        /\ changing' = (changing /\ w # "printer")
        /\ UNCHANGED <<current, currentConsumed, doomed, down>>
    BY <1>2 DEF Interrupted
  <2>4. changing' \in BOOLEAN
    BY <2>3
  <2> QED
    BY <2>2, <2>3, <2>4, AnewSafe
<1> QED
  BY <1>1, <1>2

(* The phone and the cleanup follow the published table. *)
LEMMA OutsideSafe ==
    ASSUME SafetyInvariant, OneLiveRun', NEW r \in Runs,
           Phone(r) \/ Expire(r)
    PROVE  SafetyInvariant'
<1>1. /\ UNCHANGED <<run, requests, awaiting, queue, fields, screen, limits>>
      /\ requests' \in SUBSET requests
  BY DEF Phone, Expire
<1>2. CASE Phone(r)
  <2>1. PICK to \in (Early \ {"waiting"}) \cup {"cancelled"} :
           CanTransition(server[r], to) /\ server' = [server EXCEPT ![r] = to]
    BY <1>2 DEF Phone
  <2>2. to \in Statuses /\ to \notin {"completed", "consumed"}
    BY DEF Early, Statuses
  <2> QED
    BY <1>1, <2>1, <2>2, TransitionMoves, ServedSafe
<1>3. CASE Expire(r)
  <2> DEFINE to == IF server[r] \in Processing THEN "failed" ELSE "expired"
  <2>1. server[r] \in Early \cup Processing /\ server' = [server EXCEPT ![r] = to]
    BY <1>3 DEF Expire
  <2>2. /\ to \in Statuses /\ to \notin {"completed", "consumed"}
        /\ CanTransition(server[r], to)
    BY <2>1 DEF Early, Statuses, Processing, CanTransition, Successors
  <2> HIDE DEF to
  <2> QED
    BY <1>1, <2>1, <2>2, TransitionMoves, ServedSafe
<1> QED
  BY <1>2, <1>3

---------------------------------------------------------------------------
(* The invariant, and what it shows *)

LEMMA StutterSafe ==
    ASSUME SafetyInvariant, UNCHANGED vars
    PROVE  SafetyInvariant'
  BY DEF vars, SafetyInvariant, TypeOK, OneLiveRun, Waiting, CallerWaits,
         RunWaits, PaperTold, CancelSpares, Unread, FlagsTell, ClearsFirst,
         ScreenTells, Live

LEMMA SafetyKept == SafetyInvariant /\ [Next]_vars => SafetyInvariant'
<1> SUFFICES ASSUME SafetyInvariant, [Next]_vars PROVE SafetyInvariant'
  OBVIOUS
<1>1. OneLiveRun'
  BY NextKeeps DEF IInv, RunsTyped, SafetyInvariant, TypeOK
<1>2. CASE Interface
  <2>1. ASSUME NEW r \in Runs, Continue(r) \/ Poll(r)
        PROVE  SafetyInvariant'
    BY <1>1, <1>2, <2>1, ContinueSafe DEF Interface
  <2>2. CASE Open \/ Tick
    <3>1. FreshSession(run, queue)
          /\ UNCHANGED <<current, currentConsumed, doomed, changing>>
      BY <2>2 DEF Open, Tick
    <3>2. changing' \in BOOLEAN /\ queue \in Seq(Posting) /\ Distinct(queue)
      BY <3>1 DEF SafetyInvariant, TypeOK, Waiting
    <3> QED
      BY <1>1, <1>2, <3>1, <3>2, AnewSafe DEF Interface, limits
  <2> QED
    BY <1>2, <2>1, <2>2 DEF Interface
<1>3. CASE Clicked
  <2>1. "discard" \in Operators /\ "printer" \in Operators
    BY DEF Operators
  <2> QED
    BY <1>1, <1>3, <2>1, InterruptSafe
       DEF Clicked, ForceDiscard, SelectPrinter, MaySelect
<1>4. CASE Returned
  BY <1>1, <1>4, ReturnedSafe DEF Returned
<1>5. CASE Network
  BY <1>1, <1>5, NetworkSafe DEF Network
<1>6. ASSUME NEW r \in Runs, Engine(r) PROVE SafetyInvariant'
  BY <1>1, <1>6, EngineSafe
<1>7. CASE Dispose
  BY <1>1, <1>7, DisposeSafe
<1>8. ASSUME NEW r \in Runs, Phone(r) \/ Expire(r) PROVE SafetyInvariant'
  BY <1>1, <1>8, OutsideSafe
<1>9. CASE UNCHANGED vars
  BY <1>9, StutterSafe
<1> QED
  BY <1>2, <1>3, <1>4, <1>5, <1>6, <1>7, <1>8, <1>9 DEF Next

LEMMA SafetyStarts == Init => SafetyInvariant
<1> SUFFICES ASSUME Init PROVE SafetyInvariant
  OBVIOUS
<1>1. /\ Idle \in RunRecord /\ Idle.at = "free" /\ Idle.engine = "none"
      /\ ~Idle.paper /\ Idle.then = "none"
  BY DEF Idle, RunRecord
<1>2. /\ run \in [Runs -> RunRecord]
      /\ \A r \in Runs : run[r] = Idle
  BY <1>1 DEF Init
<1>3. TypeOK
  BY <1>2, EmptyQueue DEF Init, TypeOK, ServerStates, ScreenStates
<1>4. Waiting
  BY <1>1, <1>2, EmptyQueue
     DEF Init, Waiting, CallerWaits, RunWaits, Callers
<1>5. \A r \in Runs : PaperTold(r) /\ CancelSpares(r)
  BY <1>1, <1>2, EmptyQueue
     DEF Init, PaperTold, CancelSpares, Unread, Unprinted
<1>6. \A r \in Runs : FlagsTell(r) /\ ClearsFirst(r) /\ ~Live(r)
  BY <1>1, <1>2, EmptyQueue, NoneAssumption
     DEF Init, FlagsTell, ClearsFirst, Live
<1>7. ScreenTells
  BY DEF Init, ScreenTells
<1> QED
  BY <1>3, <1>4, <1>5, <1>6, <1>7 DEF SafetyInvariant, OneLiveRun

LEMMA Safe == Spec => []SafetyInvariant
  BY SafetyStarts, SafetyKept, PTL DEF Spec

(* Every variable keeps its type, however requests, continuations and the  *)
(* engine's answers interleave.                                            *)
THEOREM TypeInvariant == Spec => []TypeOK
<1>1. SafetyInvariant => TypeOK
  BY DEF SafetyInvariant
<1> QED
  BY <1>1, Safe, PTL

(* Paper never comes out before the server has recorded that the session   *)
(* prints, and no session is reported completed without its paper: whether *)
(* answers are lost, come late or come after the run has been cancelled.   *)
THEOREM PaperIsKnown == Spec => []PaperKnown
<1>1. SafetyInvariant => PaperKnown
  BY DEF SafetyInvariant, PaperTold, PaperKnown
<1> QED
  BY <1>1, Safe, PTL

(* A cancel of the kiosk, whoever sent it, meets no session whose document *)
(* the kiosk has consumed, however late either request arrives.            *)
THEOREM CancelsSpareDocuments == Spec => []CancelsUnreadOnly
<1>1. SafetyInvariant => CancelsUnreadOnly
  BY DEF SafetyInvariant, TypeOK, Request, CancelSpares, Unread,
         CancelsUnreadOnly
<1> QED
  BY <1>1, Safe, PTL

(* The flag that a printer change looks at is shared by all runs, and each *)
(* of them resets it; still no live run with a document is overlooked.     *)
THEOREM PrinterChangesSpare == Spec => []PrinterChangeSpares
<1>1. SafetyInvariant => PrinterChangeSpares
  BY DEF SafetyInvariant, FlagsTell, PrinterChangeSpares, MaySelect
<1> QED
  BY <1>1, Safe, PTL

(* What the screen says of a session's paper is true, also when the run it *)
(* belongs to is not the one that shows it.                                *)
THEOREM ScreenIsTrue == Spec => []ScreenTellsPaper
<1>1. SafetyInvariant => ScreenTellsPaper
  BY DEF SafetyInvariant, ScreenTells, ScreenTellsPaper
<1> QED
  BY <1>1, Safe, PTL
===========================================================================
