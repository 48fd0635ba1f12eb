------------------------ MODULE SessionStoreProofs ------------------------
(***************************************************************************)
(* Theorems about SessionStore, for every number of handlers, sweepers,    *)
(* phones and ciphertexts and every value of the lifetimes: the types, the *)
(* inductive invariant with the safety properties that follow from it, the *)
(* signed URLs, the refinement of PrintSession, and what that promises.    *)
(***************************************************************************)
EXTENDS SessionStore, TLAPS

---------------------------------------------------------------------------
(* Types of the operators *)

LEMMA FreshType == Fresh \in SessionRecord
BY TtlAssumption DEF Fresh, SessionRecord, Statuses

LEMMA NoPlanType == NoPlan \in PlanRecord
BY DEF NoPlan, PlanRecord

(* Every way a worker starts a stage gives a worker record. *)
LEMMA WorkerType ==
    ASSUME NEW pc \in {"idle", "commit", "answer", "cleanup", "delete",
                       "receipt", "finalize"},
           NEW call \in Calls \cup {NoCall}, NEW now \in Nat,
           NEW snap \in SessionRecord, NEW tries \in Nat, NEW plan \in PlanRecord
    PROVE  [pc |-> pc, call |-> call, now |-> now, snap |-> snap,
            tries |-> tries, plan |-> plan] \in WorkRecord
BY DEF WorkRecord

LEMMA IdleType == Idle \in WorkRecord
<1> NoCall \in Calls \cup {NoCall}
  OBVIOUS
<1> QED
  BY WorkerType, FreshType, NoPlanType DEF Idle

LEMMA MovedType ==
    ASSUME NEW s \in SessionRecord, NEW to \in Statuses
    PROVE  Moved(s, to) \in SessionRecord
<1>1. s.revision + 1 \in Nat
  BY DEF SessionRecord
<1>2. ASSUME NEW n \in Nat
      PROVE  [s EXCEPT !.status = to, !.revision = n] \in SessionRecord
  BY DEF SessionRecord
<1> QED
  BY <1>1, <1>2 DEF Moved

(* A record stays one when a typed field is replaced. *)
LEMMA FieldType ==
    ASSUME NEW s \in SessionRecord, NEW n \in Nat
    PROVE  /\ \A p \in Phones :
                 [s EXCEPT !.phone = p, !.expiresAt = n] \in SessionRecord
           /\ \A c \in Readers :
                 [s EXCEPT !.reader = c, !.lease = n] \in SessionRecord
           /\ [s EXCEPT !.lease = n] \in SessionRecord
           /\ \A p \in Paths : [s EXCEPT !.path = p] \in SessionRecord
           /\ \A e \in Etags : [s EXCEPT !.etag = e] \in SessionRecord
BY DEF SessionRecord

LEMMA UpdateType ==
    ASSUME NEW s \in SessionRecord, NEW c \in Calls \cup {NoCall}, NEW now \in Nat
    PROVE  Update(s, c, now) \in SessionRecord
<1>0. now + SessionTtl \in Nat /\ now + ConsumeLease \in Nat
      /\ now + ProcessingLease \in Nat
  BY TtlAssumption
<1>1. CASE c.kind = "claim"
  <2>1. c.by \in Phones /\ "claimed" \in Statuses
    BY <1>1 DEF Calls, NoCall, Statuses
  <2>2. Moved(s, "claimed") \in SessionRecord
    BY <2>1, MovedType
  <2>3. Update(s, c, now) = ClaimUpdate(s, c, now)
    BY <1>1 DEF Update
  <2> DEFINE t == Moved(s, "claimed")
             n == now + SessionTtl
  <2>4. [t EXCEPT !.phone = c.by, !.expiresAt = n] \in SessionRecord
    BY <1>0, <2>1, <2>2, FieldType
  <2> QED
    BY <2>3, <2>4 DEF ClaimUpdate
<1>2. CASE c.kind = "consume"
  <2>1. c.arg \in Readers /\ "consumed" \in Statuses
    BY <1>2 DEF Calls, NoCall, Statuses
  <2>2. Moved(s, "consumed") \in SessionRecord
    BY <2>1, MovedType
  <2>3. Update(s, c, now) = ConsumeUpdate(s, c, now)
    BY <1>2 DEF Update
  <2> DEFINE t == Moved(s, "consumed")
             n == now + ConsumeLease
  <2>5. [t EXCEPT !.reader = c.arg, !.lease = n] \in SessionRecord
    BY <1>0, <2>1, <2>2, FieldType
  <2> QED
    BY <2>3, <2>5 DEF ConsumeUpdate
<1>3. CASE c.kind = "transition"
  <2>1. c.arg \in Statuses
    BY <1>3 DEF Calls, NoCall, Statuses
  <2>2. Moved(s, c.arg) \in SessionRecord
    BY <2>1, MovedType
  <2>3. Update(s, c, now) = TransitionUpdate(s, c, now)
    BY <1>3 DEF Update
  <2>4. Moved(s, c.arg).lease \in Nat
    BY <2>2 DEF SessionRecord
  <2> DEFINE t == Moved(s, c.arg)
             n == IF c.arg \in {"validating", "printing"}
                    THEN now + ProcessingLease ELSE t.lease
  <2>5. n \in Nat
    BY <1>0, <2>4
  <2>6. [t EXCEPT !.lease = n] \in SessionRecord
    BY <2>2, <2>5, FieldType
  <2> QED
    BY <2>3, <2>6 DEF TransitionUpdate
<1>4. CASE c.kind \notin {"claim", "consume", "transition"}
  <2>1. Target(c) \in Statuses
    BY <1>4 DEF Target, Statuses
  <2>2. Moved(s, Target(c)) \in SessionRecord
    BY <2>1, MovedType
  <2> QED
    BY <1>4, <2>2 DEF Update
<1> QED
  BY <1>1, <1>2, <1>3, <1>4

LEMMA EvictType ==
    ASSUME NEW s \in SessionRecord, NEW now \in Nat, clock \in Nat
    PROVE  EvictTime(s, now) \in Nat
BY TtlAssumption DEF EvictTime, Larger, SessionRecord

---------------------------------------------------------------------------
(* Type invariance *)

(* A worker moves on, to another stage or with another record in hand. *)
LEMMA WorkType ==
    ASSUME TypeOK, NEW w \in Workers, NEW x \in WorkRecord,
           NEW pc \in {"idle", "commit", "answer", "cleanup", "delete",
                       "receipt", "finalize"},
           NEW s \in SessionRecord
    PROVE  /\ [work EXCEPT ![w] = x] \in [Workers -> WorkRecord]
           /\ [work EXCEPT ![w].pc = pc] \in [Workers -> WorkRecord]
           /\ [work EXCEPT ![w].pc = pc, ![w].snap = s, ![w].tries = 0]
                 \in [Workers -> WorkRecord]
<1>1. work \in [Workers -> WorkRecord]
  BY DEF TypeOK
<1>2. /\ [work[w] EXCEPT !.pc = pc] \in WorkRecord
      /\ [work[w] EXCEPT !.pc = pc, !.snap = s, !.tries = 0] \in WorkRecord
  BY <1>1 DEF WorkRecord
<1> QED
  BY <1>1, <1>2

LEMMA FinishType ==
    ASSUME TypeOK, NEW w \in Workers, Finish(w)
    PROVE  work' \in [Workers -> WorkRecord]
<1>1. [work EXCEPT ![w] = Idle] \in [Workers -> WorkRecord]
  BY IdleType DEF TypeOK
<1> QED
  BY <1>1 DEF Finish

LEMMA GotoType ==
    ASSUME TypeOK, NEW w \in Workers, NEW pc \in {"receipt", "finalize"},
           Goto(w, pc)
    PROVE  work' \in [Workers -> WorkRecord]
<1>1. [work EXCEPT ![w].pc = pc] \in [Workers -> WorkRecord]
  BY WorkType, IdleType, FreshType
<1> QED
  BY <1>1 DEF Goto

(* The records in which a handler keeps what it read. *)
LEMMA HandlerType ==
    ASSUME NEW c \in Calls \cup {NoCall}, NEW now \in Nat,
           NEW s \in SessionRecord,
           NEW n \in Nat
    PROVE  /\ [Idle EXCEPT !.pc = "answer", !.call = c, !.now = now, !.snap = s]
                 \in WorkRecord
           /\ [Idle EXCEPT !.pc = "commit", !.call = c, !.now = now, !.snap = s,
                           !.tries = n] \in WorkRecord
           /\ [Idle EXCEPT !.pc = "cleanup", !.now = now] \in WorkRecord
BY IdleType DEF WorkRecord

LEMMA ReadType ==
    ASSUME TypeOK, NEW r \in Requests, NEW c \in Calls \cup {NoCall},
           NEW now \in Nat, NEW n \in Nat, Read(r, c, now, n)
    PROVE  work' \in [Workers -> WorkRecord]
<1>1. session \in SessionRecord /\ r \in Workers
  BY DEF TypeOK, Workers
<1>2. \A x \in WorkRecord : [work EXCEPT ![r] = x] \in [Workers -> WorkRecord]
  BY <1>1 DEF TypeOK
<1>3. CASE Finish(r)
  BY <1>1, <1>3, FinishType
<1>4. CASE work' = [work EXCEPT ![r] =
             [Idle EXCEPT !.pc = "answer", !.call = c, !.now = now,
                          !.snap = session]]
  BY <1>1, <1>2, <1>4, HandlerType
<1>5. CASE work' = [work EXCEPT ![r] =
             [Idle EXCEPT !.pc = "commit", !.call = c, !.now = now,
                          !.snap = session, !.tries = n]]
  BY <1>1, <1>2, <1>5, HandlerType
<1> QED
  BY <1>3, <1>4, <1>5 DEF Read

LEMMA CallTypes ==
    ASSUME TypeOK, NEW r \in Requests,
           \/ \E c \in Calls : Call(r, c)
           \/ Retry(r)
    PROVE  TypeOK'
<1>1. work' \in [Workers -> WorkRecord]
  <2>1. ASSUME NEW c \in Calls, Call(r, c)
        PROVE  work' \in [Workers -> WorkRecord]
    <3>1. PICK now \in Recent : Read(r, c, now, 1)
      BY <2>1 DEF Call
    <3>2. now \in Nat
      BY DEF Recent, TypeOK
    <3> QED
      BY <3>1, <3>2, ReadType
  <2>2. ASSUME Retry(r)
        PROVE  work' \in [Workers -> WorkRecord]
    <3>1. r \in Workers /\ work[r] \in WorkRecord
      BY DEF Workers, TypeOK
    <3>2. /\ work[r].now \in Nat /\ work[r].tries + 1 \in Nat
          /\ work[r].call \in Calls \cup {NoCall}
      BY <3>1 DEF WorkRecord
    <3>3. CASE Read(r, work[r].call, work[r].now, work[r].tries + 1)
      BY <2>2, <3>2, <3>3, ReadType
    <3>4. CASE Finish(r)
      BY <3>1, <3>4, FinishType
    <3> QED
      BY <2>2, <3>3, <3>4 DEF Retry
  <2> QED
    BY <2>1, <2>2
<1>2. UNCHANGED <<clock, storeVars, blobVars, receipt, failures>>
  BY DEF Call, Retry
<1> QED
  BY <1>1, <1>2 DEF TypeOK, storeVars, blobVars

LEMMA CommitTypes ==
    ASSUME TypeOK, NEW r \in Requests, Commit(r)
    PROVE  TypeOK'
<1> DEFINE next == Update(work[r].snap, work[r].call, work[r].now)
<1>1. r \in Workers /\ work[r] \in WorkRecord /\ clock \in Nat
  BY DEF Workers, TypeOK
<1>2. /\ work[r].snap \in SessionRecord /\ work[r].now \in Nat
      /\ work[r].call \in Calls \cup {NoCall}
  BY <1>1 DEF WorkRecord
<1>3. next \in SessionRecord
  BY <1>2, UpdateType
<1>4. session' = next /\ evictAt' = EvictTime(next, work[r].now)
  BY DEF Commit
<1>5. evictAt' \in Nat
  BY <1>1, <1>2, <1>3, <1>4, EvictType
<1>6. work' \in [Workers -> WorkRecord]
  <2>1. CASE work' = [work EXCEPT ![r] =
               [Idle EXCEPT !.pc = "cleanup", !.now = clock]]
    <3>1. [Idle EXCEPT !.pc = "cleanup", !.now = clock] \in WorkRecord
      BY <1>1, IdleType DEF WorkRecord
    <3> QED
      BY <1>1, <2>1, <3>1, WorkType, FreshType
  <2>2. CASE work' = [work EXCEPT ![r].pc = "answer", ![r].snap = next,
                                  ![r].tries = 0]
    BY <1>1, <1>3, <2>2, WorkType, IdleType
  <2>3. CASE Finish(r)
    BY <1>1, <2>3, FinishType
  <2> QED
    BY <2>1, <2>2, <2>3 DEF Commit
<1>7. UNCHANGED <<clock, stored, orphan, blobVars, receipt, failures>>
  BY DEF Commit
<1> QED
  BY <1>3, <1>4, <1>5, <1>6, <1>7 DEF TypeOK, blobVars

LEMMA UploadTypes ==
    ASSUME TypeOK, NEW r \in Requests, AuthorizeUpload(r) \/ MarkUploaded(r)
    PROVE  TypeOK'
<1>1. /\ r \in Workers /\ r \in Paths /\ work[r] \in WorkRecord
      /\ clock \in Nat /\ orphan \in OrphanRecord /\ session \in SessionRecord
  BY DEF Workers, Paths, TypeOK
<1>2. /\ work[r].snap \in SessionRecord /\ work[r].now \in Nat
      /\ work[r].call \in Calls \cup {NoCall}
  BY <1>1 DEF WorkRecord
<1>3. CASE AuthorizeUpload(r)
  <2> DEFINE next == AuthorizeUpdate(work[r].snap, r)
  <2>1. next \in SessionRecord
    <3>1. Moved(work[r].snap, "upload_authorized") \in SessionRecord
      BY <1>2, MovedType DEF Statuses
    <3> QED
      BY <1>1, <3>1, FieldType, TtlAssumption DEF AuthorizeUpdate
  <2>2. CASE orphan.path # None
    <3>1. Finish(r) /\ UNCHANGED storeVars
      BY <1>3, <2>2 DEF AuthorizeUpload
    <3> QED
      BY <1>1, <1>3, <3>1, FinishType
         DEF AuthorizeUpload, TypeOK, storeVars, blobVars
  <2>3. CASE orphan.path = None
    <3>1. /\ session' = next
          /\ evictAt' = EvictTime(next, work[r].now)
          /\ orphan' = [path |-> r, etag |-> None,
                        dueAt |-> work[r].snap.expiresAt]
          /\ work' = [work EXCEPT ![r].pc = "answer", ![r].snap = next,
                                  ![r].tries = 0]
          /\ UNCHANGED <<stored, clock, blobVars, receipt, failures>>
      BY <1>3, <2>3 DEF AuthorizeUpload
    <3>2. evictAt' \in Nat
      BY <1>1, <1>2, <2>1, <3>1, EvictType
    <3>3. orphan' \in OrphanRecord
      BY <1>1, <1>2, <3>1 DEF OrphanRecord, SessionRecord
    <3>4. work' \in [Workers -> WorkRecord]
      BY <1>1, <2>1, <3>1, WorkType, IdleType
    <3> QED
      BY <2>1, <3>1, <3>2, <3>3, <3>4 DEF TypeOK, blobVars
  <2> QED
    BY <2>2, <2>3
<1>4. CASE MarkUploaded(r)
  <2> DEFINE next == UploadedUpdate(work[r].snap, work[r].call)
  <2>1. next \in SessionRecord
    <3>1. work[r].call.arg \in Etags
      BY <1>2, <1>4 DEF MarkUploaded, Calls, NoCall
    <3>2. Moved(work[r].snap, "uploaded") \in SessionRecord
      BY <1>2, MovedType DEF Statuses
    <3> QED
      BY <3>1, <3>2, FieldType, TtlAssumption DEF UploadedUpdate
  <2>2. Finish(r) /\ UNCHANGED <<clock, blobVars, receipt, failures>>
    BY <1>4 DEF MarkUploaded
  <2>3. work' \in [Workers -> WorkRecord]
    BY <1>1, <2>2, FinishType
  <2>4. CASE UNCHANGED storeVars
    BY <2>2, <2>3, <2>4 DEF TypeOK, storeVars, blobVars
  <2>5. CASE /\ session' = next
             /\ evictAt' = EvictTime(next, work[r].now)
             /\ orphan' = UploadedEntry(next)
             /\ UNCHANGED stored
    <3>1. evictAt' \in Nat
      BY <1>1, <1>2, <2>1, <2>5, EvictType
    <3>2. orphan' \in OrphanRecord
      BY <2>1, <2>5 DEF OrphanRecord, SessionRecord, UploadedEntry
    <3> QED
      BY <2>1, <2>2, <2>3, <2>5, <3>1, <3>2 DEF TypeOK, blobVars
  <2> QED
    BY <1>4, <2>4, <2>5 DEF MarkUploaded
<1> QED
  BY <1>3, <1>4

LEMMA Quotients ==
    ASSUME NEW a \in Int, NEW b \in Nat \ {0}
    PROVE  a \div b \in Int /\ (a \div b) * b <= a
BY Z3

(* Rounding adds less than a second to a URL that has some time left, and  *)
(* gives one second to a URL that has none.                                *)
LEMMA SignedBound ==
    ASSUME clock \in Nat, NEW deadline \in Nat
    PROVE  Signed(deadline) \in Nat /\ WithinASecond(Signed(deadline), deadline)
<1>1. Second \in Nat
  BY BoundAssumption
<1>2. CASE Second = 0
  BY <1>2 DEF Signed, WithinASecond, Larger
<1>3. CASE Second # 0
  <2> DEFINE a == deadline - clock + Second - 1
             q == a \div Second
  <2>1. a \in Int /\ q \in Int /\ q * Second <= a
    <3>1. a \in Int
      BY <1>1
    <3> HIDE DEF a
    <3> QED
      BY <1>1, <1>3, <3>1, Quotients
  <2>2. Signed(deadline) = clock + WholeSeconds(deadline)
    BY <1>3 DEF Signed
  <2>3. WholeSeconds(deadline) = IF 1 >= q THEN 1 * Second ELSE q * Second
    BY DEF WholeSeconds, Larger
  <2>4. a = deadline - clock + Second - 1
    OBVIOUS
  <2> HIDE DEF a, q
  <2>5. CASE 1 >= q
    BY <1>1, <2>2, <2>3, <2>5 DEF WithinASecond, Larger
  <2>6. CASE ~ (1 >= q)
    <3>1. q * Second \in Nat
      BY <1>1, <2>1, <2>6, Z3
    <3> QED
      BY <1>1, <2>1, <2>2, <2>3, <2>4, <2>6, <3>1 DEF WithinASecond, Larger
  <2> QED
    BY <2>5, <2>6
<1> QED
  BY <1>2, <1>3

LEMMA CapabilityTypes ==
    ASSUME TypeOK,
           \/ \E r \in Requests : SignPut(r) \/ SignGet(r)
           \/ \E p \in Paths, e \in Etags : Put(p, e)
    PROVE  TypeOK'
<1>1. ASSUME NEW r \in Requests, SignPut(r)
      PROVE  TypeOK'
  <2> DEFINE s == work[r].snap
             until == Larger(putUntil[s.path], Signed(SignedExpiry(s.expiresAt)))
  <2>1. r \in Workers /\ work[r] \in WorkRecord
    BY DEF Workers, TypeOK
  <2>2. work' \in [Workers -> WorkRecord]
    BY <1>1, <2>1, FinishType DEF SignPut
  <2>3. Signed(SignedExpiry(s.expiresAt)) \in Nat
    <3>1. clock \in Nat /\ SignedExpiry(s.expiresAt) \in Nat
      BY <2>1, TtlAssumption
         DEF TypeOK, WorkRecord, SessionRecord, SignedExpiry, Smaller
    <3> QED
      BY <3>1, SignedBound
  <2>4. putUntil' = [putUntil EXCEPT ![s.path] = until]
    BY <1>1 DEF SignPut
  <2>5. s.path \in Paths => until \in Nat
    BY <2>3 DEF TypeOK, Larger
  <2>6. putUntil' \in [Paths -> Nat]
    BY <2>4, <2>5 DEF TypeOK
  <2> QED
    BY <1>1, <2>2, <2>6 DEF SignPut, TypeOK, storeVars
<1>2. ASSUME NEW r \in Requests, SignGet(r)
      PROVE  TypeOK'
  <2> DEFINE s == work[r].snap
             lease == Smaller(s.lease, work[r].now + ConsumeLease)
             until == Larger(getUntil[s.reader], Signed(lease))
  <2>1. r \in Workers /\ work[r] \in WorkRecord
    BY DEF Workers, TypeOK
  <2>2. work' \in [Workers -> WorkRecord]
    BY <1>2, <2>1, FinishType DEF SignGet
  <2>3. Signed(lease) \in Nat
    <3>1. clock \in Nat /\ lease \in Nat
      BY <2>1, TtlAssumption DEF TypeOK, WorkRecord, SessionRecord, Smaller
    <3> QED
      BY <3>1, SignedBound
  <2>4. getUntil' = [getUntil EXCEPT ![s.reader] = until]
    BY <1>2 DEF SignGet
  <2>5. s.reader \in Readers => until \in Nat
    BY <2>3 DEF TypeOK, Larger
  <2>6. getUntil' \in [Readers -> Nat]
    BY <2>4, <2>5 DEF TypeOK
  <2> QED
    BY <1>2, <2>2, <2>6 DEF SignGet, TypeOK, storeVars
<1>3. ASSUME NEW p \in Paths, NEW e \in Etags, Put(p, e)
      PROVE  TypeOK'
  <2>1. /\ blobs' = [blobs EXCEPT ![p] = e]
        /\ late' = late \/ late' = late \cup {p}
    BY <1>3 DEF Put
  <2>2. blobs' \in [Paths -> Etags \cup {None}] /\ late' \subseteq Paths
    BY <2>1 DEF TypeOK
  <2> QED
    BY <1>3, <2>2 DEF Put, TypeOK, storeVars
<1> QED
  BY <1>1, <1>2, <1>3

LEMMA LedgerType ==
    ASSUME TypeOK, NEW now \in Nat
    PROVE  Ledger(now) \in OrphanRecord
BY DEF TypeOK, Ledger, SessionRecord, OrphanRecord, Larger

LEMMA StartDeleteType ==
    ASSUME TypeOK, NEW w \in Workers, NEW now \in Nat,
           NEW revision \in Nat \cup {-1}, NEW status \in Terminal,
           NEW entry \in OrphanRecord,
           StartDelete(w, now, DeletePlan(revision, status, entry))
    PROVE  work' \in [Workers -> WorkRecord]
<1> DEFINE plan == DeletePlan(revision, status, entry)
           x == [Idle EXCEPT !.pc = "delete", !.now = now, !.plan = plan]
<1>1. plan \in PlanRecord
  BY DEF DeletePlan, PlanRecord, OrphanRecord
<1>2. x \in WorkRecord
  <2> HIDE DEF plan
  <2> QED
    BY <1>1, IdleType DEF WorkRecord
<1>3. work' = [work EXCEPT ![w] = x]
  BY DEF StartDelete
<1> QED
  BY <1>2, <1>3 DEF TypeOK

LEMMA PrepareTypes ==
    ASSUME TypeOK, NEW w \in Workers, Prepare(w)
    PROVE  TypeOK'
<1> DEFINE now == work[w].now
<1>1. /\ now \in Nat /\ session \in SessionRecord /\ clock \in Nat
      /\ orphan \in OrphanRecord /\ clock + Retention \in Nat
  BY TtlAssumption DEF TypeOK, WorkRecord
<1>2. UNCHANGED <<clock, blobVars, receipt, failures>>
  BY DEF Prepare, PrepareCleanup
<1> SUFFICES /\ work' \in [Workers -> WorkRecord]
             /\ session' \in SessionRecord /\ stored' \in BOOLEAN
             /\ evictAt' \in Nat /\ orphan' \in OrphanRecord
  BY <1>2 DEF TypeOK, blobVars
<1> HIDE DEF now
<1>3. Ledger(now) \in OrphanRecord
  BY <1>1, LedgerType
<1>4. CASE PrepareAbsent(w, now)
  <2>1. "expired" \in Terminal /\ -1 \in Nat \cup {-1}
    BY DEF Terminal
  <2>2. work' \in [Workers -> WorkRecord]
    BY <1>1, <1>4, <2>1, FinishType, StartDeleteType DEF PrepareAbsent
  <2> QED
    BY <1>4, <2>2 DEF PrepareAbsent, TypeOK, storeVars
<1>5. CASE PrepareConflict(w)
  BY <1>5, FinishType DEF PrepareConflict, TypeOK, storeVars
<1>6. CASE PrepareDefer(w, now)
  <2>1. RetryAt(session) \in Nat
    BY <1>1 DEF RetryAt, Larger, SessionRecord
  <2>2. orphan' \in OrphanRecord
    BY <1>3, <1>6, <2>1 DEF PrepareDefer, OrphanRecord
  <2> QED
    BY <1>6, <2>2, FinishType DEF PrepareDefer, TypeOK
<1>7. CASE PrepareSeal(w, now)
  <2> DEFINE s == Sealed(session)
  <2>1. SealStatus(session) \in Terminal /\ SealStatus(session) \in Statuses
    BY DEF SealStatus, Terminal, Statuses
  <2>2. s \in SessionRecord
    BY <1>1, <2>1, MovedType DEF Sealed
  <2>3. s.status \in Terminal /\ s.revision \in Nat \cup {-1}
    <3>1. s.status = SealStatus(session)
      BY <1>1 DEF Sealed, Moved, SessionRecord
    <3> QED
      BY <2>1, <2>2, <3>1 DEF SessionRecord
  <2>4. StartDelete(w, now, DeletePlan(s.revision, s.status, Ledger(now)))
    BY <1>7 DEF PrepareSeal
  <2>5. work' \in [Workers -> WorkRecord]
    BY <1>1, <1>3, <2>3, <2>4, StartDeleteType
  <2> QED
    BY <1>1, <1>3, <1>7, <2>2, <2>5 DEF PrepareSeal, TypeOK
<1>8. CASE PrepareEnded(w, now)
  <2>1. session.revision \in Nat \cup {-1}
    BY <1>1 DEF SessionRecord
  <2>2. work' \in [Workers -> WorkRecord]
    BY <1>1, <1>3, <1>8, <2>1, StartDeleteType DEF PrepareEnded
  <2> QED
    BY <1>1, <1>3, <1>8, <2>2 DEF PrepareEnded, TypeOK
<1> QED
  BY <1>4, <1>5, <1>6, <1>7, <1>8 DEF Prepare, PrepareCleanup, now

LEMMA SagaTypes ==
    ASSUME TypeOK, NEW w \in Workers,
           DeleteBlob(w) \/ PutReceipt(w) \/ FinalizeCleanup(w) \/ Fail(w)
    PROVE  TypeOK'
<1>1. CASE DeleteBlob(w)
  <2>1. work' \in [Workers -> WorkRecord]
    BY <1>1, FinishType, GotoType DEF DeleteBlob
  <2>2. blobs' \in [Paths -> Etags \cup {None}]
    BY <1>1 DEF DeleteBlob, TypeOK
  <2> QED
    BY <1>1, <2>1, <2>2 DEF DeleteBlob, TypeOK, storeVars
<1>2. CASE PutReceipt(w)
  <2>1. work' \in [Workers -> WorkRecord]
    BY <1>2, GotoType DEF PutReceipt
  <2>2. work[w].plan.status \in Terminal \cup {"none"} /\ work[w].now \in Nat
    BY DEF TypeOK, WorkRecord, PlanRecord
  <2>3. Larger(clock + 1, work[w].now + ReceiptTtl) \in Nat
    BY <2>2, TtlAssumption DEF Larger, TypeOK
  <2>4. receipt' \in ReceiptRecord
    BY <1>2, <2>2, <2>3 DEF PutReceipt, ReceiptRecord
  <2> QED
    BY <1>2, <2>1, <2>4 DEF PutReceipt, TypeOK, storeVars, blobVars
<1>3. CASE FinalizeCleanup(w)
  <2>1. work' \in [Workers -> WorkRecord]
    BY <1>3, FinishType DEF FinalizeCleanup
  <2>2. NoOrphan \in OrphanRecord
    BY DEF NoOrphan, OrphanRecord
  <2>3. stored' \in BOOLEAN
    BY <1>3 DEF FinalizeCleanup, TypeOK
  <2>4. orphan' \in OrphanRecord /\ evictAt' \in Nat
    BY <1>3, <2>2 DEF FinalizeCleanup, TypeOK
  <2>5. UNCHANGED <<clock, session, blobVars, receipt, failures>>
    BY <1>3 DEF FinalizeCleanup
  <2> QED
    BY <2>1, <2>3, <2>4, <2>5 DEF TypeOK, blobVars
<1>4. CASE Fail(w)
  <2>1. work' \in [Workers -> WorkRecord]
    BY <1>4, FinishType DEF Fail
  <2> QED
    BY <1>4, <2>1 DEF Fail, TypeOK, storeVars, blobVars
<1> QED
  BY <1>1, <1>2, <1>3, <1>4

LEMMA BeginTypes ==
    ASSUME TypeOK, NEW w \in Workers, NEW now \in Nat, Begin(w, now)
    PROVE  TypeOK'
<1>1. [Idle EXCEPT !.pc = "cleanup", !.now = now] \in WorkRecord
  BY IdleType DEF WorkRecord
<1>2. work' \in [Workers -> WorkRecord]
  BY <1>1 DEF Begin, TypeOK
<1> QED
  BY <1>2 DEF Begin, TypeOK, storeVars, blobVars

LEMMA TickTypes ==
    ASSUME TypeOK, Tick
    PROVE  TypeOK'
<1>1. NoReceipt \in ReceiptRecord
  BY DEF NoReceipt, ReceiptRecord
<1>2. receipt' \in ReceiptRecord /\ clock' \in Nat /\ evictAt' \in Nat
  BY <1>1 DEF Tick, TypeOK
<1> QED
  BY <1>2 DEF Tick, TypeOK, blobVars

LEMMA InitTypes == Init => TypeOK
<1> SUFFICES ASSUME Init PROVE TypeOK
  OBVIOUS
<1>1. /\ NoOrphan \in OrphanRecord /\ NoReceipt \in ReceiptRecord
      /\ QrTtl + Retention \in Nat
  BY TtlAssumption DEF NoOrphan, OrphanRecord, NoReceipt, ReceiptRecord
<1> QED
  BY <1>1, FreshType, IdleType DEF Init, TypeOK

LEMMA NextTypes == TypeOK /\ [Next]_vars => TypeOK'
<1> SUFFICES ASSUME TypeOK, [Next]_vars PROVE TypeOK'
  OBVIOUS
<1>1. ASSUME NEW r \in Requests, (\E c \in Calls : Call(r, c)) \/ Handle(r)
      PROVE  TypeOK'
  <2>1. Handle(r) => \/ Commit(r)
                     \/ AuthorizeUpload(r) \/ MarkUploaded(r)
                     \/ Retry(r)
                     \/ SignPut(r) \/ SignGet(r)
    BY DEF Handle
  <2> QED
    BY <1>1, <2>1, CallTypes, CommitTypes, UploadTypes, CapabilityTypes
<1>2. ASSUME NEW w \in Workers,
             \/ TargetedCleanup(w) \/ Sweep(w) \/ ForcedCleanup(w)
      PROVE  TypeOK'
  <2>1. /\ clock \in Nat
        /\ Larger(clock, Larger(session.expiresAt, session.lease)) \in Nat
    BY DEF TypeOK, SessionRecord, Larger
  <2> QED
    BY <1>2, <2>1, BeginTypes DEF TargetedCleanup, Sweep, ForcedCleanup
<1>3. ASSUME NEW w \in Workers, Clean(w) \/ Fail(w)
      PROVE  TypeOK'
  BY <1>3, PrepareTypes, SagaTypes DEF Clean
<1>4. ASSUME NEW p \in Paths, NEW e \in Etags, Put(p, e)
      PROVE  TypeOK'
  BY <1>4, CapabilityTypes
<1>5. CASE Tick
  BY <1>5, TickTypes
<1>6. CASE UNCHANGED vars
  BY <1>6 DEF vars, TypeOK
<1>7. Sweepers \subseteq Workers /\ Admins \subseteq Workers
  BY NoneAssumption DEF Workers
<1> QED
  BY <1>1, <1>2, <1>3, <1>4, <1>5, <1>6, <1>7 DEF Next

(* Every variable keeps its type, whatever the handlers, cleanups, crashes *)
(* and the clock do.                                                       *)
THEOREM TypeInvariant == Spec => []TypeOK
<1> QED
  BY InitTypes, NextTypes, PTL DEF Spec

---------------------------------------------------------------------------
(* The invariant *)

(* Once true it stays true: no script revives a session. *)
Ended == ~stored \/ session.status \in Terminal

(* What a status says about the fields of the record. *)
Shape ==
    /\ session.status \in {"waiting", "claimed"} => session.path = None
    /\ session.status = "upload_authorized" => session.path # None
    /\ session.path = None => session.etag = None

(* A handler about to commit holds the record at some revision so far, the *)
(* whole of it if the revision is the current one.                         *)
Committing(w) ==
    work[w].pc = "commit" =>
        /\ work[w].call \in Calls
        /\ Allowed(work[w].snap, work[w].call)
        /\ work[w].snap.revision <= session.revision
        /\ work[w].snap.revision = session.revision => work[w].snap = session

(* What head() found stays there until the session ends. *)
Headers(w) ==
    work[w].pc = "commit" /\ work[w].call.kind = "markUploaded" =>
        /\ session.path # None
        /\ ~Ended => blobs[session.path] = work[w].call.arg

(* The path about to be signed is the session's for ever. *)
Signing(w) ==
    work[w].pc = "answer" /\ work[w].call.kind = "authorizeUpload" =>
        /\ session.path # None
        /\ work[w].snap.path = session.path

(* A cleanup past its preparation is about a session that has ended, and   *)
(* past its deletion about a path that is empty or was PUT late.           *)
Cleaning(w) ==
    /\ work[w].pc \in {"delete", "receipt", "finalize"} =>
          /\ Ended
          /\ stored => work[w].plan.status = session.status
    /\ work[w].pc \in {"receipt", "finalize"} /\ work[w].plan.path # None =>
          blobs[work[w].plan.path] = None \/ work[w].plan.path \in late

(* A signed PUT exists only for the session's path. *)
OnePath == \A p \in Paths : putUntil[p] > 0 => session.path = p

(* A receipt of a stored session names its final status. *)
ReceiptFinal ==
    receipt.status # "none" /\ stored =>
        /\ session.status \in Terminal
        /\ receipt.status = session.status

Working(w) == Committing(w) /\ Headers(w) /\ Signing(w) /\ Cleaning(w)

IInv ==
    /\ Shape
    /\ LedgerMatchesRecord
    /\ LedgerCoversCiphertext
    /\ CommittedBlobPresent
    /\ OnePath
    /\ ReceiptFinal
    /\ \A w \in Workers : Working(w)

---------------------------------------------------------------------------
(* What a step may do to a worker that does not take it *)

(* The record only moves forward, and ends for good. *)
Forward ==
    /\ stored' => stored
    /\ Ended => Ended' /\ (stored' => session'.status = session.status)
    /\ session.path # None => session'.path = session.path
    /\ session.revision <= session'.revision
    /\ session'.revision = session.revision => session' = session

(* Ciphertext is deleted only from an ended session; what lands at an      *)
(* empty path of an ended session is late.                                 *)
BlobForward ==
    /\ late \subseteq late'
    /\ \A p \in Paths : \/ blobs'[p] = blobs[p]
                        \/ blobs[p] = None /\ (Ended => p \in late')
                        \/ Ended /\ blobs'[p] = None

LEMMA OtherWorks ==
    ASSUME TypeOK, TypeOK', NEW w \in Workers, work'[w] = work[w],
           Forward, BlobForward, Working(w)
    PROVE  Working(w)'
<1>1. /\ work[w] \in WorkRecord /\ session \in SessionRecord
      /\ session' \in SessionRecord
  BY DEF TypeOK
<1>2. /\ work[w].snap.revision \in Nat /\ session.revision \in Nat
      /\ session'.revision \in Nat
      /\ session.path # None => session.path \in Paths
      /\ work[w].plan.path # None => work[w].plan.path \in Paths
  BY <1>1 DEF WorkRecord, SessionRecord, PlanRecord
<1>3. Committing(w)'
  <2> SUFFICES ASSUME work[w].pc = "commit"
               PROVE  /\ work[w].call \in Calls
                      /\ Allowed(work[w].snap, work[w].call)
                      /\ work[w].snap.revision <= session'.revision
                      /\ work[w].snap.revision = session'.revision =>
                            work[w].snap = session'
    BY DEF Committing, Allowed, Target
  <2>1. /\ work[w].call \in Calls
        /\ Allowed(work[w].snap, work[w].call)
        /\ work[w].snap.revision <= session.revision
        /\ work[w].snap.revision = session.revision => work[w].snap = session
    BY DEF Working, Committing
  <2>2. session.revision <= session'.revision
    BY DEF Forward
  <2>3. work[w].snap.revision = session'.revision => work[w].snap = session'
    BY <1>2, <2>1, <2>2 DEF Forward
  <2> QED
    BY <1>2, <2>1, <2>2, <2>3
<1>4. Headers(w)'
  <2> SUFFICES ASSUME work[w].pc = "commit", work[w].call.kind = "markUploaded"
               PROVE  /\ session'.path # None
                      /\ ~Ended' => blobs'[session'.path] = work[w].call.arg
    BY DEF Headers
  <2>1. session.path # None /\ (~Ended => blobs[session.path] = work[w].call.arg)
    BY DEF Working, Headers
  <2>2. work[w].call.arg # None
    <3>1. work[w].call \in Calls
      BY DEF Working, Committing
    <3>2. work[w].call.arg \in Etags
      BY <3>1 DEF Calls
    <3> QED
      BY <3>2, NoneAssumption
  <2> QED
    BY <1>2, <2>1, <2>2 DEF Forward, BlobForward
<1>5. Signing(w)'
  BY DEF Working, Signing, Forward
<1>6. Cleaning(w)'
  <2> SUFFICES ASSUME work[w].pc \in {"delete", "receipt", "finalize"}
               PROVE  /\ Ended'
                      /\ stored' => work[w].plan.status = session'.status
                      /\ work[w].pc \in {"receipt", "finalize"}
                         /\ work[w].plan.path # None =>
                            \/ blobs'[work[w].plan.path] = None
                            \/ work[w].plan.path \in late'
    BY DEF Cleaning
  <2>1. Ended /\ (stored => work[w].plan.status = session.status)
    BY DEF Working, Cleaning
  <2>2. stored' => stored
    BY DEF Forward
  <2> QED
    BY <1>2, <2>1, <2>2 DEF Forward, BlobForward, Working, Cleaning
<1> QED
  BY <1>3, <1>4, <1>5, <1>6 DEF Working

---------------------------------------------------------------------------
(* Steps that only change what a worker is doing *)

Kept == IInv /\ TypeOK /\ TypeOK'

(* It is enough to look at the worker that takes the step. *)
LEMMA OthersWork ==
    ASSUME Kept, Forward, BlobForward, NEW w \in Workers,
           \A v \in Workers \ {w} : work'[v] = work[v], Working(w)'
    PROVE  \A v \in Workers : Working(v)'
BY OtherWorks DEF Kept, IInv

(* Only when the ledger entry is due may change besides. *)
LEMMA LedgerStep ==
    ASSUME Kept, NEW w \in Workers,
           UNCHANGED <<session, stored, blobVars, receipt>>,
           orphan'.path = orphan.path, orphan'.etag = orphan.etag,
           \A v \in Workers \ {w} : work'[v] = work[v], Working(w)'
    PROVE  IInv'
<1>1. Forward
  <2>1. session.revision \in Nat
    BY DEF Kept, TypeOK, SessionRecord
  <2> QED
    BY <2>1 DEF Forward, Ended
<1>2. BlobForward
  BY DEF BlobForward, blobVars
<1>3. \A v \in Workers : Working(v)'
  BY <1>1, <1>2, OthersWork
<1>4. /\ Shape' /\ LedgerMatchesRecord' /\ LedgerCoversCiphertext'
      /\ CommittedBlobPresent' /\ OnePath' /\ ReceiptFinal'
  BY DEF Kept, IInv, Shape, LedgerMatchesRecord, LedgerCoversCiphertext,
         CommittedBlobPresent, OnePath, ReceiptFinal, blobVars
<1> QED
  BY <1>3, <1>4 DEF IInv

LEMMA QuietStep ==
    ASSUME Kept, NEW w \in Workers, UNCHANGED <<storeVars, blobVars, receipt>>,
           \A v \in Workers \ {w} : work'[v] = work[v], Working(w)'
    PROVE  IInv'
BY LedgerStep DEF storeVars

(* A worker with nothing in hand satisfies the invariant. *)
LEMMA IdleWorks ==
    ASSUME NEW w \in Workers, work'[w].pc \in {"idle", "cleanup"}
    PROVE  Working(w)'
BY DEF Working, Committing, Headers, Signing, Cleaning

LEMMA FinishWorks ==
    ASSUME TypeOK, NEW w \in Workers, Finish(w)
    PROVE  /\ \A v \in Workers \ {w} : work'[v] = work[v]
           /\ Working(w)'
<1>1. work' = [work EXCEPT ![w] = Idle] /\ work \in [Workers -> WorkRecord]
  BY DEF Finish, TypeOK
<1>2. work'[w].pc = "idle"
  BY <1>1 DEF Idle
<1> QED
  BY <1>1, <1>2, IdleWorks

LEMMA ReadWorks ==
    ASSUME TypeOK, Shape, NEW r \in Requests, NEW c \in Calls,
           NEW now \in Nat, NEW n \in Nat, Read(r, c, now, n),
           UNCHANGED <<storeVars, blobVars>>,
           c.kind = "markUploaded" =>
               session.path # None /\ (~Ended => blobs[session.path] = c.arg)
    PROVE  /\ \A v \in Workers \ {r} : work'[v] = work[v]
           /\ Working(r)'
<1>1. r \in Workers /\ work \in [Workers -> WorkRecord] /\ session.revision \in Nat
  BY DEF Workers, TypeOK, SessionRecord
<1>2. CASE Finish(r)
  BY <1>1, <1>2, FinishWorks
<1>3. CASE /\ Repeats(session, c, now)
           /\ work' = [work EXCEPT ![r] =
                [Idle EXCEPT !.pc = "answer", !.call = c, !.now = now,
                             !.snap = session]]
  <2>1. /\ work'[r].pc = "answer" /\ work'[r].call = c
        /\ work'[r].snap = session
        /\ \A v \in Workers \ {r} : work'[v] = work[v]
    BY <1>1, <1>3 DEF Idle
  <2>2. c.kind = "authorizeUpload" => session.path # None
    BY <1>3 DEF Repeats, Shape
  <2>3. Working(r)'
    BY <2>1, <2>2 DEF Working, Committing, Headers, Signing, Cleaning, storeVars
  <2> QED
    BY <2>1, <2>3
<1>4. CASE /\ Allowed(session, c)
           /\ work' = [work EXCEPT ![r] =
                [Idle EXCEPT !.pc = "commit", !.call = c, !.now = now,
                             !.snap = session, !.tries = n]]
  <2>1. /\ work'[r].pc = "commit" /\ work'[r].call = c
        /\ work'[r].snap = session
        /\ \A v \in Workers \ {r} : work'[v] = work[v]
    BY <1>1, <1>4 DEF Idle
  <2>2. Committing(r)'
    BY <1>1, <1>4, <2>1 DEF Committing, Allowed, Target, storeVars
  <2>3. Headers(r)'
    BY <2>1 DEF Headers, Ended, storeVars, blobVars
  <2> QED
    BY <2>1, <2>2, <2>3 DEF Working, Signing, Cleaning
<1> QED
  BY <1>2, <1>3, <1>4 DEF Read

LEMMA RequestSteps ==
    ASSUME Kept, NEW r \in Requests,
           (\E c \in Calls : Call(r, c)) \/ Retry(r)
    PROVE  IInv'
<1>1. r \in Workers /\ TypeOK /\ Shape /\ work[r] \in WorkRecord /\ Working(r)
  BY DEF Workers, Kept, IInv, TypeOK
<1>2. ASSUME NEW c \in Calls, Call(r, c)
      PROVE  IInv'
  <2>1. PICK now \in Recent : Read(r, c, now, 1)
    BY <1>2 DEF Call
  <2>2. /\ now \in Nat
        /\ UNCHANGED <<storeVars, blobVars>> /\ UNCHANGED receipt
    BY <1>1, <1>2 DEF Recent, TypeOK, Call
  <2>3. c.kind = "markUploaded" =>
            session.path # None /\ (~Ended => blobs[session.path] = c.arg)
    BY <1>2 DEF Call, Headed
  <2> QED
    BY <1>1, <2>1, <2>2, <2>3, ReadWorks, QuietStep
<1>3. ASSUME Retry(r)
      PROVE  IInv'
  <2>1. /\ work[r].pc = "commit"
        /\ UNCHANGED <<storeVars, blobVars>> /\ UNCHANGED receipt
    BY <1>3 DEF Retry
  <2>2. CASE Finish(r)
    BY <1>1, <2>1, <2>2, FinishWorks, QuietStep
  <2>3. CASE Read(r, work[r].call, work[r].now, work[r].tries + 1)
    <3>1. work[r].call \in Calls
      BY <1>1, <2>1 DEF Working, Committing
    <3>2. work[r].now \in Nat /\ work[r].tries + 1 \in Nat
      BY <1>1 DEF WorkRecord
    <3>3. work[r].call.kind = "markUploaded" =>
              /\ session.path # None
              /\ ~Ended => blobs[session.path] = work[r].call.arg
      BY <1>1, <2>1 DEF Working, Headers
    <3> QED
      BY <1>1, <2>1, <2>3, <3>1, <3>2, <3>3, ReadWorks, QuietStep
  <2> QED
    BY <1>3, <2>2, <2>3 DEF Retry
<1> QED
  BY <1>2, <1>3

LEMMA BeginSteps ==
    ASSUME Kept, NEW w \in Workers, NEW now \in Nat,
           Begin(w, now) \/ Fail(w)
    PROVE  IInv'
<1>1. TypeOK /\ work \in [Workers -> WorkRecord]
  BY DEF Kept, TypeOK
<1>2. CASE Begin(w, now)
  <2>1. /\ work' = [work EXCEPT ![w] =
                      [Idle EXCEPT !.pc = "cleanup", !.now = now]]
        /\ UNCHANGED <<storeVars, blobVars, receipt>>
    BY <1>2 DEF Begin
  <2>2. work'[w].pc = "cleanup" /\ \A v \in Workers \ {w} : work'[v] = work[v]
    BY <1>1, <2>1 DEF Idle
  <2> QED
    BY <2>1, <2>2, IdleWorks, QuietStep
<1>3. CASE Fail(w)
  <2>1. Finish(w) /\ UNCHANGED <<storeVars, blobVars, receipt>>
    BY <1>3 DEF Fail
  <2> QED
    BY <1>1, <2>1, FinishWorks, QuietStep
<1> QED
  BY <1>2, <1>3

(* Signing a GET or a PUT only adds the URL. *)
LEMMA SignSteps ==
    ASSUME Kept, NEW r \in Requests, SignPut(r) \/ SignGet(r)
    PROVE  IInv'
<1>1. r \in Workers /\ TypeOK /\ Working(r)
  BY DEF Workers, Kept, IInv
<1>2. Finish(r) /\ UNCHANGED <<storeVars, blobs, late, receipt>>
  BY DEF SignPut, SignGet
<1>3. Forward
  <2>1. session.revision \in Nat
    BY <1>1 DEF TypeOK, SessionRecord
  <2> QED
    BY <1>2, <2>1 DEF Forward, Ended, storeVars
<1>4. BlobForward
  BY <1>2 DEF BlobForward
<1>5. \A v \in Workers : Working(v)'
  BY <1>1, <1>2, <1>3, <1>4, FinishWorks, OthersWork
<1>6. /\ Shape' /\ LedgerMatchesRecord' /\ LedgerCoversCiphertext'
      /\ CommittedBlobPresent' /\ ReceiptFinal'
  BY <1>2 DEF Kept, IInv, Shape, LedgerMatchesRecord, LedgerCoversCiphertext,
         CommittedBlobPresent, ReceiptFinal, storeVars
<1>7. OnePath'
  <2>1. CASE SignGet(r)
    BY <2>1 DEF SignGet, Kept, IInv, OnePath, storeVars
  <2>2. CASE SignPut(r)
    <3>1. /\ session' = session
          /\ work[r].snap.path = session.path
          /\ putUntil' = [putUntil EXCEPT ![work[r].snap.path] =
                Larger(@, Signed(SignedExpiry(work[r].snap.expiresAt)))]
      BY <1>1, <2>2 DEF SignPut, Working, Signing, storeVars
    <3>2. \A p \in Paths : p # session.path => putUntil'[p] = putUntil[p]
      BY <1>1, <3>1 DEF TypeOK
    <3> QED
      BY <3>1, <3>2 DEF Kept, IInv, OnePath
  <2> QED
    BY <2>1, <2>2
<1> QED
  BY <1>5, <1>6, <1>7 DEF IInv

---------------------------------------------------------------------------
(* Steps that write the record *)

LEMMA MovedFields ==
    ASSUME NEW s \in SessionRecord, NEW to
    PROVE  /\ Moved(s, to).status = to
           /\ Moved(s, to).revision = s.revision + 1
           /\ Moved(s, to).path = s.path /\ Moved(s, to).etag = s.etag
           /\ Moved(s, to).phone = s.phone /\ Moved(s, to).reader = s.reader
BY DEF Moved, SessionRecord

(* What the plain compare-and-set writes. *)
LEMMA UpdateFields ==
    ASSUME NEW s \in SessionRecord, NEW c \in Calls, NEW now \in Nat
    PROVE  LET u == Update(s, c, now) IN
           /\ u.status = Target(c)
           /\ u.revision = s.revision + 1
           /\ u.path = s.path /\ u.etag = s.etag
           /\ u.phone = IF c.kind = "claim" THEN c.by ELSE s.phone
           /\ u.reader = IF c.kind = "consume" THEN c.arg ELSE s.reader
<1>1. \A to \in Statuses : Moved(s, to) \in SessionRecord
  BY MovedType
<1>2. CASE c.kind = "claim"
  <2> DEFINE t == Moved(s, "claimed")
  <2>1. /\ t \in SessionRecord /\ Target(c) = "claimed"
        /\ Update(s, c, now) =
              [t EXCEPT !.phone = c.by, !.expiresAt = now + SessionTtl]
    BY <1>1, <1>2 DEF Statuses, Target, Update, ClaimUpdate
  <2> QED
    BY <1>2, <2>1, MovedFields DEF SessionRecord
<1>3. CASE c.kind = "consume"
  <2> DEFINE t == Moved(s, "consumed")
  <2>1. /\ t \in SessionRecord /\ Target(c) = "consumed"
        /\ Update(s, c, now) =
              [t EXCEPT !.reader = c.arg, !.lease = now + ConsumeLease]
    BY <1>1, <1>3 DEF Statuses, Target, Update, ConsumeUpdate
  <2> QED
    BY <1>3, <2>1, MovedFields DEF SessionRecord
<1>4. CASE c.kind = "transition"
  <2> DEFINE t == Moved(s, c.arg)
             n == IF c.arg \in {"validating", "printing"}
                    THEN now + ProcessingLease ELSE t.lease
  <2>1. /\ t \in SessionRecord /\ Target(c) = c.arg
        /\ Update(s, c, now) = [t EXCEPT !.lease = n]
    BY <1>1, <1>4 DEF Calls, Statuses, Target, Update, TransitionUpdate
  <2> QED
    BY <1>4, <2>1, MovedFields DEF SessionRecord
<1>5. CASE c.kind \notin {"claim", "consume", "transition"}
  <2>1. Update(s, c, now) = Moved(s, Target(c))
    BY <1>5 DEF Update
  <2> QED
    BY <1>5, <2>1, MovedFields
<1> QED
  BY <1>2, <1>3, <1>4, <1>5

(* A handler that finds its revision holds the current record, and moves   *)
(* it along the table.                                                     *)
LEMMA LandedRecord ==
    ASSUME Kept, NEW r \in Requests, work[r].pc = "commit", Landed(r)
    PROVE  /\ r \in Workers /\ work[r] \in WorkRecord
           /\ session \in SessionRecord /\ stored
           /\ work[r].snap = session
           /\ work[r].call \in Calls /\ work[r].now \in Nat
           /\ CanTransition(session.status, Target(work[r].call))
           /\ session.status \notin Terminal
<1>1. /\ r \in Workers /\ work[r] \in WorkRecord /\ session \in SessionRecord
      /\ work[r].now \in Nat /\ Committing(r)
  BY DEF Kept, IInv, Working, Workers, TypeOK, WorkRecord
<1>2. /\ stored /\ work[r].snap = session /\ work[r].call \in Calls
      /\ CanTransition(session.status, Target(work[r].call))
  BY <1>1 DEF Landed, Committing, Allowed
<1>3. session.status \notin Terminal
  BY <1>2 DEF CanTransition, Successors, Terminal
<1> QED
  BY <1>1, <1>2, <1>3

(* A new record of a live session, at the next revision. *)
LEMMA AdvanceForward ==
    ASSUME Kept, stored, session.status \notin Terminal, stored' = stored,
           session'.revision = session.revision + 1,
           session.path # None => session'.path = session.path
    PROVE  Forward
<1>1. session.revision \in Nat
  BY DEF Kept, TypeOK, SessionRecord
<1> QED
  BY <1>1 DEF Forward, Ended

LEMMA CommitStep ==
    ASSUME Kept, NEW r \in Requests, Commit(r)
    PROVE  IInv'
<1> DEFINE c == work[r].call
           u == Update(work[r].snap, c, work[r].now)
<1>1. /\ work[r].pc = "commit" /\ Landed(r)
      /\ c.kind \notin {"authorizeUpload", "markUploaded"}
      /\ session' = u /\ UNCHANGED <<stored, orphan, blobVars, receipt>>
  BY DEF Commit
<1>2. /\ r \in Workers /\ work[r] \in WorkRecord
      /\ session \in SessionRecord /\ stored
      /\ work[r].snap = session
      /\ c \in Calls /\ work[r].now \in Nat
      /\ CanTransition(session.status, Target(c))
      /\ session.status \notin Terminal
  BY <1>1, LandedRecord
<1>3. /\ session'.status = Target(c)
      /\ session'.revision = session.revision + 1
      /\ session'.path = session.path /\ session'.etag = session.etag
  BY <1>1, <1>2, UpdateFields
<1>4. Forward
  BY <1>1, <1>2, <1>3, AdvanceForward
<1>5. BlobForward
  BY <1>1 DEF BlobForward, blobVars
<1>6. /\ \A v \in Workers \ {r} : work'[v] = work[v]
      /\ Working(r)'
  <2>0. work \in [Workers -> WorkRecord]
    BY DEF Kept, TypeOK
  <2>1. CASE work' = [work EXCEPT ![r] =
                        [Idle EXCEPT !.pc = "cleanup", !.now = clock]]
    <3>1. work'[r].pc = "cleanup" /\ \A v \in Workers \ {r} : work'[v] = work[v]
      BY <1>2, <2>0, <2>1 DEF Idle
    <3> QED
      BY <1>2, <3>1, IdleWorks
  <2>2. CASE /\ c.kind = "consume"
             /\ work' = [work EXCEPT ![r].pc = "answer", ![r].snap = u,
                                     ![r].tries = 0]
    <3>1. /\ work'[r].pc = "answer" /\ work'[r].call.kind = "consume"
          /\ \A v \in Workers \ {r} : work'[v] = work[v]
      BY <1>2, <2>0, <2>2 DEF WorkRecord
    <3> QED
      BY <3>1 DEF Working, Committing, Headers, Signing, Cleaning
  <2>3. CASE Finish(r)
    BY <1>2, <2>3, FinishWorks DEF Kept
  <2> QED
    BY <2>1, <2>2, <2>3 DEF Commit
<1>7. \A v \in Workers : Working(v)'
  BY <1>2, <1>4, <1>5, <1>6, OthersWork
<1>8. /\ Target(c) \notin {"waiting", "upload_authorized", "uploaded"}
      /\ Target(c) = "claimed" => session.status = "waiting"
      /\ Target(c) \in Processing =>
            session.status \in {"uploaded"} \cup Processing
  BY <1>1, <1>2 DEF Calls, Target, CanTransition, Successors, Processing
<1>9. Shape' /\ LedgerMatchesRecord' /\ CommittedBlobPresent'
  BY <1>1, <1>2, <1>3, <1>8
     DEF Kept, IInv, Shape, LedgerMatchesRecord, CommittedBlobPresent, blobVars
<1>10. LedgerCoversCiphertext' /\ OnePath' /\ ReceiptFinal'
  BY <1>1, <1>2, <1>3
     DEF Kept, IInv, LedgerCoversCiphertext, OnePath, ReceiptFinal, blobVars
<1> QED
  BY <1>7, <1>9, <1>10 DEF IInv

(* The path is authorised once: the record had none, so neither had the    *)
(* ledger.                                                                 *)
LEMMA AuthorizeStep ==
    ASSUME Kept, NEW r \in Requests, AuthorizeUpload(r)
    PROVE  IInv'
<1> DEFINE t == Moved(session, "upload_authorized")
           u == AuthorizeUpdate(work[r].snap, r)
<1>1. /\ work[r].pc = "commit" /\ Landed(r)
      /\ work[r].call.kind = "authorizeUpload"
      /\ UNCHANGED <<blobVars, receipt>> /\ r \in Paths /\ r # None
  BY NoneAssumption DEF AuthorizeUpload, Paths
<1>2. /\ r \in Workers /\ work[r] \in WorkRecord
      /\ session \in SessionRecord /\ stored
      /\ work[r].snap = session
      /\ CanTransition(session.status, Target(work[r].call))
      /\ session.status \notin Terminal
  BY <1>1, LandedRecord
<1>3. /\ session.status = "claimed" /\ session.path = None /\ session.etag = None
      /\ orphan.path = None
  BY <1>1, <1>2 DEF Target, CanTransition, Successors, Kept, IInv, Shape, LedgerMatchesRecord
<1>4. /\ session' = u /\ stored' = stored
      /\ orphan' = [path |-> r, etag |-> None, dueAt |-> work[r].snap.expiresAt]
      /\ work' = [work EXCEPT ![r].pc = "answer", ![r].snap = u, ![r].tries = 0]
  BY <1>1, <1>3 DEF AuthorizeUpload
<1>5. t \in SessionRecord /\ u = [t EXCEPT !.path = r]
  BY <1>2, MovedType DEF Statuses, AuthorizeUpdate
<1>6. /\ session'.status = "upload_authorized" /\ session'.path = r
      /\ session'.revision = session.revision + 1
      /\ session'.etag = None
  BY <1>2, <1>3, <1>4, <1>5, MovedFields DEF SessionRecord
<1>7. Forward
  BY <1>2, <1>3, <1>4, <1>6, AdvanceForward
<1>8. BlobForward
  BY <1>1 DEF BlobForward, blobVars
<1>9. /\ \A v \in Workers \ {r} : work'[v] = work[v]
      /\ Working(r)'
  <2>0. work \in [Workers -> WorkRecord]
    BY DEF Kept, TypeOK
  <2>1. /\ work'[r].pc = "answer" /\ work'[r].snap = u
        /\ \A v \in Workers \ {r} : work'[v] = work[v]
    BY <1>2, <1>4, <2>0 DEF WorkRecord
  <2> QED
    BY <1>1, <1>4, <1>6, <2>1 DEF Working, Committing, Headers, Signing, Cleaning
<1>10. \A v \in Workers : Working(v)'
  BY <1>2, <1>7, <1>8, <1>9, OthersWork
<1>11. Shape' /\ LedgerMatchesRecord' /\ CommittedBlobPresent'
  BY <1>1, <1>4, <1>6
     DEF Shape, LedgerMatchesRecord, CommittedBlobPresent, Processing
<1>12. LedgerCoversCiphertext' /\ OnePath' /\ ReceiptFinal'
  <2>1. \A p \in Paths : p # None
    BY NoneAssumption DEF Paths
  <2> QED
    BY <1>1, <1>2, <1>3, <1>4, <1>6, <2>1
       DEF Kept, IInv, LedgerCoversCiphertext, OnePath, ReceiptFinal, blobVars
<1> QED
  BY <1>10, <1>11, <1>12 DEF IInv

(* The etag that head() reported goes to the record and to the ledger.     *)
LEMMA UploadedStep ==
    ASSUME Kept, NEW r \in Requests, MarkUploaded(r)
    PROVE  IInv'
<1> DEFINE c == work[r].call
           t == Moved(session, "uploaded")
<1>1. /\ work[r].pc = "commit" /\ Landed(r) /\ c.kind = "markUploaded"
      /\ UNCHANGED <<blobVars, receipt>> /\ Finish(r)
  BY DEF MarkUploaded
<1>2. /\ r \in Workers /\ work[r] \in WorkRecord
      /\ session \in SessionRecord /\ stored
      /\ work[r].snap = session /\ c \in Calls
      /\ CanTransition(session.status, Target(c))
      /\ session.status \notin Terminal
  BY <1>1, LandedRecord
<1>3. /\ session.path # None /\ blobs[session.path] = c.arg
      /\ orphan.path = session.path
      /\ c.arg \in Etags /\ c.arg # None
  <2>1. Headers(r)
    BY <1>2 DEF Kept, IInv, Working
  <2> QED
    BY <1>1, <1>2, <2>1, NoneAssumption
       DEF Headers, Ended, Calls, Kept, IInv, LedgerMatchesRecord
<1>4. /\ session' = UploadedUpdate(work[r].snap, c)
      /\ orphan' = UploadedEntry(session') /\ stored' = stored
  BY <1>2, <1>3 DEF MarkUploaded
<1>5. t \in SessionRecord /\ session' = [t EXCEPT !.etag = c.arg]
  BY <1>2, <1>4, MovedType DEF Statuses, UploadedUpdate
<1>6. /\ session'.status = "uploaded" /\ session'.path = session.path
      /\ session'.revision = session.revision + 1
      /\ session'.etag = c.arg
  BY <1>2, <1>5, MovedFields DEF SessionRecord
<1>7. orphan'.path = session'.path /\ orphan'.etag = session'.etag
  BY <1>4 DEF UploadedEntry
<1>8. Forward
  BY <1>2, <1>4, <1>6, AdvanceForward
<1>9. BlobForward
  BY <1>1 DEF BlobForward, blobVars
<1>10. \A v \in Workers : Working(v)'
  BY <1>1, <1>2, <1>8, <1>9, FinishWorks, OthersWork DEF Kept
<1>11. Shape' /\ LedgerMatchesRecord' /\ CommittedBlobPresent'
  BY <1>1, <1>3, <1>6, <1>7
     DEF Shape, LedgerMatchesRecord, CommittedBlobPresent, blobVars
<1>12. LedgerCoversCiphertext' /\ OnePath' /\ ReceiptFinal'
  BY <1>1, <1>2, <1>3, <1>6, <1>7
     DEF Kept, IInv, LedgerCoversCiphertext, OnePath, ReceiptFinal, blobVars
<1> QED
  BY <1>10, <1>11, <1>12 DEF IInv

---------------------------------------------------------------------------
(* The blob provider *)

(* What a PUT adds is at the authorised path, which the ledger names, or   *)
(* it is late.                                                             *)
LEMMA PutStep ==
    ASSUME Kept, NEW p \in Paths, NEW e \in Etags, Put(p, e)
    PROVE  IInv'
<1>1. /\ putUntil[p] > 0 /\ blobs[p] = None
      /\ blobs' = [blobs EXCEPT ![p] = e]
      /\ blobs \in [Paths -> Etags \cup {None}]
      /\ late' = IF ~Ended THEN late ELSE late \cup {p}
      /\ UNCHANGED <<storeVars, putUntil, receipt, work>>
  BY DEF Put, Ended, Kept, TypeOK
<1>2. session.path = p
  BY <1>1 DEF Kept, IInv, OnePath
<1>3. /\ blobs'[p] = e
      /\ \A q \in Paths \ {p} : blobs'[q] = blobs[q]
  BY <1>1
<1>4. Forward
  <2>1. session.revision \in Nat
    BY DEF Kept, TypeOK, SessionRecord
  <2> QED
    BY <1>1, <2>1 DEF Forward, Ended, storeVars
<1>5. BlobForward
  BY <1>1, <1>3 DEF BlobForward
<1>6. \A v \in Workers : Working(v)'
  BY <1>1, <1>4, <1>5, OtherWorks DEF Kept, IInv
<1>7. Shape' /\ LedgerMatchesRecord' /\ OnePath' /\ ReceiptFinal'
  BY <1>1
     DEF Kept, IInv, Shape, LedgerMatchesRecord, OnePath, ReceiptFinal, storeVars
<1>8. CommittedBlobPresent'
  BY <1>1, <1>2 DEF Kept, IInv, CommittedBlobPresent, storeVars
<1>9. LedgerCoversCiphertext'
  <2> SUFFICES ASSUME NEW q \in Paths, blobs'[q] # None
               PROVE  q \in late' \/ orphan.path = q
    BY <1>1 DEF LedgerCoversCiphertext, storeVars
  <2>1. CASE q # p
    BY <1>1, <1>3, <2>1 DEF Kept, IInv, LedgerCoversCiphertext
  <2>2. CASE q = p
    BY <1>1, <1>2, <2>2 DEF Kept, IInv, LedgerMatchesRecord, Ended
  <2> QED
    BY <2>1, <2>2
<1> QED
  BY <1>6, <1>7, <1>8, <1>9 DEF IInv

---------------------------------------------------------------------------
(* The cleanup saga *)

(* A plan that is handed on to the deletion. *)
LEMMA PlanWorks ==
    ASSUME TypeOK, NEW w \in Workers, NEW now, NEW plan,
           StartDelete(w, now, plan),
           Ended', stored' => plan.status = session'.status
    PROVE  /\ \A v \in Workers \ {w} : work'[v] = work[v]
           /\ Working(w)'
<1>1. /\ work'[w].pc = "delete" /\ work'[w].plan = plan
      /\ \A v \in Workers \ {w} : work'[v] = work[v]
  BY DEF StartDelete, Idle, TypeOK
<1> QED
  BY <1>1 DEF Working, Committing, Headers, Signing, Cleaning

(* The entry is never missing while the record exists. *)
LEMMA LedgerKept ==
    ASSUME IInv, stored, NEW now
    PROVE  Ledger(now) = orphan
BY DEF IInv, LedgerMatchesRecord, Ledger

LEMMA PrepareStep ==
    ASSUME Kept, NEW w \in Workers, Prepare(w)
    PROVE  IInv'
<1> DEFINE now == work[w].now
<1>1. UNCHANGED <<blobVars, receipt>> /\ TypeOK /\ IInv
  BY DEF Prepare, PrepareCleanup, Kept
<1>2. CASE PrepareAbsent(w, now)
  <2>1. UNCHANGED storeVars /\ Ended' /\ ~stored'
    BY <1>2 DEF PrepareAbsent, storeVars, Ended
  <2>2. CASE Finish(w)
    BY <1>1, <2>1, <2>2, FinishWorks, QuietStep
  <2>3. CASE StartDelete(w, now, DeletePlan(-1, "expired", orphan))
    BY <1>1, <2>1, <2>3, PlanWorks, QuietStep
  <2> QED
    BY <1>2, <2>2, <2>3 DEF PrepareAbsent
<1>3. CASE PrepareConflict(w)
  <2>1. UNCHANGED storeVars /\ Finish(w)
    BY <1>3 DEF PrepareConflict
  <2> QED
    BY <1>1, <2>1, FinishWorks, QuietStep
<1>4. CASE PrepareDefer(w, now)
  <2>1. /\ stored /\ Finish(w) /\ UNCHANGED <<session, stored>>
        /\ orphan' = IF Ledger(now).path = None THEN Ledger(now)
                     ELSE [Ledger(now) EXCEPT !.dueAt = RetryAt(session)]
    BY <1>4 DEF PrepareDefer, Consistent
  <2>2. orphan'.path = orphan.path /\ orphan'.etag = orphan.etag
    BY <1>1, <2>1, LedgerKept DEF TypeOK, OrphanRecord
  <2> QED
    BY <1>1, <2>1, <2>2, FinishWorks, LedgerStep
<1>5. CASE PrepareEnded(w, now)
  <2>1. /\ stored /\ session.status \in Terminal /\ UNCHANGED <<session, stored>>
        /\ orphan' = Ledger(now)
        /\ StartDelete(w, now, DeletePlan(session.revision, session.status,
                                          Ledger(now)))
    BY <1>5 DEF PrepareEnded, Consistent
  <2>2. orphan' = orphan
    BY <1>1, <2>1, LedgerKept
  <2>3. Ended' /\ DeletePlan(session.revision, session.status,
                             Ledger(now)).status = session'.status
    BY <2>1 DEF Ended, DeletePlan
  <2> QED
    BY <1>1, <2>1, <2>2, <2>3, PlanWorks, LedgerStep
<1>6. CASE PrepareSeal(w, now)
  <2> DEFINE s == Sealed(session)
  <2>1. /\ stored /\ stored' = stored /\ session.status \notin Terminal
        /\ session' = s /\ orphan' = Ledger(now)
        /\ StartDelete(w, now, DeletePlan(s.revision, s.status, Ledger(now)))
    BY <1>6 DEF PrepareSeal, Consistent
  <2>2. orphan' = orphan
    BY <1>1, <2>1, LedgerKept
  <2>3. /\ session'.status \in {"failed", "expired"}
        /\ session'.revision = session.revision + 1
        /\ session'.path = session.path /\ session'.etag = session.etag
    BY <1>1, <2>1, MovedFields DEF TypeOK, Sealed, SealStatus
  <2>4. Forward
    BY <2>1, <2>3, AdvanceForward
  <2>5. BlobForward
    BY <1>1 DEF BlobForward, blobVars
  <2>6. Ended' /\ DeletePlan(s.revision, s.status, Ledger(now)).status
                    = session'.status
    BY <2>1, <2>3 DEF Ended, Terminal, DeletePlan
  <2>7. \A v \in Workers : Working(v)'
    BY <1>1, <2>1, <2>4, <2>5, <2>6, PlanWorks, OthersWork
  <2>8. Shape' /\ LedgerMatchesRecord' /\ CommittedBlobPresent'
    BY <1>1, <2>1, <2>2, <2>3
       DEF IInv, Shape, LedgerMatchesRecord, CommittedBlobPresent, Processing
  <2>9. LedgerCoversCiphertext' /\ OnePath' /\ ReceiptFinal'
    BY <1>1, <2>1, <2>2, <2>3
       DEF IInv, LedgerCoversCiphertext, OnePath, ReceiptFinal, blobVars
  <2> QED
    BY <2>7, <2>8, <2>9 DEF IInv
<1> QED
  BY <1>2, <1>3, <1>4, <1>5, <1>6 DEF Prepare, PrepareCleanup

(* Past the preparation the session has ended, so nobody misses the blob. *)
LEMMA DeleteStep ==
    ASSUME Kept, NEW w \in Workers, DeleteBlob(w)
    PROVE  IInv'
<1> DEFINE plan == work[w].plan
<1>1. /\ work[w].pc = "delete"
      /\ UNCHANGED <<storeVars, putUntil, getUntil, late, receipt>>
      /\ TypeOK /\ IInv
      /\ work \in [Workers -> WorkRecord] /\ plan \in PlanRecord
      /\ blobs \in [Paths -> Etags \cup {None}]
      /\ Ended /\ (stored => plan.status = session.status)
  BY DEF DeleteBlob, Kept, IInv, Working, Cleaning, TypeOK, WorkRecord
<1>2. \A p \in Paths : blobs'[p] = blobs[p] \/ blobs'[p] = None
  BY <1>1 DEF DeleteBlob
<1>3. Forward
  <2>1. session.revision \in Nat
    BY <1>1 DEF TypeOK, SessionRecord
  <2> QED
    BY <1>1, <2>1 DEF Forward, Ended, storeVars
<1>4. BlobForward
  BY <1>1, <1>2 DEF BlobForward
<1>5. /\ \A v \in Workers \ {w} : work'[v] = work[v]
      /\ Working(w)'
  <2>1. CASE Finish(w)
    BY <1>1, <2>1, FinishWorks
  <2>2. CASE Goto(w, "receipt") /\ ~Finish(w)
    <3>1. /\ work'[w].pc = "receipt" /\ work'[w].plan = plan
          /\ \A v \in Workers \ {w} : work'[v] = work[v]
      BY <1>1, <2>2 DEF Goto, WorkRecord
    <3>2. plan.path # None => blobs'[plan.path] = None
      BY <1>1, <2>2 DEF DeleteBlob, PlanRecord
    <3> QED
      BY <1>1, <3>1, <3>2
         DEF Working, Committing, Headers, Signing, Cleaning, Ended, storeVars
  <2> QED
    BY <2>1, <2>2 DEF DeleteBlob
<1>6. \A v \in Workers : Working(v)'
  BY <1>3, <1>4, <1>5, OthersWork
<1>7. Shape' /\ LedgerMatchesRecord' /\ OnePath' /\ ReceiptFinal'
  BY <1>1
     DEF IInv, Shape, LedgerMatchesRecord, OnePath, ReceiptFinal, storeVars
<1>8. CommittedBlobPresent'
  BY <1>1 DEF CommittedBlobPresent, Ended, Terminal, Processing, storeVars
<1>9. LedgerCoversCiphertext'
  BY <1>1, <1>2 DEF IInv, LedgerCoversCiphertext, storeVars
<1> QED
  BY <1>6, <1>7, <1>8, <1>9 DEF IInv

LEMMA ReceiptStep ==
    ASSUME Kept, NEW w \in Workers, PutReceipt(w)
    PROVE  IInv'
<1> DEFINE plan == work[w].plan
<1>1. /\ work[w].pc = "receipt" /\ Goto(w, "finalize")
      /\ UNCHANGED <<storeVars, blobVars>>
      /\ receipt'.status = plan.status
      /\ TypeOK /\ IInv
      /\ work \in [Workers -> WorkRecord]
      /\ Ended /\ (stored => plan.status = session.status)
      /\ plan.path # None => blobs[plan.path] = None \/ plan.path \in late
  BY DEF PutReceipt, Kept, IInv, Working, Cleaning, TypeOK
<1>2. Forward
  <2>1. session.revision \in Nat
    BY <1>1 DEF TypeOK, SessionRecord
  <2> QED
    BY <1>1, <2>1 DEF Forward, Ended, storeVars
<1>3. BlobForward
  BY <1>1 DEF BlobForward, blobVars
<1>4. /\ \A v \in Workers \ {w} : work'[v] = work[v]
      /\ Working(w)'
  <2>1. /\ work'[w].pc = "finalize" /\ work'[w].plan = plan
        /\ \A v \in Workers \ {w} : work'[v] = work[v]
    BY <1>1 DEF Goto, WorkRecord
  <2> QED
    BY <1>1, <2>1
       DEF Working, Committing, Headers, Signing, Cleaning, Ended, storeVars,
           blobVars
<1>5. \A v \in Workers : Working(v)'
  BY <1>2, <1>3, <1>4, OthersWork
<1>6. /\ Shape' /\ LedgerMatchesRecord' /\ OnePath' /\ CommittedBlobPresent'
      /\ LedgerCoversCiphertext'
  BY <1>1
     DEF IInv, Shape, LedgerMatchesRecord, OnePath, CommittedBlobPresent,
         LedgerCoversCiphertext, storeVars, blobVars
<1>7. ReceiptFinal'
  BY <1>1 DEF ReceiptFinal, Ended, storeVars
<1> QED
  BY <1>5, <1>6, <1>7 DEF IInv

(* The entry that is cleared is the plan's, whose path is empty by then.   *)
LEMMA FinalizeStep ==
    ASSUME Kept, NEW w \in Workers, FinalizeCleanup(w)
    PROVE  IInv'
<1> DEFINE plan == work[w].plan
<1>1. /\ work[w].pc = "finalize" /\ Finish(w)
      /\ UNCHANGED <<session, blobVars, receipt>>
      /\ TypeOK /\ IInv /\ Ended
      /\ plan.path # None => blobs[plan.path] = None \/ plan.path \in late
  BY DEF FinalizeCleanup, Kept, IInv, Working, Cleaning
<1>2. CASE UNCHANGED <<stored, evictAt, orphan>>
  <2>1. UNCHANGED <<storeVars, blobVars, receipt>>
    BY <1>1, <1>2 DEF storeVars
  <2> QED
    BY <1>1, <2>1, FinishWorks, QuietStep
<1>3. CASE MayFinalize(plan) /\ stored' = FALSE /\ orphan' = NoOrphan
  <2>1. Forward
    <3>1. session.revision \in Nat
      BY <1>1 DEF TypeOK, SessionRecord
    <3> QED
      BY <1>1, <1>3, <3>1 DEF Forward, Ended
  <2>2. BlobForward
    BY <1>1 DEF BlobForward, blobVars
  <2>3. \A v \in Workers : Working(v)'
    BY <1>1, <2>1, <2>2, FinishWorks, OthersWork
  <2>4. /\ Shape' /\ LedgerMatchesRecord' /\ OnePath' /\ CommittedBlobPresent'
        /\ ReceiptFinal'
    BY <1>1, <1>3
       DEF IInv, Shape, LedgerMatchesRecord, OnePath, CommittedBlobPresent,
           ReceiptFinal, blobVars
  <2>5. LedgerCoversCiphertext'
    <3> SUFFICES ASSUME NEW p \in Paths, blobs[p] # None
                 PROVE  p \in late
      BY <1>1 DEF LedgerCoversCiphertext, blobVars
    <3>1. CASE orphan.path = p
      <4>1. p # None
        BY NoneAssumption DEF Paths
      <4>2. plan.path = p
        BY <1>3, <3>1, <4>1 DEF MayFinalize
      <4> QED
        BY <1>1, <4>1, <4>2
    <3> QED
      BY <1>1, <3>1 DEF IInv, LedgerCoversCiphertext
  <2> QED
    BY <2>3, <2>4, <2>5 DEF IInv
<1> QED
  BY <1>2, <1>3 DEF FinalizeCleanup

---------------------------------------------------------------------------
(* Time *)

LEMMA TickStep ==
    ASSUME Kept, Tick
    PROVE  IInv'
<1>1. /\ stored' => stored
      /\ receipt' = receipt \/ receipt'.status = "none"
      /\ UNCHANGED <<session, orphan, blobVars, work>>
      /\ TypeOK /\ IInv
  BY DEF Tick, NoReceipt, Kept
<1>2. Forward
  <2>1. session.revision \in Nat
    BY <1>1 DEF TypeOK, SessionRecord
  <2> QED
    BY <1>1, <2>1 DEF Forward, Ended
<1>3. BlobForward
  BY <1>1 DEF BlobForward, blobVars
<1>4. \A v \in Workers : Working(v)'
  BY <1>1, <1>2, <1>3, OtherWorks DEF Kept, IInv
<1>5. /\ Shape' /\ LedgerMatchesRecord' /\ OnePath' /\ CommittedBlobPresent'
      /\ LedgerCoversCiphertext' /\ ReceiptFinal'
  BY <1>1
     DEF IInv, Shape, LedgerMatchesRecord, OnePath, CommittedBlobPresent,
         LedgerCoversCiphertext, ReceiptFinal, blobVars
<1> QED
  BY <1>4, <1>5 DEF IInv

---------------------------------------------------------------------------
(* The theorems *)

LEMMA InitSafe == Init => IInv
<1> SUFFICES ASSUME Init PROVE IInv
  OBVIOUS
<1>1. /\ session = Fresh /\ orphan = NoOrphan /\ receipt = NoReceipt
      /\ blobs = [p \in Paths |-> None] /\ putUntil = [p \in Paths |-> 0]
      /\ work = [w \in Workers |-> Idle]
  BY DEF Init
<1>2. ASSUME NEW w \in Workers
      PROVE  Working(w)
  BY <1>1 DEF Idle, Working, Committing, Headers, Signing, Cleaning
<1>3. /\ Shape /\ LedgerMatchesRecord /\ CommittedBlobPresent /\ ReceiptFinal
  BY <1>1 DEF Fresh, NoOrphan, NoReceipt, Shape, LedgerMatchesRecord,
              CommittedBlobPresent, ReceiptFinal, Processing
<1>4. LedgerCoversCiphertext /\ OnePath
  BY <1>1 DEF LedgerCoversCiphertext, OnePath
<1> QED
  BY <1>2, <1>3, <1>4 DEF IInv

LEMMA NextSafe == Kept /\ [Next]_vars => IInv'
<1> SUFFICES ASSUME Kept, [Next]_vars PROVE IInv'
  OBVIOUS
<1>1. ASSUME NEW r \in Requests, (\E c \in Calls : Call(r, c)) \/ Handle(r)
      PROVE  IInv'
  BY <1>1, RequestSteps, CommitStep, AuthorizeStep, UploadedStep, SignSteps
     DEF Handle
<1>2. ASSUME NEW w \in Workers,
             \/ TargetedCleanup(w) \/ Sweep(w) \/ ForcedCleanup(w) \/ Fail(w)
      PROVE  IInv'
  <2>1. /\ clock \in Nat
        /\ Larger(clock, Larger(session.expiresAt, session.lease)) \in Nat
    BY DEF Kept, TypeOK, SessionRecord, Larger
  <2> QED
    BY <1>2, <2>1, BeginSteps DEF TargetedCleanup, Sweep, ForcedCleanup
<1>3. ASSUME NEW w \in Workers, Clean(w)
      PROVE  IInv'
  BY <1>3, PrepareStep, DeleteStep, ReceiptStep, FinalizeStep DEF Clean
<1>4. ASSUME NEW p \in Paths, NEW e \in Etags, Put(p, e)
      PROVE  IInv'
  BY <1>4, PutStep
<1>5. CASE Tick
  BY <1>5, TickStep
<1>6. CASE UNCHANGED vars
  <2>1. UNCHANGED <<storeVars, blobVars, receipt, work>>
    BY <1>6 DEF vars, storeVars, blobVars
  <2>2. Forward /\ BlobForward
    <3>1. session.revision \in Nat
      BY DEF Kept, TypeOK, SessionRecord
    <3> QED
      BY <2>1, <3>1 DEF Forward, BlobForward, Ended, storeVars, blobVars
  <2>3. \A v \in Workers : Working(v)'
    BY <2>1, <2>2, OtherWorks DEF Kept, IInv
  <2> QED
    BY <2>1, <2>3
       DEF Kept, IInv, Shape, LedgerMatchesRecord, LedgerCoversCiphertext,
           CommittedBlobPresent, OnePath, ReceiptFinal, storeVars, blobVars
<1>7. Sweepers \subseteq Workers /\ Admins \subseteq Workers
  BY NoneAssumption DEF Workers
<1> QED
  BY <1>1, <1>2, <1>3, <1>4, <1>5, <1>6, <1>7 DEF Next

(* The strengthening holds in every reachable state: handlers that read    *)
(* long ago, duplicated cleanups, crashes and evictions included.          *)
THEOREM SafetyInvariant == Spec => []IInv
<1>1. TypeOK /\ TypeOK' /\ IInv /\ [Next]_vars => IInv'
  BY NextSafe DEF Kept
<1> QED
  BY <1>1, InitSafe, TypeInvariant, PTL DEF Spec

(* Every ciphertext that was PUT before its session ended is named by the  *)
(* orphan ledger for as long as it is in the blob store.                   *)
THEOREM LedgerCovers == Spec => []LedgerCoversCiphertext
<1>1. IInv => LedgerCoversCiphertext
  BY DEF IInv
<1> QED
  BY <1>1, SafetyInvariant, PTL

(* The ledger entry and the record never disagree, so PREPARE_CLEANUP's    *)
(* "conflict" and its rebuilding of the entry are dead code.               *)
THEOREM LedgerMatches == Spec => []LedgerMatchesRecord
<1>1. IInv => LedgerMatchesRecord
  BY DEF IInv
<1> QED
  BY <1>1, SafetyInvariant, PTL

(* The ciphertext of a session that is uploaded or at the kiosk is there.  *)
THEOREM BlobPresent == Spec => []CommittedBlobPresent
<1>1. IInv => CommittedBlobPresent
  BY DEF IInv
<1> QED
  BY <1>1, SafetyInvariant, PTL

(* A receipt and the record it was made from name the same outcome.        *)
THEOREM ReceiptsAgree == Spec => []ReceiptAgrees
<1>1. IInv => ReceiptAgrees
  BY DEF IInv, ReceiptFinal, ReceiptAgrees
<1> QED
  BY <1>1, SafetyInvariant, PTL

---------------------------------------------------------------------------
(* Only an administrator's cleanup runs ahead of the clock. *)

Timely == \A w \in Workers \ Admins :
              work[w].pc = "cleanup" => work[w].now <= clock

(* A step leaves a worker as it is, starts its cleanup at the clock, or    *)
(* takes it somewhere else.                                                *)
LEMMA NextTimely == TypeOK /\ Timely /\ [Next]_vars => Timely'
<1> SUFFICES ASSUME TypeOK, Timely, [Next]_vars,
                    NEW v \in Workers \ Admins, work'[v].pc = "cleanup"
             PROVE  work'[v].now <= clock'
  BY DEF Timely
<1> DEFINE Keeps == \/ work'[v] = work[v]
                    \/ work'[v].pc # "cleanup" \/ work'[v].now = clock
<1>1. work \in [Workers -> WorkRecord] /\ clock \in Nat
  BY DEF TypeOK
<1>2. /\ Workers = Requests \cup Sweepers /\ Admins \subseteq Sweepers
      /\ Requests \cap Sweepers = {}
  BY NoneAssumption DEF Workers
<1>3. ASSUME NEW w \in Workers, Finish(w)
      PROVE  Keeps
  BY <1>1, <1>3 DEF Finish, Idle
<1>4. ASSUME NEW r \in Requests, NEW c, NEW now, NEW n, Read(r, c, now, n)
      PROVE  Keeps
  <2>1. CASE Finish(r)
    BY <1>2, <1>3, <2>1
  <2>2. CASE work' = [work EXCEPT ![r] =
                [Idle EXCEPT !.pc = "answer", !.call = c, !.now = now,
                             !.snap = session]]
    BY <1>1, <2>2 DEF Idle
  <2>3. CASE work' = [work EXCEPT ![r] =
                [Idle EXCEPT !.pc = "commit", !.call = c, !.now = now,
                             !.snap = session, !.tries = n]]
    BY <1>1, <2>3 DEF Idle
  <2> QED
    BY <1>4, <2>1, <2>2, <2>3 DEF Read
<1>5. ASSUME NEW r \in Requests, (\E c \in Calls : Call(r, c)) \/ Handle(r)
      PROVE  Keeps /\ clock' = clock
  <2>1. CASE (\E c \in Calls : Call(r, c)) \/ Retry(r)
    BY <1>2, <1>3, <1>4, <2>1 DEF Call, Retry
  <2>2. CASE AuthorizeUpload(r) \/ MarkUploaded(r) \/ SignPut(r) \/ SignGet(r)
    <3>1. Finish(r) \/ work' = [work EXCEPT ![r].pc = "answer",
              ![r].snap = AuthorizeUpdate(work[r].snap, r), ![r].tries = 0]
      BY <2>2 DEF AuthorizeUpload, MarkUploaded, SignPut, SignGet
    <3>2. Keeps
      BY <1>1, <1>2, <1>3, <3>1 DEF WorkRecord
    <3> QED
      BY <2>2, <3>2 DEF AuthorizeUpload, MarkUploaded, SignPut, SignGet
  <2>3. CASE Commit(r)
    <3> DEFINE u == Update(work[r].snap, work[r].call, work[r].now)
    <3>1. \/ Finish(r)
          \/ work' = [work EXCEPT ![r] =
                        [Idle EXCEPT !.pc = "cleanup", !.now = clock]]
          \/ work' = [work EXCEPT ![r].pc = "answer", ![r].snap = u,
                                  ![r].tries = 0]
      BY <2>3 DEF Commit
    <3> HIDE DEF u
    <3>2. ASSUME work' = [work EXCEPT ![r] =
                            [Idle EXCEPT !.pc = "cleanup", !.now = clock]]
          PROVE  Keeps
      BY <1>1, <3>2 DEF Idle
    <3>3. ASSUME work' = [work EXCEPT ![r].pc = "answer", ![r].snap = u,
                                      ![r].tries = 0]
          PROVE  Keeps
      BY <1>1, <1>2, <3>3 DEF WorkRecord
    <3>4. Keeps
      BY <1>2, <1>3, <3>1, <3>2, <3>3
    <3> QED
      BY <2>3, <3>4 DEF Commit
  <2> QED
    BY <1>5, <2>1, <2>2, <2>3 DEF Handle
<1>6. ASSUME NEW w \in Workers, Clean(w) \/ Fail(w)
      PROVE  Keeps /\ clock' = clock
  <2>1. \/ Finish(w)
        \/ \E plan : StartDelete(w, work[w].now, plan)
        \/ Goto(w, "receipt") \/ Goto(w, "finalize")
    BY <1>6 DEF Clean, Fail, Prepare, PrepareCleanup, PrepareAbsent,
                PrepareConflict, PrepareDefer, PrepareSeal, PrepareEnded,
                DeleteBlob, PutReceipt, FinalizeCleanup
  <2>2. Keeps
    BY <1>1, <1>3, <2>1 DEF StartDelete, Goto, Idle, WorkRecord
  <2> QED
    BY <1>6, <2>2 DEF Clean, Fail, Prepare, PrepareCleanup, DeleteBlob,
                      PutReceipt, FinalizeCleanup
<1>7. ASSUME NEW w \in Sweepers,
             TargetedCleanup(w) \/ Sweep(w) \/ (w \in Admins /\ ForcedCleanup(w))
      PROVE  Keeps /\ clock' = clock
  BY <1>1, <1>2, <1>7
     DEF TargetedCleanup, Sweep, ForcedCleanup, Begin, Idle
<1>8. (\E p \in Paths, e \in Etags : Put(p, e)) => work' = work /\ clock' = clock
  BY DEF Put
<1>9. Tick => work' = work /\ clock' = clock + 1
  BY DEF Tick
<1>10. UNCHANGED vars => work' = work /\ clock' = clock
  BY DEF vars
<1>11. (Keeps \/ work' = work) /\ (clock' = clock \/ clock' = clock + 1)
  BY <1>2, <1>5, <1>6, <1>7, <1>8, <1>9, <1>10 DEF Next
<1>12. work[v].pc = "cleanup" => work[v].now <= clock /\ work[v].now \in Nat
  BY <1>1 DEF Timely, WorkRecord
<1> QED
  BY <1>1, <1>11, <1>12

(* Nobody but an administrator ends a session before its deadline and, if  *)
(* the kiosk is at work on it, its lease have passed.                      *)
THEOREM SealsOnTime == Spec => NoEarlySeal
<1> DEFINE Seals ==
        \A w \in Workers \ Admins :
            Prepare(w) /\ session'.status # session.status =>
                /\ session.expiresAt <= clock
                /\ session.status \in Processing => session.lease <= clock
<1>1. Init => Timely
  BY DEF Init, Timely, Idle
<1>2. TypeOK /\ Timely => Seals
  <2> SUFFICES ASSUME TypeOK, Timely, NEW w \in Workers \ Admins, Prepare(w),
                      session'.status # session.status
               PROVE  /\ session.expiresAt <= clock
                      /\ session.status \in Processing => session.lease <= clock
    OBVIOUS
  <2>1. PrepareSeal(w, work[w].now)
    BY DEF Prepare, PrepareCleanup, PrepareAbsent, PrepareConflict,
           PrepareDefer, PrepareEnded, storeVars
  <2>2. /\ work[w].now <= clock /\ work[w].now \in Nat /\ clock \in Nat
        /\ session.expiresAt \in Nat /\ session.lease \in Nat
    BY DEF Prepare, Timely, TypeOK, WorkRecord, SessionRecord
  <2>3. /\ RetryAt(session) <= work[w].now
    BY <2>1 DEF PrepareSeal
  <2> QED
    BY <2>2, <2>3 DEF RetryAt, Larger
<1>3. TypeOK /\ Timely /\ [Next]_vars => Timely' /\ [Seals]_vars
  BY <1>2, NextTimely
<1> QED
  BY <1>1, <1>3, TypeInvariant, PTL DEF Spec, NoEarlySeal
---------------------------------------------------------------------------
(* Signed URLs *)

Unread == session.status \in {"waiting", "claimed", "upload_authorized",
                              "uploading", "uploaded"} => session.reader = None

(* A handler about to sign still knows the deadline, the reader and, until *)
(* the kiosk reports validation, the lease.                                *)
Knowing(w) ==
    work[w].pc = "answer" =>
        /\ work[w].call.kind = "authorizeUpload" =>
              work[w].snap.expiresAt = session.expiresAt
        /\ work[w].call.kind = "consume" =>
              /\ session.reader # None
              /\ work[w].snap.reader = session.reader
              /\ session.status = "consumed" =>
                    work[w].snap.lease = session.lease

Capable ==
    /\ Unread
    /\ CapabilitiesBelong
    /\ \A w \in Workers : Knowing(w)

(* The deadline is settled with the path, reader and lease by the consume. *)
Settling ==
    /\ session.path # None =>
          session'.path = session.path /\ session'.expiresAt = session.expiresAt
    /\ session.reader # None =>
          /\ session'.reader = session.reader
          /\ session'.status = "consumed" =>
                session.status = "consumed" /\ session'.lease = session.lease

LEMMA UpdateDeadline ==
    ASSUME NEW s \in SessionRecord, NEW c \in Calls, NEW now \in Nat,
           c.kind # "claim"
    PROVE  Update(s, c, now).expiresAt = s.expiresAt
<1>1. \A to \in Statuses : Moved(s, to) \in SessionRecord
                           /\ Moved(s, to).expiresAt = s.expiresAt
  BY MovedType DEF Moved, SessionRecord
<1>2. CASE c.kind = "consume"
  <2> DEFINE t == Moved(s, "consumed")
  <2>1. /\ t \in SessionRecord /\ t.expiresAt = s.expiresAt
        /\ Update(s, c, now) =
              [t EXCEPT !.reader = c.arg, !.lease = now + ConsumeLease]
    BY <1>1, <1>2 DEF Statuses, Update, ConsumeUpdate
  <2> HIDE DEF t
  <2> QED
    BY <2>1 DEF SessionRecord
<1>3. CASE c.kind = "transition"
  <2> DEFINE t == Moved(s, c.arg)
             n == IF c.arg \in {"validating", "printing"}
                    THEN now + ProcessingLease ELSE t.lease
  <2>1. /\ t \in SessionRecord /\ t.expiresAt = s.expiresAt
        /\ Update(s, c, now) = [t EXCEPT !.lease = n]
    BY <1>1, <1>3 DEF Calls, Statuses, Update, TransitionUpdate
  <2> HIDE DEF t, n
  <2> QED
    BY <2>1 DEF SessionRecord
<1>4. CASE c.kind \notin {"claim", "consume", "transition"}
  <2>1. Update(s, c, now) = Moved(s, Target(c)) /\ Target(c) \in Statuses
    BY <1>4 DEF Update, Calls, Target, Statuses
  <2> QED
    BY <1>1, <2>1
<1> QED
  BY <1>2, <1>3, <1>4

LEMMA SealedFields ==
    ASSUME NEW s \in SessionRecord
    PROVE  /\ Sealed(s).status \in {"failed", "expired"}
           /\ Sealed(s).path = s.path /\ Sealed(s).expiresAt = s.expiresAt
           /\ Sealed(s).reader = s.reader
<1>1. Sealed(s) = [[s EXCEPT !.status = SealStatus(s)] EXCEPT !.revision = @ + 1]
  BY DEF Sealed, Moved
<1> QED
  BY <1>1, MovedFields DEF Sealed, SealStatus, Moved, SessionRecord

(* Every script that writes the record settles it so. *)
LEMMA RecordSettles ==
    ASSUME Kept, Unread, [Next]_vars
    PROVE  Settling /\ Unread'
<1>1. session \in SessionRecord
  BY DEF Kept, TypeOK
<1>2. ASSUME session' = session
      PROVE  Settling /\ Unread'
  BY <1>2 DEF Settling, Unread
<1>3. ASSUME NEW r \in Requests, Commit(r)
      PROVE  Settling /\ Unread'
  <2> DEFINE c == work[r].call
             u == Update(session, c, work[r].now)
  <2>1. /\ work[r].pc = "commit" /\ Landed(r)
        /\ c.kind \notin {"authorizeUpload", "markUploaded"}
        /\ session' = Update(work[r].snap, c, work[r].now)
    BY <1>3 DEF Commit
  <2>2. /\ work[r].snap = session /\ c \in Calls /\ work[r].now \in Nat
        /\ CanTransition(session.status, Target(c))
    BY <2>1, LandedRecord
  <2>3. /\ session'.status = Target(c) /\ session'.path = session.path
        /\ session'.reader = IF c.kind = "consume" THEN c.arg ELSE session.reader
        /\ c.kind # "claim" => session'.expiresAt = session.expiresAt
    BY <1>1, <2>1, <2>2, UpdateFields, UpdateDeadline
  <2>4. c.kind = "claim" => session.status = "waiting"
    BY <2>2 DEF Target, CanTransition, Successors
  <2>5. Target(c) = "consumed" => session.status = "uploaded"
    BY <2>2 DEF CanTransition, Successors
  <2>6. c.kind = "consume" => Target(c) = "consumed"
    BY DEF Target
  <2>7. /\ session.status = "waiting" => session.path = None
        /\ session.status = "uploaded" => session.reader = None
    BY DEF Kept, IInv, Shape, Unread
  <2>8. Settling
    BY <2>3, <2>4, <2>5, <2>6, <2>7 DEF Settling
  <2>9. Target(c) \in {"waiting", "claimed", "upload_authorized", "uploading",
                       "uploaded"} =>
            session.status \in {"waiting", "claimed", "upload_authorized",
                                "uploading"}
    BY <2>2 DEF CanTransition, Successors
  <2> QED
    BY <2>3, <2>6, <2>8, <2>9 DEF Unread
<1>4. ASSUME NEW r \in Requests, AuthorizeUpload(r)
      PROVE  Settling /\ Unread'
  <2> DEFINE t == Moved(session, "upload_authorized")
  <2>1. /\ work[r].pc = "commit" /\ Landed(r)
        /\ work[r].call.kind = "authorizeUpload"
        /\ session' = session \/ session' = AuthorizeUpdate(work[r].snap, r)
    BY <1>4 DEF AuthorizeUpload, storeVars
  <2>2. /\ work[r].snap = session
        /\ CanTransition(session.status, "upload_authorized")
    BY <2>1, LandedRecord DEF Target
  <2>3. session.path = None /\ session.reader = None
    BY <2>2 DEF CanTransition, Successors, Kept, IInv, Shape, Unread
  <2>4. ASSUME session' = AuthorizeUpdate(session, r)
        PROVE  session'.reader = None
    <3>1. t \in SessionRecord /\ session' = [t EXCEPT !.path = r]
      BY <1>1, <2>4, MovedType DEF Statuses, AuthorizeUpdate
    <3>2. t.reader = session.reader
      BY <1>1, MovedFields
    <3> HIDE DEF t
    <3> QED
      BY <2>3, <3>1, <3>2 DEF SessionRecord
  <2> QED
    BY <1>2, <2>1, <2>2, <2>3, <2>4 DEF Settling, Unread
<1>5. ASSUME NEW r \in Requests, MarkUploaded(r)
      PROVE  Settling /\ Unread'
  <2> DEFINE t == Moved(session, "uploaded")
             c == work[r].call
  <2>1. /\ work[r].pc = "commit" /\ Landed(r) /\ c.kind = "markUploaded"
        /\ session' = session \/ session' = UploadedUpdate(work[r].snap, c)
    BY <1>5 DEF MarkUploaded, storeVars
  <2>2. /\ work[r].snap = session /\ CanTransition(session.status, "uploaded")
    BY <2>1, LandedRecord DEF Target
  <2>3. session.reader = None
    BY <2>2 DEF CanTransition, Successors, Unread
  <2>4. ASSUME session' = UploadedUpdate(session, c)
        PROVE  /\ session'.reader = None
               /\ session'.path = session.path
               /\ session'.expiresAt = session.expiresAt
    <3>1. t \in SessionRecord /\ session' = [t EXCEPT !.etag = c.arg]
      BY <1>1, <2>4, MovedType DEF Statuses, UploadedUpdate
    <3>2. t.reader = session.reader /\ t.path = session.path
      BY <1>1, MovedFields
    <3>3. t.expiresAt = session.expiresAt
      BY <1>1 DEF Moved, SessionRecord
    <3> HIDE DEF t
    <3> QED
      BY <2>3, <3>1, <3>2, <3>3 DEF SessionRecord
  <2> QED
    BY <1>2, <2>1, <2>2, <2>3, <2>4 DEF Settling, Unread
<1>6. ASSUME NEW w \in Workers, Clean(w)
      PROVE  Settling /\ Unread'
  <2>1. session' = session \/ session' = Sealed(session)
    BY <1>6 DEF Clean, Prepare, PrepareCleanup, PrepareAbsent, PrepareConflict,
                PrepareDefer, PrepareSeal, PrepareEnded, DeleteBlob, PutReceipt,
                FinalizeCleanup, storeVars
  <2>2. ASSUME session' = Sealed(session)
        PROVE  Settling /\ Unread'
    BY <1>1, <2>2, SealedFields DEF Settling, Unread
  <2> QED
    BY <1>2, <2>1, <2>2
<1>7. ASSUME NEW r \in Requests,
             \/ \E c \in Calls : Call(r, c)
             \/ Retry(r) \/ SignPut(r) \/ SignGet(r)
      PROVE  session' = session
  BY <1>7 DEF Call, Retry, SignPut, SignGet, storeVars
<1>8. ASSUME NEW w \in Workers,
             TargetedCleanup(w) \/ Sweep(w) \/ ForcedCleanup(w) \/ Fail(w)
      PROVE  session' = session
  BY <1>8 DEF TargetedCleanup, Sweep, ForcedCleanup, Begin, Fail, storeVars
<1>9. (\E p \in Paths, e \in Etags : Put(p, e)) \/ Tick \/ UNCHANGED vars =>
          session' = session
  BY DEF Put, Tick, vars, storeVars
<1>10. Sweepers \subseteq Workers /\ Admins \subseteq Workers
  BY NoneAssumption DEF Workers
<1> QED
  BY <1>2, <1>3, <1>4, <1>5, <1>6, <1>7, <1>8, <1>9, <1>10 DEF Next, Handle

LEMMA OtherKnows ==
    ASSUME Kept, Settling, NEW w \in Workers, work'[w] = work[w], Knowing(w)
    PROVE  Knowing(w)'
<1>1. Signing(w)
  BY DEF Kept, IInv, Working
<1> QED
  BY <1>1 DEF Knowing, Signing, Settling

LEMMA NotAnswering ==
    ASSUME NEW w \in Workers, work'[w].pc # "answer"
    PROVE  Knowing(w)'
BY DEF Knowing

(* A handler that answers has just read the record ... *)
LEMMA ReadKnows ==
    ASSUME Kept, NEW r \in Requests, NEW c \in Calls, NEW now, NEW n,
           Read(r, c, now, n), session' = session
    PROVE  /\ \A v \in Workers \ {r} : work'[v] = work[v]
           /\ Knowing(r)'
<1>1. work \in [Workers -> WorkRecord] /\ r \in Workers
  BY DEF Kept, TypeOK, Workers
<1>2. CASE Finish(r)
  BY <1>1, <1>2, NotAnswering DEF Finish, Idle
<1>3. CASE /\ Repeats(session, c, now)
           /\ work' = [work EXCEPT ![r] =
                [Idle EXCEPT !.pc = "answer", !.call = c, !.now = now,
                             !.snap = session]]
  <2>1. /\ work'[r].call = c /\ work'[r].snap = session
        /\ \A v \in Workers \ {r} : work'[v] = work[v]
    BY <1>1, <1>3 DEF Idle
  <2>2. c.kind = "consume" => session.reader # None
    BY <1>3, NoneAssumption DEF Repeats, Calls
  <2> QED
    BY <2>1, <2>2 DEF Knowing
<1>4. CASE work' = [work EXCEPT ![r] =
                [Idle EXCEPT !.pc = "commit", !.call = c, !.now = now,
                             !.snap = session, !.tries = n]]
  BY <1>1, <1>4, NotAnswering DEF Idle
<1> QED
  BY <1>2, <1>3, <1>4 DEF Read

(* ... or just written it. *)
LEMMA WriteKnows ==
    ASSUME Kept, NEW r \in Requests, Commit(r) \/ AuthorizeUpload(r)
    PROVE  /\ \A v \in Workers \ {r} : work'[v] = work[v]
           /\ Knowing(r)'
<1> DEFINE c == work[r].call
<1>1. work \in [Workers -> WorkRecord] /\ r \in Workers /\ session \in SessionRecord
  BY DEF Kept, TypeOK, Workers
<1>2. ASSUME NEW u, work' = [work EXCEPT ![r].pc = "answer", ![r].snap = u,
                                         ![r].tries = 0]
      PROVE  /\ \A v \in Workers \ {r} : work'[v] = work[v]
             /\ work'[r].call = c /\ work'[r].snap = u
  BY <1>1, <1>2 DEF WorkRecord
<1>3. CASE Finish(r)
  BY <1>1, <1>3, NotAnswering DEF Finish, Idle
<1>4. CASE work' = [work EXCEPT ![r] =
                      [Idle EXCEPT !.pc = "cleanup", !.now = clock]]
  BY <1>1, <1>4, NotAnswering DEF Idle
<1>5. ASSUME AuthorizeUpload(r), ~Finish(r)
      PROVE  /\ \A v \in Workers \ {r} : work'[v] = work[v]
             /\ Knowing(r)'
  <2>1. /\ c.kind = "authorizeUpload"
        /\ session' = AuthorizeUpdate(work[r].snap, r)
        /\ work' = [work EXCEPT ![r].pc = "answer",
              ![r].snap = AuthorizeUpdate(work[r].snap, r), ![r].tries = 0]
    BY <1>5 DEF AuthorizeUpload
  <2>2. /\ \A v \in Workers \ {r} : work'[v] = work[v]
        /\ work'[r].call = c /\ work'[r].snap = session'
    BY <1>2, <2>1
  <2> QED
    BY <2>1, <2>2 DEF Knowing
<1>6. ASSUME Commit(r), c.kind = "consume",
             work' = [work EXCEPT ![r].pc = "answer",
                        ![r].snap = Update(work[r].snap, c, work[r].now),
                        ![r].tries = 0]
      PROVE  /\ \A v \in Workers \ {r} : work'[v] = work[v]
             /\ Knowing(r)'
  <2>1. /\ work[r].pc = "commit" /\ Landed(r)
        /\ session' = Update(work[r].snap, c, work[r].now)
    BY <1>6 DEF Commit
  <2>2. work[r].snap = session /\ c \in Calls /\ work[r].now \in Nat
    BY <2>1, LandedRecord
  <2>3. session'.reader = c.arg /\ c.arg # None
    BY <1>1, <1>6, <2>1, <2>2, UpdateFields, NoneAssumption DEF Calls
  <2>4. /\ \A v \in Workers \ {r} : work'[v] = work[v]
        /\ work'[r].call = c /\ work'[r].snap = session'
    BY <1>2, <1>6, <2>1
  <2> QED
    BY <1>6, <2>3, <2>4 DEF Knowing
<1> QED
  BY <1>3, <1>4, <1>5, <1>6 DEF Commit, AuthorizeUpload

LEMMA WorkersKnow ==
    ASSUME Kept, Capable, Settling, [Next]_vars, NEW v \in Workers
    PROVE  Knowing(v)'
<1>1. work \in [Workers -> WorkRecord] /\ Requests \subseteq Workers
      /\ Sweepers \subseteq Workers /\ Admins \subseteq Workers
  BY NoneAssumption DEF Kept, TypeOK, Workers
<1>2. ASSUME work'[v] = work[v]
      PROVE  Knowing(v)'
  BY <1>2, OtherKnows DEF Capable
<1>3. ASSUME NEW w \in Workers, Finish(w)
      PROVE  Knowing(v)'
  BY <1>1, <1>2, <1>3, NotAnswering DEF Finish, Idle
<1>4. ASSUME NEW r \in Requests, (\E c \in Calls : Call(r, c)) \/ Retry(r)
      PROVE  Knowing(v)'
  <2>1. Finish(r) \/ \E c \in Calls : \E now, n : Read(r, c, now, n)
    <3>1. work[r].pc = "commit" => work[r].call \in Calls
      BY <1>1 DEF Kept, IInv, Working, Committing
    <3> QED
      BY <1>4, <3>1 DEF Call, Retry
  <2>2. session' = session
    BY <1>4 DEF Call, Retry, storeVars
  <2> QED
    BY <1>1, <1>2, <1>3, <2>1, <2>2, ReadKnows
<1>5. ASSUME NEW r \in Requests, Commit(r) \/ AuthorizeUpload(r)
      PROVE  Knowing(v)'
  BY <1>2, <1>5, WriteKnows
<1>6. ASSUME NEW r \in Requests, MarkUploaded(r) \/ SignPut(r) \/ SignGet(r)
      PROVE  Knowing(v)'
  BY <1>1, <1>3, <1>6 DEF MarkUploaded, SignPut, SignGet
<1>7. ASSUME NEW w \in Workers, Clean(w) \/ Fail(w)
      PROVE  Knowing(v)'
  <2>1. \/ Finish(w)
        \/ \E plan : StartDelete(w, work[w].now, plan)
        \/ Goto(w, "receipt") \/ Goto(w, "finalize")
    BY <1>7 DEF Clean, Fail, Prepare, PrepareCleanup, PrepareAbsent,
                PrepareConflict, PrepareDefer, PrepareSeal, PrepareEnded,
                DeleteBlob, PutReceipt, FinalizeCleanup
  <2>2. Finish(w) \/ work'[v] = work[v] \/ work'[v].pc # "answer"
    BY <1>1, <2>1 DEF StartDelete, Goto, Idle, WorkRecord
  <2> QED
    BY <1>2, <1>3, <2>2, NotAnswering
<1>8. ASSUME NEW w \in Sweepers,
             TargetedCleanup(w) \/ Sweep(w) \/ (w \in Admins /\ ForcedCleanup(w))
      PROVE  Knowing(v)'
  <2>1. work'[v] = work[v] \/ work'[v].pc # "answer"
    BY <1>1, <1>8 DEF TargetedCleanup, Sweep, ForcedCleanup, Begin, Idle
  <2> QED
    BY <1>2, <2>1, NotAnswering
<1>9. (\E p \in Paths, e \in Etags : Put(p, e)) \/ Tick \/ UNCHANGED vars =>
          work' = work
  BY DEF Put, Tick, vars
<1>10. Admins \subseteq Sweepers
  BY NoneAssumption
<1> QED
  BY <1>2, <1>4, <1>5, <1>6, <1>7, <1>8, <1>9, <1>10 DEF Next, Handle

LEMMA ClockAdvances ==
    ASSUME clock \in Nat, [Next]_vars
    PROVE  clock' \in Nat /\ clock <= clock'
<1>1. UNCHANGED clock \/ Tick
  BY DEF Next, Call, Handle, Commit, AuthorizeUpload, MarkUploaded, Retry,
         SignPut, SignGet, TargetedCleanup, Sweep, ForcedCleanup, Begin, Clean,
         Prepare, PrepareCleanup, DeleteBlob, PutReceipt, FinalizeCleanup,
         Fail, Put, vars
<1> QED
  BY <1>1 DEF Tick

(* A signature adds a URL within the deadline, or within the lease, but    *)
(* for the provider's rounding.                                            *)
LEMMA UrlsBelong ==
    ASSUME Kept, Capable, Settling, [Next]_vars
    PROVE  CapabilitiesBelong'
<1>1. /\ \A p \in Paths : putUntil[p] \in Nat
      /\ \A c \in Readers : getUntil[c] \in Nat
      /\ session \in SessionRecord /\ clock \in Nat
      /\ session.expiresAt \in Nat /\ session.lease \in Nat
      /\ None \notin Paths \cup Readers
  BY NoneAssumption DEF Kept, TypeOK, Paths, SessionRecord
<1>8. clock' \in Nat /\ clock <= clock'
  BY <1>1, ClockAdvances
<1>2. ASSUME putUntil' = putUntil
      PROVE  \A p \in Paths : putUntil'[p] > 0 =>
                 /\ session'.path = p
                 /\ WithinASecond(putUntil[p], session.expiresAt)'
  <2> SUFFICES ASSUME NEW p \in Paths, putUntil'[p] > 0
               PROVE  /\ session'.path = p
                      /\ WithinASecond(putUntil[p], session.expiresAt)'
    OBVIOUS
  <2>1. session.path = p /\ WithinASecond(putUntil[p], session.expiresAt)
    BY <1>2 DEF Capable, CapabilitiesBelong
  <2>2. session'.path = p /\ session'.expiresAt = session.expiresAt
    BY <1>1, <2>1 DEF Settling
  <2>3. clock' <= Larger(session.expiresAt, clock') /\ putUntil[p] \in Nat
    BY <1>1, <1>8 DEF Larger
  <2>4. putUntil'[p] <= Larger(session'.expiresAt, clock') + Second
    BY <1>1, <1>2, <1>8, <2>1, <2>2, <2>3, BoundAssumption
       DEF WithinASecond, Larger
  <2> QED
    BY <2>2, <2>4 DEF WithinASecond
<1>3. ASSUME getUntil' = getUntil
      PROVE  \A c \in Readers : getUntil'[c] > 0 =>
                 /\ session'.reader = c
                 /\ session'.status = "consumed" =>
                        WithinASecond(getUntil[c], session.lease)'
  <2> SUFFICES ASSUME NEW c \in Readers, getUntil'[c] > 0
               PROVE  /\ session'.reader = c
                      /\ session'.status = "consumed" =>
                             WithinASecond(getUntil[c], session.lease)'
    OBVIOUS
  <2>1. /\ session.reader = c
        /\ session.status = "consumed" => WithinASecond(getUntil[c], session.lease)
    BY <1>3 DEF Capable, CapabilitiesBelong
  <2>2. /\ session'.reader = c
        /\ session'.status = "consumed" =>
              session.status = "consumed" /\ session'.lease = session.lease
    BY <1>1, <2>1 DEF Settling
  <2>3. ASSUME session'.status = "consumed"
        PROVE  getUntil'[c] <= Larger(session'.lease, clock') + Second
    BY <1>1, <1>3, <1>8, <2>1, <2>2, <2>3, BoundAssumption
       DEF WithinASecond, Larger
  <2> QED
    BY <2>2, <2>3 DEF WithinASecond
<1>4. ASSUME NEW r \in Requests, SignPut(r)
      PROVE  CapabilitiesBelong'
  <2> DEFINE s == work[r].snap
             until == Signed(SignedExpiry(session.expiresAt))
  <2>1. /\ work[r].pc = "answer" /\ work[r].call.kind = "authorizeUpload"
        /\ putUntil' = [putUntil EXCEPT ![s.path] =
                          Larger(@, Signed(SignedExpiry(s.expiresAt)))]
        /\ getUntil' = getUntil /\ session' = session /\ clock' = clock
    BY <1>4 DEF SignPut, storeVars
  <2>2. r \in Workers /\ Signing(r) /\ Knowing(r)
    BY DEF Workers, Kept, IInv, Working, Capable
  <2>3. s.path = session.path /\ s.expiresAt = session.expiresAt
    BY <2>1, <2>2 DEF Signing, Knowing
  <2>4. putUntil \in [Paths -> Nat]
    BY DEF Kept, TypeOK
  <2>5. until <= Larger(session.expiresAt, clock) + Second /\ until \in Nat
    <3>1. /\ SignedExpiry(session.expiresAt) \in Nat
          /\ SignedExpiry(session.expiresAt) <= session.expiresAt
      BY <1>1, TtlAssumption DEF SignedExpiry, Smaller
    <3>2. /\ until \in Nat
          /\ until <= Larger(SignedExpiry(session.expiresAt), clock) + Second
      BY <1>1, <3>1, SignedBound DEF WithinASecond
    <3> HIDE DEF until
    <3> QED
      BY <1>1, <3>1, <3>2, BoundAssumption DEF Larger
  <2>6. ASSUME NEW p \in Paths, putUntil'[p] > 0
        PROVE  /\ session'.path = p
               /\ putUntil'[p] <= Larger(session'.expiresAt, clock') + Second
    <3>1. CASE p # session.path
      BY <2>1, <2>3, <2>4, <2>6, <3>1 DEF Capable, CapabilitiesBelong
    <3>2. CASE p = session.path
      <4>1. putUntil'[p] = Larger(putUntil[p], until)
        BY <2>1, <2>3, <2>4, <3>2
      <4>2. putUntil[p] > 0 =>
                putUntil[p] <= Larger(session.expiresAt, clock) + Second
        BY DEF Capable, CapabilitiesBelong, WithinASecond
      <4>3. putUntil'[p] \in {putUntil[p], until}
        BY <4>1 DEF Larger
      <4> HIDE DEF until
      <4>4. putUntil'[p] <= Larger(session.expiresAt, clock) + Second
        BY <2>5, <2>6, <4>2, <4>3
      <4> QED
        BY <2>1, <3>2, <4>4
    <3> QED
      BY <3>1, <3>2
  <2> QED
    BY <1>3, <2>1, <2>6 DEF CapabilitiesBelong, WithinASecond
<1>5. ASSUME NEW r \in Requests, SignGet(r)
      PROVE  CapabilitiesBelong'
  <2> DEFINE s == work[r].snap
             lease == Smaller(s.lease, work[r].now + ConsumeLease)
             until == Signed(lease)
  <2>1. /\ work[r].pc = "answer" /\ work[r].call.kind = "consume"
        /\ getUntil' = [getUntil EXCEPT ![s.reader] = Larger(@, until)]
        /\ putUntil' = putUntil /\ session' = session /\ clock' = clock
    BY <1>5 DEF SignGet, storeVars
  <2>2. r \in Workers /\ Knowing(r) /\ work[r] \in WorkRecord
    BY DEF Workers, Kept, TypeOK, Capable
  <2>3. /\ s.reader = session.reader
        /\ session.status = "consumed" => s.lease = session.lease
    BY <2>1, <2>2 DEF Knowing
  <2>4. getUntil \in [Readers -> Nat]
    BY DEF Kept, TypeOK
  <2>5. until \in Nat /\ until <= Larger(s.lease, clock) + Second
    <3>1. s.lease \in Nat /\ lease \in Nat /\ lease <= s.lease
      BY <2>2, TtlAssumption DEF SessionRecord, WorkRecord, Smaller
    <3> HIDE DEF lease
    <3>2. until \in Nat /\ until <= Larger(lease, clock) + Second
      BY <1>1, <3>1, SignedBound DEF WithinASecond
    <3> HIDE DEF until
    <3> QED
      BY <1>1, <3>1, <3>2, BoundAssumption DEF Larger
  <2> HIDE DEF until
  <2>6. ASSUME NEW c \in Readers, getUntil'[c] > 0
        PROVE  /\ session'.reader = c
               /\ session'.status = "consumed" =>
                      getUntil'[c] <= Larger(session'.lease, clock') + Second
    <3>1. CASE c # session.reader
      BY <2>1, <2>3, <2>4, <2>6, <3>1 DEF Capable, CapabilitiesBelong
    <3>2. CASE c = session.reader
      <4>1. getUntil'[c] \in {getUntil[c], until}
        BY <2>1, <2>3, <2>4, <3>2 DEF Larger
      <4>2. session.status = "consumed" /\ getUntil[c] > 0 =>
                getUntil[c] <= Larger(session.lease, clock) + Second
        BY DEF Capable, CapabilitiesBelong, WithinASecond
      <4> QED
        BY <2>1, <2>3, <2>5, <2>6, <3>2, <4>1, <4>2
    <3> QED
      BY <3>1, <3>2
  <2> QED
    BY <1>2, <2>1, <2>6 DEF CapabilitiesBelong, WithinASecond
<1>6. \/ UNCHANGED <<putUntil, getUntil>>
      \/ \E r \in Requests : SignPut(r) \/ SignGet(r)
  BY DEF Next, Call, Handle, Commit, AuthorizeUpload, MarkUploaded, Retry,
         TargetedCleanup, Sweep, ForcedCleanup, Begin, Clean, Prepare,
         PrepareCleanup, DeleteBlob, PutReceipt, FinalizeCleanup, Fail, Put,
         Tick, vars, blobVars
<1>7. ASSUME UNCHANGED <<putUntil, getUntil>>
      PROVE  CapabilitiesBelong'
  BY <1>2, <1>3, <1>7 DEF CapabilitiesBelong
<1> QED
  BY <1>4, <1>5, <1>6, <1>7

LEMMA InitCapable == Init => Capable
BY DEF Init, Fresh, Idle, Capable, Unread, CapabilitiesBelong, Knowing

LEMMA NextCapable == Kept /\ Capable /\ [Next]_vars => Capable'
BY RecordSettles, WorkersKnow, UrlsBelong DEF Capable

(* Every signed URL in existence is for the authorised path and outlives   *)
(* the deadline by a second of the provider at most, or it is for the one  *)
(* reader and, until the kiosk reports, does the same to its lease: a      *)
(* handler that answers late signs nothing else, whatever the rounding.    *)
THEOREM UrlsAreBound == Spec => []CapabilitiesBelong
<1>1. /\ TypeOK /\ TypeOK' /\ IInv /\ Capable /\ [Next]_vars => Capable'
      /\ Capable => CapabilitiesBelong
  BY NextCapable DEF Kept, Capable
<1> QED
  BY <1>1, InitCapable, SafetyInvariant, TypeInvariant, PTL DEF Spec

---------------------------------------------------------------------------
(* The Redis store implements PrintSession: each script that lands is one  *)
(* abstract step, and everything else a handler, a cleanup, the clock or a *)
(* crash does is a stutter.                                                *)

LEMMA InitRefines == Init => Lifecycle!Init
BY DEF Init, Fresh, Lifecycle!Init

LEMMA CommitRefines ==
    ASSUME Kept, NEW r \in Requests, Commit(r)
    PROVE  Lifecycle!Next
<1> DEFINE c == work[r].call
           u == Update(work[r].snap, c, work[r].now)
<1>1. /\ work[r].pc = "commit" /\ Landed(r)
      /\ c.kind \notin {"authorizeUpload", "markUploaded"}
      /\ session' = u
  BY DEF Commit
<1>2. /\ session \in SessionRecord /\ work[r].snap = session
      /\ c \in Calls /\ work[r].now \in Nat
      /\ CanTransition(session.status, Target(c))
  BY <1>1, LandedRecord
<1>3. /\ session'.status = Target(c) /\ session'.etag = session.etag
      /\ session'.phone = IF c.kind = "claim" THEN c.by ELSE session.phone
      /\ session'.reader = IF c.kind = "consume" THEN c.arg ELSE session.reader
  BY <1>1, <1>2, UpdateFields
<1>4. Lifecycle!CanTransition(session.status, Target(c))
  BY <1>2 DEF CanTransition, Successors, Lifecycle!CanTransition, Lifecycle!Successors
<1>5. CASE c.kind = "claim"
  <2>1. c.by \in Phones /\ Target(c) = "claimed"
    BY <1>2, <1>5 DEF Calls, Target
  <2>2. Lifecycle!Claim(c.by)
    BY <1>3, <1>4, <1>5, <2>1 DEF Lifecycle!Claim
  <2> QED
    BY <2>1, <2>2 DEF Lifecycle!Next
<1>6. CASE c.kind = "consume"
  <2>1. c.arg \in Readers /\ Target(c) = "consumed"
    BY <1>2, <1>6 DEF Calls, Target
  <2>2. Lifecycle!Consume(c.arg)
    BY <1>3, <1>4, <1>6, <2>1 DEF Lifecycle!Consume
  <2> QED
    BY <2>1, <2>2 DEF Lifecycle!Next
<1>7. CASE c.kind \notin {"claim", "consume"}
  <2>1. /\ Target(c) \notin {"claimed", "uploaded", "consumed"}
        /\ Target(c) \in Lifecycle!Statuses
    BY <1>1, <1>2, <1>7 DEF Calls, Target, Lifecycle!Statuses
  <2>2. Lifecycle!Advance(Target(c))
    BY <1>3, <1>4, <1>7, <2>1 DEF Lifecycle!Advance
  <2> QED
    BY <2>1, <2>2 DEF Lifecycle!Next
<1> QED
  BY <1>5, <1>6, <1>7

LEMMA AuthorizeRefines ==
    ASSUME Kept, NEW r \in Requests, AuthorizeUpload(r)
    PROVE  Lifecycle!Next
<1> DEFINE t == Moved(session, "upload_authorized")
<1>1. /\ work[r].pc = "commit" /\ Landed(r)
      /\ work[r].call.kind = "authorizeUpload"
  BY DEF AuthorizeUpload
<1>2. /\ session \in SessionRecord /\ work[r].snap = session /\ stored
      /\ CanTransition(session.status, "upload_authorized")
  BY <1>1, LandedRecord DEF Target
<1>3. orphan.path = None
  BY <1>2 DEF CanTransition, Successors, Kept, IInv, Shape, LedgerMatchesRecord
<1>4. t \in SessionRecord /\ session' = [t EXCEPT !.path = r]
  BY <1>2, <1>3, MovedType DEF AuthorizeUpload, AuthorizeUpdate, Statuses
<1>5. /\ session'.status = "upload_authorized" /\ session'.etag = session.etag
      /\ session'.phone = session.phone /\ session'.reader = session.reader
  BY <1>2, <1>4, MovedFields DEF SessionRecord
<1>6. Lifecycle!CanTransition(session.status, "upload_authorized")
  BY <1>2 DEF CanTransition, Successors, Lifecycle!CanTransition, Lifecycle!Successors
<1>7. Lifecycle!Advance("upload_authorized")
  BY <1>5, <1>6 DEF Lifecycle!Advance
<1> QED
  BY <1>7 DEF Lifecycle!Next, Lifecycle!Statuses

LEMMA UploadedRefines ==
    ASSUME Kept, NEW r \in Requests, MarkUploaded(r)
    PROVE  Lifecycle!Next \/ UNCHANGED session
<1> DEFINE c == work[r].call
           t == Moved(session, "uploaded")
<1>1. work[r].pc = "commit" /\ Landed(r) /\ c.kind = "markUploaded"
  BY DEF MarkUploaded
<1>2. /\ session \in SessionRecord /\ work[r].snap = session /\ c \in Calls
      /\ CanTransition(session.status, "uploaded")
  BY <1>1, LandedRecord DEF Target
<1>3. CASE UNCHANGED storeVars
  BY <1>3 DEF storeVars
<1>4. CASE session' = UploadedUpdate(work[r].snap, c)
  <2>1. t \in SessionRecord /\ session' = [t EXCEPT !.etag = c.arg]
    BY <1>2, <1>4, MovedType DEF UploadedUpdate, Statuses
  <2>2. /\ session'.status = "uploaded" /\ session'.etag = c.arg
        /\ session'.phone = session.phone /\ session'.reader = session.reader
    BY <1>2, <2>1, MovedFields DEF SessionRecord
  <2>3. Lifecycle!CanTransition(session.status, "uploaded")
    BY <1>2 DEF CanTransition, Successors, Lifecycle!CanTransition, Lifecycle!Successors
  <2>4. c.arg \in Etags
    BY <1>1, <1>2 DEF Calls
  <2>5. Lifecycle!CommitUpload(c.arg)
    BY <2>2, <2>3 DEF Lifecycle!CommitUpload
  <2> QED
    BY <2>4, <2>5 DEF Lifecycle!Next
<1> QED
  BY <1>3, <1>4 DEF MarkUploaded

LEMMA PrepareRefines ==
    ASSUME Kept, NEW w \in Workers, Prepare(w)
    PROVE  Lifecycle!Next \/ UNCHANGED session
<1> DEFINE now == work[w].now
<1>1. CASE ~PrepareSeal(w, now)
  BY <1>1 DEF Prepare, PrepareCleanup, PrepareAbsent, PrepareConflict,
              PrepareDefer, PrepareEnded, storeVars
<1>2. CASE PrepareSeal(w, now)
  <2> DEFINE to == SealStatus(session)
  <2>1. /\ session \in SessionRecord /\ session' = Moved(session, to)
        /\ session.status \notin Terminal
    BY <1>2 DEF PrepareSeal, Sealed, Kept, TypeOK
  <2>2. /\ session'.status = to /\ session'.etag = session.etag
        /\ session'.phone = session.phone /\ session'.reader = session.reader
    BY <2>1, MovedFields
  <2>3. /\ Lifecycle!CanTransition(session.status, to)
        /\ to \in Lifecycle!Statuses /\ to \notin {"claimed", "uploaded", "consumed"}
    BY <2>1 DEF SealStatus, SessionRecord, Statuses, Terminal,
                Lifecycle!CanTransition, Lifecycle!Successors, Lifecycle!Statuses
  <2>4. Lifecycle!Advance(to)
    BY <2>2, <2>3 DEF Lifecycle!Advance
  <2> QED
    BY <2>3, <2>4 DEF Lifecycle!Next
<1> QED
  BY <1>1, <1>2

(* Every other step leaves the record alone. *)
LEMMA NextRefines == Kept /\ [Next]_vars => [Lifecycle!Next]_(Lifecycle!vars)
<1> SUFFICES ASSUME Kept, [Next]_vars
             PROVE  Lifecycle!Next \/ UNCHANGED session
  BY DEF Lifecycle!vars
<1>1. ASSUME NEW r \in Requests, (\E c \in Calls : Call(r, c)) \/ Handle(r)
      PROVE  Lifecycle!Next \/ UNCHANGED session
  <2>1. CASE Commit(r) \/ AuthorizeUpload(r) \/ MarkUploaded(r)
    BY <2>1, CommitRefines, AuthorizeRefines, UploadedRefines
  <2>2. CASE ~(Commit(r) \/ AuthorizeUpload(r) \/ MarkUploaded(r))
    BY <1>1, <2>2 DEF Handle, Call, Retry, SignPut, SignGet, storeVars
  <2> QED
    BY <2>1, <2>2
<1>2. ASSUME NEW w \in Workers,
             \/ TargetedCleanup(w) \/ Sweep(w) \/ ForcedCleanup(w)
             \/ Clean(w) \/ Fail(w)
      PROVE  Lifecycle!Next \/ UNCHANGED session
  <2>1. CASE Prepare(w)
    BY <2>1, PrepareRefines
  <2>2. CASE ~Prepare(w)
    BY <1>2, <2>2
       DEF TargetedCleanup, Sweep, ForcedCleanup, Begin, Clean, DeleteBlob,
           PutReceipt, FinalizeCleanup, Fail, storeVars
  <2> QED
    BY <2>1, <2>2
<1>3. ASSUME NEW p \in Paths, NEW e \in Etags, Put(p, e)
      PROVE  UNCHANGED session
  BY <1>3 DEF Put, storeVars
<1>4. CASE Tick \/ UNCHANGED vars
  BY <1>4 DEF Tick, vars
<1>5. Sweepers \subseteq Workers /\ Admins \subseteq Workers
  BY NoneAssumption DEF Workers
<1> QED
  BY <1>1, <1>2, <1>3, <1>4, <1>5 DEF Next

(* Whatever requests, cleanups, crashes and evictions interleave, the      *)
(* record goes through the published life cycle one step at a time, with   *)
(* one phone, one ciphertext and one reader.                               *)
THEOREM StoreImplementsLifecycle == Spec => LifecycleSpec
<1>1. TypeOK /\ TypeOK' /\ IInv /\ [Next]_vars
        => [Lifecycle!Next]_(Lifecycle!vars)
  BY NextRefines DEF Kept
<1> QED
  BY <1>1, InitRefines, TypeInvariant, SafetyInvariant, PTL
     DEF Spec, LifecycleSpec, Lifecycle!Spec

---------------------------------------------------------------------------
(* What the life cycle says of a document, for every number of phones,     *)
(* ciphertexts and kiosk reads.                                            *)

(* The statuses that imply an owner, and those that exclude a reader.      *)
Owned == {"claimed", "upload_authorized", "uploading", "uploaded",
          "completed"} \cup Lifecycle!Processing
NotRead == {"waiting", "claimed", "upload_authorized", "uploading", "uploaded",
           "cancelled"}

PromiseInv ==
    /\ Lifecycle!TypeOK
    /\ session.status = "waiting" <=>
           session.phone = None /\ session.status \notin Lifecycle!Terminal
    /\ session.status \in Owned => session.phone # None
    /\ session.status \in {"uploaded", "completed"} \cup Lifecycle!Processing =>
           session.etag # None
    /\ session.etag # None =>
           session.status \in {"uploaded"} \cup Lifecycle!Processing \cup Lifecycle!Terminal
    /\ session.status \in Lifecycle!Processing \cup {"completed"} => session.reader # None
    /\ session.status \in NotRead => session.reader = None

LEMMA InitPromise == Lifecycle!Init => PromiseInv
BY DEF Lifecycle!Init, PromiseInv, Lifecycle!TypeOK, Lifecycle!Statuses,
       Lifecycle!Terminal, Lifecycle!Processing, Owned, NotRead

LEMMA NextPromise == PromiseInv /\ [Lifecycle!Next]_(Lifecycle!vars) => PromiseInv'
<1> SUFFICES ASSUME PromiseInv, [Lifecycle!Next]_(Lifecycle!vars) PROVE PromiseInv'
  OBVIOUS
<1> USE NoneAssumption DEF PromiseInv, Lifecycle!TypeOK, Lifecycle!Statuses,
        Lifecycle!Terminal, Lifecycle!Processing, Owned, NotRead,
        Lifecycle!CanTransition, Lifecycle!Successors
<1>1. ASSUME NEW p \in Phones, Lifecycle!Claim(p) PROVE PromiseInv'
  BY <1>1 DEF Lifecycle!Claim
<1>2. ASSUME NEW e \in Etags, Lifecycle!CommitUpload(e) PROVE PromiseInv'
  BY <1>2 DEF Lifecycle!CommitUpload
<1>3. ASSUME NEW c \in Readers, Lifecycle!Consume(c) PROVE PromiseInv'
  BY <1>3 DEF Lifecycle!Consume
<1>4. ASSUME NEW to \in Lifecycle!Statuses, Lifecycle!Advance(to) PROVE PromiseInv'
  BY <1>4 DEF Lifecycle!Advance
<1>5. CASE UNCHANGED Lifecycle!vars
  BY <1>5 DEF Lifecycle!vars
<1> QED
  BY <1>1, <1>2, <1>3, <1>4, <1>5 DEF Lifecycle!Next

LEMMA PromiseInvariant == LifecycleSpec => []PromiseInv
BY InitPromise, NextPromise, PTL DEF LifecycleSpec, Lifecycle!Spec

(* A document is in a kiosk's hands only after one phone claimed the       *)
(* session and committed a ciphertext; a cancelled session was never read. *)
THEOREM CustodyKept == LifecycleSpec => []Custody
<1>1. PromiseInv => Custody
  BY DEF PromiseInv, Custody, Lifecycle!Custody, Owned, NotRead
<1> QED
  BY <1>1, PromiseInvariant, PTL

(* Terminal is final; phone, ciphertext and reader are settled once.       *)
THEOREM Settled == LifecycleSpec => SettledOnce
<1> DEFINE Settles ==
        /\ session.status \in Lifecycle!Terminal => (session.status)' = session.status
        /\ session.phone # None => (session.phone)' = session.phone
        /\ session.etag # None => (session.etag)' = session.etag
        /\ session.reader # None => (session.reader)' = session.reader
<1>1. PromiseInv /\ [Lifecycle!Next]_(Lifecycle!vars) => [Settles]_(Lifecycle!vars)
  <2> SUFFICES ASSUME PromiseInv, Lifecycle!Next PROVE Settles
    OBVIOUS
  <2> USE DEF PromiseInv, Lifecycle!TypeOK, Lifecycle!Terminal, Lifecycle!Processing,
          Owned, NotRead, Lifecycle!CanTransition, Lifecycle!Successors
  <2>1. ASSUME NEW p \in Phones, Lifecycle!Claim(p) PROVE Settles
    BY <2>1 DEF Lifecycle!Claim
  <2>2. ASSUME NEW e \in Etags, Lifecycle!CommitUpload(e) PROVE Settles
    BY <2>2 DEF Lifecycle!CommitUpload
  <2>3. ASSUME NEW c \in Readers, Lifecycle!Consume(c) PROVE Settles
    BY <2>3 DEF Lifecycle!Consume
  <2>4. ASSUME NEW to \in Lifecycle!Statuses, Lifecycle!Advance(to) PROVE Settles
    BY <2>4 DEF Lifecycle!Advance
  <2> QED
    BY <2>1, <2>2, <2>3, <2>4 DEF Lifecycle!Next
<1> QED
  BY <1>1, PromiseInvariant, PTL
  DEF LifecycleSpec, Lifecycle!Spec, SettledOnce, Lifecycle!SettledOnce

(* So a document the kiosk holds came from the one phone that claimed the  *)
(* session, and a cancelled session was never handed out.                  *)
THEOREM StoreKeepsCustody == Spec => []Custody
BY StoreImplementsLifecycle, CustodyKept

(* And no race revives a session, or gives it a second phone, ciphertext   *)
(* or reader.                                                              *)
THEOREM StoreSettles == Spec => SettledOnce
BY StoreImplementsLifecycle, Settled
===========================================================================
