--------------------------- MODULE SessionStore ---------------------------
(***************************************************************************)
(* One print session in the Redis store                                    *)
(* (apps/web/src/server/session-store/upstash.ts), the route handlers that *)
(* operate on it concurrently, the private blob that holds its ciphertext, *)
(* and the cleanup saga of server/runtime.ts.                              *)
(*                                                                         *)
(* A handler is not atomic.  It reads the clock once, GETs the record,     *)
(* computes the next one and sends it with a Lua script that compares the  *)
(* revision; other handlers, the sweeper, the clock and the key's TTL act  *)
(* in between, and the process may die between any two steps.  A cleanup   *)
(* is four calls: prepare, delete the blob, put the receipt, finalize.     *)
(*                                                                         *)
(* Session identifiers are random and never reused, so one session is      *)
(* enough: sessions share nothing but the due index, which is the order in *)
(* which the sweeper visits them.                                          *)
(***************************************************************************)
EXTENDS Integers, PrintSessionStatus

CONSTANTS
    Requests,         \* handlers of phone and kiosk requests, at a time
    Sweepers,         \* workers, callbacks and administrators that clean up
    Admins,           \* the sweepers that may force a cleanup
    Phones,           \* the phones that hold the QR link
    Readers,          \* the consume identifiers kiosks present
    Etags,            \* the ciphertexts a phone may PUT
    None,             \* absent phone, reader, ciphertext or path
    QrTtl,            \* lifetime of a waiting session
    SessionTtl,       \* lifetime from the claim
    UrlTtl,           \* longest life of a signed PUT URL
    Second,           \* what the provider counts a URL's life in; 0: exactly
    ConsumeLease,     \* lease of a consume
    ProcessingLease,  \* lease while validating or printing
    Retention,        \* how long the key outlives the deadline
    MinRetention,     \* the shortest TTL a key is written with
    ReceiptTtl,       \* lifetime of a receipt
    PutTime,          \* longest transfer of a PUT that was accepted in time
    MaxAttempts,      \* reads a handler makes before it gives up
    Lag,              \* bound: ticks from Date.now() to the reply of GET
    MaxClock,         \* bound: the clock stops here
    MaxFailures       \* bound: handlers that die or whose calls throw

Workers == Requests \cup Sweepers

(* A handler draws a fresh random blob path; at most one of them is ever   *)
(* stored, so a path is named after the handler that drew it.              *)
Paths == Requests

ASSUME TtlAssumption ==
    {QrTtl, SessionTtl, UrlTtl, ConsumeLease, ProcessingLease,
     Retention, MinRetention, ReceiptTtl} \subseteq Nat \ {0}

ASSUME BoundAssumption ==
    {Second, PutTime, MaxAttempts, Lag, MaxClock, MaxFailures} \subseteq Nat

ASSUME NoneAssumption ==
    /\ None \notin Requests \cup Sweepers \cup Phones \cup Readers \cup Etags
    /\ "kiosk" \notin Phones \cup {None}
    /\ Requests \cap Sweepers = {}
    /\ Admins \subseteq Sweepers

VARIABLES
    clock,      \* wall clock, in ticks
    session,    \* the record; after the key is gone, its last value
    stored,     \* the session key exists
    evictAt,    \* when Redis drops the key
    orphan,     \* the orphan ledger entry and its due time
    blobs,      \* the ciphertext at each path
    putUntil,   \* until when at most a signed PUT of each path is accepted
    getUntil,   \* until when at most each reader's signed GET is accepted
    late,       \* paths that were PUT after the session had ended
    receipt,    \* the receipt of the terminal status
    work,       \* what each worker is doing
    failures    \* failures so far

storeVars == <<session, stored, evictAt, orphan>>
blobVars == <<blobs, putUntil, getUntil, late>>
vars == <<clock, session, stored, evictAt, orphan, blobs, putUntil, getUntil,
          late, receipt, work, failures>>

Larger(a, b) == IF a >= b THEN a ELSE b
Smaller(a, b) == IF a <= b THEN a ELSE b

---------------------------------------------------------------------------
(* Records *)

SessionRecord ==
    [status : Statuses, revision : Nat, expiresAt : Nat, lease : Nat,
     phone : Phones \cup {None}, path : Paths \cup {None},
     etag : Etags \cup {None}, reader : Readers \cup {None}]

OrphanRecord ==
    [path : Paths \cup {None}, etag : Etags \cup {None}, dueAt : Nat]

ReceiptRecord == [status : Terminal \cup {"none"}, until : Nat]

(* The requests that reach the store.  The kiosk reports the four statuses *)
(* of kioskTransitionRequestSchema; upload/complete carries the etag that  *)
(* head() returned for the authorised path.                                *)
Calls ==
    [kind : {"claim", "authorizeUpload", "markUploading", "cancel"},
     by : Phones, arg : {None}]
    \cup [kind : {"markUploaded"}, by : Phones, arg : Etags]
    \cup [kind : {"consume"}, by : {"kiosk"}, arg : Readers]
    \cup [kind : {"transition"}, by : {"kiosk"},
          arg : {"validating", "printing", "completed", "failed"}]
    \cup [kind : {"cancel"}, by : {"kiosk"}, arg : {None}]

NoCall == [kind |-> "none", by |-> None, arg |-> None]

(* What prepareCleanup returns; revision -1 is the null of an absent       *)
(* session.                                                                *)
PlanRecord ==
    [path : Paths \cup {None}, etag : Etags \cup {None},
     revision : Nat \cup {-1}, status : Terminal \cup {"none"}]

WorkRecord ==
    [pc : {"idle", "commit", "answer", "cleanup", "delete", "receipt",
           "finalize"},
     call : Calls \cup {NoCall}, now : Nat, snap : SessionRecord, tries : Nat,
     plan : PlanRecord]

NoOrphan == [path |-> None, etag |-> None, dueAt |-> 0]
NoReceipt == [status |-> "none", until |-> 0]
NoPlan == [path |-> None, etag |-> None, revision |-> 0, status |-> "none"]

(* The record createPrintSession writes at clock 0. *)
Fresh ==
    [status |-> "waiting", revision |-> 0, expiresAt |-> QrTtl, lease |-> 0,
     phone |-> None, path |-> None, etag |-> None, reader |-> None]

Idle ==
    [pc |-> "idle", call |-> NoCall, now |-> 0, snap |-> Fresh, tries |-> 0,
     plan |-> NoPlan]

Init ==
    /\ clock = 0
    /\ session = Fresh
    /\ stored = TRUE
    /\ evictAt = QrTtl + Retention
    /\ orphan = NoOrphan
    /\ blobs = [p \in Paths |-> None]
    /\ putUntil = [p \in Paths |-> 0]
    /\ getUntil = [c \in Readers |-> 0]
    /\ late = {}
    /\ receipt = NoReceipt
    /\ work = [w \in Workers |-> Idle]
    /\ failures = 0

Finish(w) == work' = [work EXCEPT ![w] = Idle]
Goto(w, pc) == work' = [work EXCEPT ![w].pc = pc]

(* Instants at which a call that is answered now may have read the clock. *)
Recent == {t \in 0..clock : clock <= t + Lag}

---------------------------------------------------------------------------
(* The mutations, as functions from the record read to the record written *)

(* requireMutableSession *)
Mutable(s, now) ==
    \/ s.expiresAt > now
    \/ s.status \in Processing /\ s.lease > now

(* The token a call needs: anyone with the QR link may claim; the claiming *)
(* phone uploads; the kiosk consumes and reports; either of them cancels.  *)
Credential(s, c) ==
    \/ c.kind = "claim"
    \/ c.kind \in {"authorizeUpload", "markUploading", "markUploaded"}
       /\ c.by = s.phone
    \/ c.kind \in {"consume", "transition"} /\ c.by = "kiosk"
    \/ c.kind = "cancel" /\ c.by \in {"kiosk", s.phone}

(* The status a call moves the session to. *)
Target(c) ==
    CASE c.kind = "claim" -> "claimed"
      [] c.kind = "authorizeUpload" -> "upload_authorized"
      [] c.kind = "markUploading" -> "uploading"
      [] c.kind = "markUploaded" -> "uploaded"
      [] c.kind = "consume" -> "consumed"
      [] c.kind = "cancel" -> "cancelled"
      [] c.kind = "transition" -> c.arg
      [] OTHER -> "waiting"

(* assertTransition *)
Allowed(s, c) == CanTransition(s.status, Target(c))

(* The call was carried out before, under the same identifiers: the store *)
(* returns the record as it is.                                            *)
Repeats(s, c, now) ==
    \/ c.kind = "claim" /\ s.status = "claimed" /\ s.phone = c.by
    \/ c.kind = "authorizeUpload" /\ s.status = "upload_authorized"
    \/ c.kind = "markUploading" /\ s.status = "uploading"
    \/ c.kind = "markUploaded" /\ s.status = "uploaded" /\ s.etag = c.arg
    \/ c.kind = "consume" /\ s.status = "consumed" /\ s.reader = c.arg
       /\ s.lease > now

Moved(s, to) == [s EXCEPT !.status = to, !.revision = @ + 1]

ClaimUpdate(s, c, now) ==
    [Moved(s, "claimed") EXCEPT !.phone = c.by, !.expiresAt = now + SessionTtl]

AuthorizeUpdate(s, path) ==
    [Moved(s, "upload_authorized") EXCEPT !.path = path]

UploadedUpdate(s, c) == [Moved(s, "uploaded") EXCEPT !.etag = c.arg]

ConsumeUpdate(s, c, now) ==
    [Moved(s, "consumed") EXCEPT !.reader = c.arg,
                                 !.lease = now + ConsumeLease]

TransitionUpdate(s, c, now) ==
    [Moved(s, c.arg) EXCEPT
       !.lease = IF c.arg \in {"validating", "printing"}
                   THEN now + ProcessingLease ELSE @]

Update(s, c, now) ==
    CASE c.kind = "claim" -> ClaimUpdate(s, c, now)
      [] c.kind = "consume" -> ConsumeUpdate(s, c, now)
      [] c.kind = "transition" -> TransitionUpdate(s, c, now)
      [] OTHER -> Moved(s, Target(c))

(* retentionMs, from the clock of the handler to the clock of Redis *)
EvictTime(s, now) ==
    clock + Larger(MinRetention,
                   Larger(s.expiresAt, s.lease) + Retention - now)

---------------------------------------------------------------------------
(* A phone or kiosk request: read *)

(* upload/complete asks the provider for the blob before the store. *)
Headed(s, c) ==
    c.kind = "markUploaded" =>
        s.path # None /\ blobs[s.path] = c.arg /\ c.arg # None

(* One GET of the record by a handler that read the clock at `now', its   *)
(* n-th: refused, already done, or a next record to commit.                *)
Read(r, c, now, n) ==
    IF /\ stored
       /\ Mutable(session, now)
       /\ Credential(session, c)
       /\ Repeats(session, c, now) \/ Allowed(session, c)
    THEN IF Repeats(session, c, now)
         THEN IF c.kind \in {"authorizeUpload", "consume"}
              THEN work' = [work EXCEPT ![r] =
                     [Idle EXCEPT !.pc = "answer", !.call = c, !.now = now,
                                  !.snap = session]]
              ELSE Finish(r)
         ELSE work' = [work EXCEPT ![r] =
                [Idle EXCEPT !.pc = "commit", !.call = c, !.now = now,
                             !.snap = session, !.tries = n]]
    ELSE Finish(r)

(* A request arrives.  One that is refused changes nothing and is left     *)
(* out.  `now' is read once, before the GET is answered.                   *)
Call(r, c) ==
    /\ work[r].pc = "idle"
    /\ Headed(session, c)
    /\ \E now \in Recent : Read(r, c, now, 1)
    /\ work'[r] # Idle
    /\ UNCHANGED <<clock, storeVars, blobVars, receipt, failures>>

---------------------------------------------------------------------------
(* A phone or kiosk request: commit *)

(* Mutant: the script only looks whether the key exists. *)
LandedMutant(r) == stored

(* The comparison of every script: the record is still the one read. *)
Landed(r) == stored /\ session.revision = work[r].snap.revision

(* CAS_SCRIPT; cancel and the two final transitions go on to clean up. *)
Commit(r) ==
    /\ work[r].pc = "commit"
    /\ work[r].call.kind \notin {"authorizeUpload", "markUploaded"}
    /\ Landed(r)
    /\ LET c == work[r].call
           next == Update(work[r].snap, c, work[r].now)
       IN /\ session' = next
          /\ evictAt' = EvictTime(next, work[r].now)
          /\ IF next.status \in Terminal
             THEN work' = [work EXCEPT ![r] =
                    [Idle EXCEPT !.pc = "cleanup", !.now = clock]]
             ELSE IF c.kind = "consume"
             THEN work' = [work EXCEPT ![r].pc = "answer", ![r].snap = next,
                                       ![r].tries = 0]
             ELSE Finish(r)
    /\ UNCHANGED <<clock, stored, orphan, blobVars, receipt, failures>>

(* AUTHORIZE_UPLOAD_SCRIPT: record, ledger entry and due index at once. *)
AuthorizeUpload(r) ==
    /\ work[r].pc = "commit"
    /\ work[r].call.kind = "authorizeUpload"
    /\ Landed(r)
    /\ IF orphan.path # None
       THEN /\ Finish(r)
            /\ UNCHANGED storeVars
       ELSE LET next == AuthorizeUpdate(work[r].snap, r)
            IN /\ session' = next
               /\ evictAt' = EvictTime(next, work[r].now)
               /\ orphan' = [path |-> r, etag |-> None,
                             dueAt |-> work[r].snap.expiresAt]
               /\ work' = [work EXCEPT ![r].pc = "answer", ![r].snap = next,
                                       ![r].tries = 0]
               /\ UNCHANGED stored
    /\ UNCHANGED <<clock, blobVars, receipt, failures>>

(* Mutant: the script forgets to copy the etag to the ledger. *)
UploadedEntryMutant(s) == [path |-> s.path, etag |-> None, dueAt |-> s.expiresAt]

(* The ledger entry of an uploaded session *)
UploadedEntry(s) == [path |-> s.path, etag |-> s.etag, dueAt |-> s.expiresAt]

(* COMMIT_UPLOAD_SCRIPT: the etag goes to the record and to the ledger. *)
MarkUploaded(r) ==
    /\ work[r].pc = "commit"
    /\ work[r].call.kind = "markUploaded"
    /\ Landed(r)
    /\ IF work[r].snap.path = None \/ orphan.path \notin {None, work[r].snap.path}
       THEN UNCHANGED storeVars
       ELSE LET next == UploadedUpdate(work[r].snap, work[r].call)
            IN /\ session' = next
               /\ evictAt' = EvictTime(next, work[r].now)
               /\ orphan' = UploadedEntry(next)
               /\ UNCHANGED stored
    /\ Finish(r)
    /\ UNCHANGED <<clock, blobVars, receipt, failures>>

(* The script found another revision, or no record: read again, with the  *)
(* clock of the request, or give up.                                       *)
Retry(r) ==
    /\ work[r].pc = "commit"
    /\ ~Landed(r)
    /\ IF stored /\ work[r].tries < MaxAttempts
       THEN Read(r, work[r].call, work[r].now, work[r].tries + 1)
       ELSE Finish(r)
    /\ UNCHANGED <<clock, storeVars, blobVars, receipt, failures>>

(* Mutant: the URL is not capped at the session's deadline. *)
SignedExpiryMutant(deadline) == clock + UrlTtl

(* signedExpiry *)
SignedExpiry(deadline) == Smaller(deadline, clock + UrlTtl)

(* The life of a URL in the whole seconds of the S3 provider: rounded up,  *)
(* and one at least.                                                       *)
WholeSeconds(deadline) ==
    Larger(1, (deadline - clock + Second - 1) \div Second) * Second

(* Until when a URL that is signed now may be accepted.  Vercel and the    *)
(* local store take the deadline as it is.  S3 counts from the start of    *)
(* the second in which it signs, which ends the URL this much at most      *)
(* after the deadline; when it ends sooner, no PUT comes that late.        *)
Signed(deadline) ==
    IF Second = 0 THEN deadline ELSE clock + WholeSeconds(deadline)

(* upload/authorize signs a PUT of the stored path for the session's       *)
(* deadline at most, and schedules the delayed cleanup.                    *)
SignPut(r) ==
    /\ work[r].pc = "answer"
    /\ work[r].call.kind = "authorizeUpload"
    /\ LET s == work[r].snap IN
         putUntil' = [putUntil EXCEPT ![s.path] =
                        Larger(@, Signed(SignedExpiry(s.expiresAt)))]
    /\ Finish(r)
    /\ UNCHANGED <<clock, storeVars, blobs, getUntil, late, receipt, failures>>

(* consume signs a GET for the lease at most. *)
SignGet(r) ==
    /\ work[r].pc = "answer"
    /\ work[r].call.kind = "consume"
    /\ LET until == Smaller(work[r].snap.lease, work[r].now + ConsumeLease) IN
         getUntil' = [getUntil EXCEPT ![work[r].snap.reader] =
                        Larger(@, Signed(until))]
    /\ Finish(r)
    /\ UNCHANGED <<clock, storeVars, blobs, putUntil, late, receipt, failures>>

---------------------------------------------------------------------------
(* The blob provider *)

(* A PUT whose URL had not expired when the provider checked it lands; it  *)
(* never overwrites.  It is late when the session has already ended.       *)
Put(p, e) ==
    /\ putUntil[p] > 0
    /\ clock < putUntil[p] + PutTime
    /\ blobs[p] = None
    /\ blobs' = [blobs EXCEPT ![p] = e]
    /\ late' = IF stored /\ session.status \notin Terminal
               THEN late ELSE late \cup {p}
    /\ UNCHANGED <<clock, storeVars, putUntil, getUntil, receipt, work,
                   failures>>

---------------------------------------------------------------------------
(* The cleanup saga *)

(* Mutant: every cleanup reports an expiry. *)
DeletePlanMutant(revision, status, entry) ==
    [path |-> entry.path, etag |-> entry.etag, revision |-> revision,
     status |-> "expired"]

DeletePlan(revision, status, entry) ==
    [path |-> entry.path, etag |-> entry.etag, revision |-> revision,
     status |-> status]

StartDelete(w, now, plan) ==
    work' = [work EXCEPT ![w] = [Idle EXCEPT !.pc = "delete", !.now = now,
                                             !.plan = plan]]

(* The ledger entry, rebuilt from the record when it is missing. *)
Ledger(now) ==
    IF orphan.path = None /\ session.path # None
    THEN [path |-> session.path, etag |-> session.etag,
          dueAt |-> Larger(now, session.expiresAt)]
    ELSE orphan

(* PREPARE_CLEANUP_SCRIPT, one disjunct per branch. *)

(* Mutant: a session that is gone is taken for cleaned up. *)
PrepareAbsentMutant(w, now) ==
    /\ ~stored
    /\ Finish(w)
    /\ orphan' = NoOrphan
    /\ UNCHANGED <<session, stored, evictAt>>

(* Mutant: the same, but the ledger entry stays. *)
PrepareIgnoreMutant(w, now) ==
    /\ ~stored
    /\ Finish(w)
    /\ UNCHANGED storeVars

PrepareAbsent(w, now) ==
    /\ ~stored
    /\ IF orphan.path = None
       THEN Finish(w)
       ELSE StartDelete(w, now, DeletePlan(-1, "expired", orphan))
    /\ UNCHANGED storeVars

PrepareConflict(w) ==
    /\ stored
    /\ orphan.path # None /\ session.path # None
    /\ orphan.path # session.path
    /\ Finish(w)
    /\ UNCHANGED storeVars

Consistent ==
    stored /\ (orphan.path = None \/ session.path = None
               \/ orphan.path = session.path)

(* Mutant: the lease of a processing session is forgotten. *)
RetryAtMutant(s) == s.expiresAt

(* Until when an active session keeps cleanup away. *)
RetryAt(s) ==
    Larger(s.expiresAt, IF s.status \in Processing THEN s.lease ELSE 0)

PrepareDefer(w, now) ==
    /\ Consistent
    /\ session.status \notin Terminal
    /\ RetryAt(session) > now
    /\ orphan' = IF Ledger(now).path = None THEN Ledger(now)
                 ELSE [Ledger(now) EXCEPT !.dueAt = RetryAt(session)]
    /\ Finish(w)
    /\ UNCHANGED <<session, stored, evictAt>>

SealStatus(s) == IF s.status \in {"validating", "printing"}
                 THEN "failed" ELSE "expired"

(* Mutant: the seal does not advance the revision. *)
SealedMutant(s) == [s EXCEPT !.status = SealStatus(s)]

Sealed(s) == Moved(s, SealStatus(s))

PrepareSeal(w, now) ==
    /\ Consistent
    /\ session.status \notin Terminal
    /\ RetryAt(session) <= now
    /\ session' = Sealed(session)
    /\ evictAt' = clock + Retention
    /\ orphan' = Ledger(now)
    /\ LET s == Sealed(session) IN
         StartDelete(w, now, DeletePlan(s.revision, s.status, Ledger(now)))
    /\ UNCHANGED stored

PrepareEnded(w, now) ==
    /\ Consistent
    /\ session.status \in Terminal
    /\ evictAt' = clock + Retention
    /\ orphan' = Ledger(now)
    /\ StartDelete(w, now, DeletePlan(session.revision, session.status,
                                      Ledger(now)))
    /\ UNCHANGED <<session, stored>>

PrepareCleanup(w, now) ==
    /\ \/ PrepareAbsent(w, now)
       \/ PrepareConflict(w)
       \/ PrepareDefer(w, now)
       \/ PrepareSeal(w, now)
       \/ PrepareEnded(w, now)
    /\ UNCHANGED <<clock, blobVars, receipt, failures>>

Prepare(w) ==
    /\ work[w].pc = "cleanup"
    /\ PrepareCleanup(w, work[w].now)

(* cleanupSession is called, with `now' as its time. *)
Begin(w, now) ==
    /\ work[w].pc = "idle"
    /\ work' = [work EXCEPT ![w] = [Idle EXCEPT !.pc = "cleanup", !.now = now]]
    /\ UNCHANGED <<clock, storeVars, blobVars, receipt, failures>>

(* A QStash callback, duplicated or late ones included, the cleanup that a *)
(* status poll starts after its response, or an administrator's.           *)
TargetedCleanup(w) == Begin(w, clock)

(* An administrator's forced cleanup pretends that every deadline passed. *)
ForcedCleanup(w) ==
    /\ stored
    /\ Begin(w, Larger(clock, Larger(session.expiresAt, session.lease)))

(* The sweep of sweepDueOrphans reaches this session's ledger entry. *)
Sweep(w) ==
    /\ orphan.path # None
    /\ orphan.dueAt <= clock
    /\ Begin(w, clock)

(* A missing blob counts as deleted; another ciphertext than the recorded  *)
(* one makes the provider refuse, and the cleanup stops.                   *)
DeleteBlob(w) ==
    /\ work[w].pc = "delete"
    /\ LET plan == work[w].plan IN
         IF plan.path = None \/ blobs[plan.path] = None
         THEN /\ Goto(w, "receipt")
              /\ UNCHANGED blobs
         ELSE IF plan.etag \in {None, blobs[plan.path]}
         THEN /\ Goto(w, "receipt")
              /\ blobs' = [blobs EXCEPT ![plan.path] = None]
         ELSE /\ Finish(w)
              /\ UNCHANGED blobs
    /\ UNCHANGED <<clock, storeVars, putUntil, getUntil, late, receipt, failures>>

PutReceipt(w) ==
    /\ work[w].pc = "receipt"
    /\ receipt' = [status |-> work[w].plan.status,
                   until |-> Larger(clock + 1, work[w].now + ReceiptTtl)]
    /\ Goto(w, "finalize")
    /\ UNCHANGED <<clock, storeVars, blobVars, failures>>

(* FINALIZE_CLEANUP_SCRIPT: session, ledger entry and due index go at once,*)
(* if they are still what was prepared.  Mutant: an aged-out record is     *)
(* taken for a conflict.                                                   *)
MayFinalizeMutant(plan) ==
    /\ stored /\ session.revision = plan.revision
    /\ orphan.path = plan.path

MayFinalize(plan) ==
    /\ stored => /\ session.revision = plan.revision
                 /\ session.status \in Terminal
    /\ IF orphan.path # None THEN orphan.path = plan.path
       ELSE plan.path = None \/ ~stored

FinalizeCleanup(w) ==
    /\ work[w].pc = "finalize"
    /\ IF MayFinalize(work[w].plan)
       THEN /\ stored' = FALSE
            /\ evictAt' = 0
            /\ orphan' = NoOrphan
       ELSE UNCHANGED <<stored, evictAt, orphan>>
    /\ Finish(w)
    /\ UNCHANGED <<clock, session, blobVars, receipt, failures>>

---------------------------------------------------------------------------
(* The environment *)

(* A process dies, or a call to Redis, QStash or the blob provider throws: *)
(* the handler answers an error and goes no further.                       *)
Fail(w) ==
    /\ work[w].pc # "idle"
    /\ failures < MaxFailures
    /\ failures' = failures + 1
    /\ Finish(w)
    /\ UNCHANGED <<clock, storeVars, blobVars, receipt>>

(* Time passes; Redis drops the keys whose TTL has run out. *)
Tick ==
    /\ clock < MaxClock
    /\ clock' = clock + 1
    /\ stored' = (stored /\ clock + 1 < evictAt)
    /\ evictAt' = IF stored' THEN evictAt ELSE 0
    /\ receipt' = IF clock + 1 < receipt.until THEN receipt ELSE NoReceipt
    /\ UNCHANGED <<session, orphan, blobVars, work, failures>>

Handle(r) ==
    \/ Commit(r)
    \/ AuthorizeUpload(r)
    \/ MarkUploaded(r)
    \/ Retry(r)
    \/ SignPut(r)
    \/ SignGet(r)

Clean(w) ==
    \/ Prepare(w)
    \/ DeleteBlob(w)
    \/ PutReceipt(w)
    \/ FinalizeCleanup(w)

Next ==
    \/ \E r \in Requests : (\E c \in Calls : Call(r, c)) \/ Handle(r)
    \/ \E w \in Sweepers : TargetedCleanup(w) \/ Sweep(w)
    \/ \E w \in Admins : ForcedCleanup(w)
    \/ \E w \in Workers : Clean(w) \/ Fail(w)
    \/ \E p \in Paths, e \in Etags : Put(p, e)
    \/ Tick

Spec == Init /\ [][Next]_vars

(* A call that the server started runs on unless it fails, the sweeper is  *)
(* a periodic worker (apps/cleanup-worker) or a retried QStash callback,   *)
(* and time passes.  Nobody has to claim, upload, consume or report.       *)
Fairness ==
    /\ WF_vars(Tick)
    /\ \A w \in Workers : WF_vars(Clean(w))
    /\ \A w \in Sweepers : WF_vars(Sweep(w))

FairSpec == Spec /\ Fairness

---------------------------------------------------------------------------
(* Properties *)

TypeOK ==
    /\ clock \in Nat
    /\ session \in SessionRecord
    /\ stored \in BOOLEAN
    /\ evictAt \in Nat
    /\ orphan \in OrphanRecord
    /\ blobs \in [Paths -> Etags \cup {None}]
    /\ putUntil \in [Paths -> Nat]
    /\ getUntil \in [Readers -> Nat]
    /\ late \subseteq Paths
    /\ receipt \in ReceiptRecord
    /\ work \in [Workers -> WorkRecord]
    /\ failures \in Nat

(* Every ciphertext in the blob store is named by the orphan ledger, so    *)
(* the sweeper can find it after any crash, eviction or lost callback; the *)
(* exception is one that landed after its session had ended.               *)
LedgerCoversCiphertext ==
    \A p \in Paths : blobs[p] # None => p \in late \/ orphan.path = p

(* While the record exists, the ledger names the same path and ciphertext: *)
(* the scripts' branches for a missing or contradictory entry are never    *)
(* taken, whatever handlers and cleanups interleave.                       *)
LedgerMatchesRecord ==
    stored => orphan.path = session.path /\ orphan.etag = session.etag

(* A kiosk that is told of a document, or is at work on one, can still     *)
(* read it: no cleanup, however late its plan, deletes the ciphertext of a *)
(* session that goes on.                                                   *)
CommittedBlobPresent ==
    stored /\ session.status \in {"uploaded"} \cup Processing =>
        /\ session.path # None /\ session.etag # None
        /\ blobs[session.path] = session.etag

(* No receipt is visible before the outcome it names is final, and as long *)
(* as the record is there too the status poll and the receipt agree.       *)
ReceiptAgrees ==
    receipt.status # "none" /\ stored => receipt.status = session.status

(* A URL for a deadline ends with it or less than a second later; one that *)
(* was signed after the deadline, by a handler that was held up, lasts no  *)
(* longer than a second.                                                   *)
WithinASecond(until, deadline) == until <= Larger(deadline, clock) + Second

(* Signed URLs only ever exist for the one authorised path and the one     *)
(* reader, and none outlives what it was given for by more than the        *)
(* provider's rounding: a PUT the session's deadline, a GET the lease of   *)
(* the consume.  (signedExpiry, consume/route.ts, s3.ts sign)              *)
CapabilitiesBelong ==
    /\ \A p \in Paths : putUntil[p] > 0 =>
           session.path = p /\ WithinASecond(putUntil[p], session.expiresAt)
    /\ \A c \in Readers : getUntil[c] > 0 =>
           /\ session.reader = c
           /\ session.status = "consumed" =>
                  WithinASecond(getUntil[c], session.lease)

(* The record goes through the published life cycle, one phone and one     *)
(* reader each, whatever requests race on it (docs/ARCHITECTURE.md:120).   *)
Lifecycle ==
    INSTANCE PrintSession WITH
        status <- session.status, phone <- session.phone,
        etag <- session.etag, reader <- session.reader
LifecycleSpec == Lifecycle!Spec
Custody == Lifecycle!Custody
SettledOnce == Lifecycle!SettledOnce

(* Only an administrator ends a session before its deadline and lease have *)
(* passed: neither a duplicated callback nor a cleanup that read an old    *)
(* clock does.                                                             *)
NoEarlySeal ==
    [][ \A w \in Workers \ Admins :
          Prepare(w) /\ session'.status # session.status =>
              /\ session.expiresAt <= clock
              /\ session.status \in Processing => session.lease <= clock ]_vars

(* Whatever crashes, a session's ledger entry is cleared in the end ...    *)
LedgerCleared == orphan.path # None ~> orphan.path = None

(* ... after its ciphertext was deleted, unless it came late.              *)
CiphertextDeleted ==
    \A p \in Paths :
        blobs[p] # None /\ p \notin late ~> blobs[p] = None

---------------------------------------------------------------------------
(* What the documents say and the code does not keep; see README.md *)

(* "Every ending, whether success, failure, cancellation, expiry or        *)
(* restart, leads to deletion" (README.md:54): no ciphertext is left that  *)
(* no ledger entry names.                                                  *)
NoUntrackedCiphertext ==
    \A p \in Paths : blobs[p] # None => orphan.path = p
============================================================================
