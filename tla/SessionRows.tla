---------------------------- MODULE SessionRows ---------------------------
(***************************************************************************)
(* Several print sessions in the stores whose operations are atomic: the   *)
(* rows of PostgreSQL (session-store/postgres.ts), where each is one       *)
(* transaction under the session's advisory lock, and the maps of          *)
(* session-store/memory.ts, where each is one turn of the event loop.      *)
(* Around them the cleanup of server/runtime.ts and the worker that sweeps *)
(* the due ledger entries of all sessions, oldest first and a few at a     *)
(* time.                                                                   *)
(*                                                                         *)
(* A handler reads the clock before its operation, so every operation may  *)
(* come with a clock that is one tick old.  Retries of a request that was  *)
(* carried out leave the row as it is; refused ones change nothing.        *)
(***************************************************************************)
EXTENDS PrintSessionStatus, Naturals, Sequences

CONSTANTS
    Sessions,    \* numbers: the order of their identifiers
    Ttl,         \* each session's lifetime until it is claimed
    SessionTtl,  \* lifetime from the claim
    Lease,       \* of a consume, and while validating or printing
    Retention,   \* how long a row outlives deadline and lease
    Limit,       \* entries one sweep visits
    Shared,      \* memory: an operation prunes the sessions of all
    Stuck,       \* sessions whose ciphertext the provider fails to delete
    Condemned,   \* sessions an administrator may clean up by force
    Cleaners,    \* cleanups at one time
    Workers,     \* the cleaners that sweep
    Phones,      \* the phones that hold a QR link
    Readers,     \* the consume identifiers kiosks present
    Cipher,      \* the ciphertext at a path: the first PUT, never overwritten
    None,        \* no phone, reader or ciphertext
    Rounding,    \* how much longer than asked the provider may accept a PUT
    Left,        \* bound: sessions whose phone leaves before it uploads
    MaxClock,    \* bound: no session is created later
    MaxFaults    \* bound: sweeps that die

ASSUME RowsAssumption ==
    /\ Sessions \subseteq Nat /\ Stuck \cup Condemned \cup Left \subseteq Sessions
    /\ Workers \subseteq Cleaners
    /\ Ttl \in [Sessions -> Nat \ {0}]
    /\ {SessionTtl, Lease, Retention, Limit} \subseteq Nat \ {0}
    /\ Rounding \in Nat
    /\ None \notin Phones \cup Readers

VARIABLES
    clock,
    row,      \* the session of each row, its last value once it is null
    kept,     \* the rows whose session is not null
    ledger,   \* when each ledger entry is due, 0 without entry
    files,    \* the ciphertexts in the blob store
    seen,     \* history: ciphertexts a request may have found there
    cleaner,  \* what each cleanup is doing
    faults

store == <<row, kept, ledger>>
blobs == <<files, seen>>
vars == <<clock, row, kept, ledger, files, seen, cleaner, faults>>

Later(a, b) == IF a >= b THEN a ELSE b

---------------------------------------------------------------------------
NoRow == [status |-> "none", expiresAt |-> 0, lease |-> 0, retain |-> 0,
          path |-> FALSE, phone |-> None, etag |-> None, reader |-> None]

Idle == [at |-> "idle", session |-> 0, now |-> 0, sealed |-> "none",
         path |-> FALSE, todo |-> <<>>]

Init ==
    /\ clock = 0
    /\ row = [s \in Sessions |-> NoRow]
    /\ kept = {}
    /\ ledger = [s \in Sessions |-> 0]
    /\ files = {} /\ seen = {}
    /\ cleaner = [c \in Cleaners |-> Idle]
    /\ faults = 0

(* Instants at which a handler that is answered now may have read the clock *)
Recent == {t \in {clock, clock - 1} : t \in Nat}

(* pruneState: the operation finds the session, at its own clock. *)
Found(s, t) == s \in kept /\ row[s].retain > t

(* requireMutableSession *)
Mutable(r, t) ==
    \/ r.expiresAt > t
    \/ r.status \in Processing /\ r.lease > t

(* What a committed operation prunes: its own row, or in memory all.       *)
Pruned(s, t) ==
    {x \in kept : (x = s \/ Shared) /\ row[x].retain <= t}

DeadlineOnly(r) == r.expiresAt + Retention  \* mutant: the lease is forgotten
(* The minute from now that the code adds is never the latest.             *)
RetentionDeadline(r) == Later(r.expiresAt, r.lease) + Retention

(* Mutant: a repeated call is carried out again, whoever makes it.         *)
WriteAgain(s, t, next) ==
    /\ s \in Left => next.status \in {"claimed", "upload_authorized", "cancelled"}
    /\ Found(s, t)
    /\ Mutable(row[s], t)
    /\ row[s].status = next.status \/ CanTransition(row[s].status, next.status)
    /\ row' = [row EXCEPT ![s] = [next EXCEPT !.retain = RetentionDeadline(next)]]
    /\ kept' = kept \ Pruned(s, t)

(* mutate: the next session, with its retention *)
Write(s, t, next) ==
    /\ s \in Left => next.status \in {"claimed", "upload_authorized", "cancelled"}
    /\ Found(s, t)
    /\ Mutable(row[s], t)
    /\ CanTransition(row[s].status, next.status)
    /\ row' = [row EXCEPT ![s] = [next EXCEPT !.retain = RetentionDeadline(next)]]
    /\ kept' = kept \ Pruned(s, t)

---------------------------------------------------------------------------
(* The operations of phone and kiosk *)

Create(s) ==
    /\ row[s].status = "none"
    /\ clock <= MaxClock
    /\ row' = [row EXCEPT ![s] = [NoRow EXCEPT !.status = "waiting",
                                    !.expiresAt = clock + Ttl[s],
                                    !.retain = clock + Ttl[s] + Retention]]
    /\ kept' = kept \cup {s}
    /\ UNCHANGED <<clock, ledger, blobs, cleaner, faults>>

Claim(s, t, p) ==
    /\ Write(s, t, [row[s] EXCEPT !.status = "claimed", !.phone = p,
                                  !.expiresAt = t + SessionTtl])
    /\ UNCHANGED ledger

(* With the path goes the ledger entry, and the signed PUT. *)
AuthorizeUpload(s, t) ==
    /\ Write(s, t, [row[s] EXCEPT !.status = "upload_authorized", !.path = TRUE])
    /\ ledger' = [ledger EXCEPT ![s] = row[s].expiresAt]

MarkUploading(s, t) ==
    /\ Write(s, t, [row[s] EXCEPT !.status = "uploading"])
    /\ UNCHANGED ledger

(* The route has asked the provider for the blob some time before. *)
MarkUploaded(s, t) ==
    /\ s \in seen
    /\ ledger[s] # 0
    /\ Write(s, t, [row[s] EXCEPT !.status = "uploaded", !.etag = Cipher])
    /\ UNCHANGED ledger

Consume(s, t, c) ==
    /\ Write(s, t, [row[s] EXCEPT !.status = "consumed", !.reader = c,
                                  !.lease = t + Lease])
    /\ UNCHANGED ledger

(* Validating and printing renew the lease; the final reports do not. *)
Transition(s, t, to) ==
    /\ Write(s, t, [row[s] EXCEPT !.status = to,
                      !.lease = IF to \in Processing THEN t + Lease ELSE @])
    /\ UNCHANGED ledger

Cancel(s, t) ==
    /\ Write(s, t, [row[s] EXCEPT !.status = "cancelled"])
    /\ UNCHANGED ledger

Request(s) ==
    /\ \E t \in Recent :
          \/ \E p \in Phones : Claim(s, t, p)
          \/ AuthorizeUpload(s, t) \/ MarkUploading(s, t) \/ MarkUploaded(s, t)
          \/ \E c \in Readers : Consume(s, t, c)
          \/ Cancel(s, t)
          \/ \E to \in {"validating", "printing", "completed", "failed"} :
                Transition(s, t, to)
    /\ UNCHANGED <<clock, blobs, cleaner, faults>>

(* Reads (get, getReceipt) prune the row as well. *)
Get(s) ==
    /\ Pruned(s, clock) # {}
    /\ kept' = kept \ Pruned(s, clock)
    /\ UNCHANGED <<clock, row, ledger, blobs, cleaner, faults>>

(* A PUT whose URL is valid, for the deadline at most and what the         *)
(* provider adds to it, lands.                                             *)
Put(s) ==
    /\ row[s].path /\ s \notin files
    /\ clock < row[s].expiresAt + Rounding
    /\ files' = files \cup {s}
    /\ seen' = seen \cup {s}
    /\ UNCHANGED <<clock, store, cleaner, faults>>

---------------------------------------------------------------------------
(* cleanupSession *)

(* The cleanup of one session is over, whatever became of it: the sweep    *)
(* goes on with the next.                                                  *)
GiveUp(c) == Idle  \* mutant: a failure ends the sweep
Onward(c) ==
    LET todo == cleaner[c].todo
    IN IF todo = <<>> THEN Idle
       ELSE [Idle EXCEPT !.at = "prepare", !.session = Head(todo),
                         !.now = cleaner[c].now, !.todo = Tail(todo)]

After(c) == cleaner' = [cleaner EXCEPT ![c] = Onward(c)]

RetryAt(r) == Later(r.expiresAt, IF r.status \in Processing THEN r.lease ELSE 0)

SealStatus(status) ==
    IF status \in {"validating", "printing"} THEN "failed" ELSE "expired"

Delete(c, sealed, path) ==
    cleaner' = [cleaner EXCEPT ![c].at = "delete", ![c].sealed = sealed,
                               ![c].path = path]

(* prepareCleanup of a session that is null *)
PrepareAbsent(c, s, now) ==
    /\ ~Found(s, now)
    /\ IF ledger[s] = 0 THEN After(c) ELSE Delete(c, "none", TRUE)
    /\ kept' = kept \ Pruned(s, now)
    /\ UNCHANGED <<row, ledger>>

PrepareDefer(c, s, now) ==
    /\ Found(s, now)
    /\ row[s].status \notin Terminal /\ RetryAt(row[s]) > now
    /\ ledger' = [ledger EXCEPT ![s] = IF row[s].path THEN RetryAt(row[s]) ELSE @]
    /\ kept' = kept \ Pruned(s, now)
    /\ After(c)
    /\ UNCHANGED row

(* The row is sealed, or was terminal already, and kept for a while. *)
PrepareSeal(c, s, now) ==
    /\ Found(s, now)
    /\ row[s].status \in Terminal \/ RetryAt(row[s]) <= now
    /\ LET status == IF row[s].status \in Terminal THEN row[s].status
                     ELSE SealStatus(row[s].status)
       IN /\ row' = [row EXCEPT ![s].status = status,
                                ![s].retain = Later(@, now + Retention)]
          /\ Delete(c, status, row[s].path)
    /\ ledger' = [ledger EXCEPT ![s] = IF @ = 0 /\ row[s].path
                                       THEN Later(now, row[s].expiresAt) ELSE @]
    /\ kept' = kept \ Pruned(s, now)

Prepare(c) ==
    /\ cleaner[c].at = "prepare"
    /\ LET s == cleaner[c].session
           now == cleaner[c].now
       IN PrepareAbsent(c, s, now) \/ PrepareDefer(c, s, now) \/ PrepareSeal(c, s, now)
    /\ UNCHANGED <<clock, blobs, faults>>

(* blobs.delete; the receipt that follows, for the phone's next poll, is   *)
(* left to SessionStore.                                                   *)
DeleteBlob(c) ==
    /\ cleaner[c].at = "delete"
    /\ LET s == cleaner[c].session
       IN IF cleaner[c].path /\ s \in Stuck
          THEN After(c) /\ UNCHANGED files
          ELSE /\ files' = IF cleaner[c].path THEN files \ {s} ELSE files
               /\ cleaner' = [cleaner EXCEPT ![c].at = "finalize"]
    /\ UNCHANGED <<clock, store, seen, faults>>

(* finalizeCleanup.  A sealed row never changes again, so its status       *)
(* stands for its revision.  Memory alone does not prune here.             *)
MayFinalize(c, s) ==
    LET there == s \in kept /\ (Shared \/ row[s].retain > clock)
    IN /\ there => row[s].status = cleaner[c].sealed
       /\ IF ledger[s] # 0 THEN cleaner[c].path ELSE cleaner[c].path => ~there

FinalizeCleanup(c) ==
    /\ cleaner[c].at = "finalize"
    /\ LET s == cleaner[c].session
       IN IF MayFinalize(c, s)
          THEN kept' = kept \ {s} /\ ledger' = [ledger EXCEPT ![s] = 0]
          ELSE UNCHANGED <<kept, ledger>>
    /\ After(c)
    /\ UNCHANGED <<clock, row, blobs, faults>>

---------------------------------------------------------------------------
(* Who cleans up *)

Begin(c, s, now) ==
    /\ cleaner[c].at = "idle"
    /\ cleaner' = [cleaner EXCEPT ![c] = [Idle EXCEPT !.at = "prepare",
                                            !.session = s, !.now = now]]
    /\ UNCHANGED <<clock, store, blobs, faults>>

(* The end of a request that ended the session, the poll of one that is    *)
(* over, or the callback scheduled for its first deadline, by which the    *)
(* session may have got a later one.                                       *)
Targeted(c, s) ==
    /\ row[s].status # "none"
    /\ row[s].status \in Terminal \/ Ttl[s] <= clock
    /\ Begin(c, s, clock)

(* The administrator pretends that every deadline of the session passed.   *)
Forced(c, s) ==
    /\ s \in kept \cap Condemned
    /\ Begin(c, s, Later(clock, Later(row[s].expiresAt, row[s].lease)))

(* listDueOrphans: the oldest entries, ties by identifier *)
Before(s, x) == ledger[s] < ledger[x] \/ (ledger[s] = ledger[x] /\ s < x)
Due == {s \in Sessions : ledger[s] # 0 /\ ledger[s] <= clock}
Oldest(list) ==
    /\ \A i, j \in DOMAIN list : i < j => Before(list[i], list[j])
    /\ \A s \in Due \ {list[i] : i \in DOMAIN list} :
          Len(list) = Limit /\ \A i \in DOMAIN list : Before(list[i], s)

(* One poll of the worker: sweepDueOrphans begins.  The list is read once, *)
(* and the sweep goes by its clock to the end; the worker does not wait    *)
(* for it beyond its timeout, and there may be several workers.            *)
Sweep(c) ==
    /\ cleaner[c].at = "idle"
    /\ \E n \in 1..Limit : \E list \in [1..n -> Due] :
          /\ Oldest(list)
          /\ cleaner' = [cleaner EXCEPT ![c] =
               [Idle EXCEPT !.at = "prepare", !.session = list[1], !.now = clock,
                            !.todo = Tail(list)]]
    /\ kept' = {s \in kept : row[s].retain > clock}
    /\ UNCHANGED <<clock, row, ledger, blobs, faults>>

(* The process that sweeps dies. *)
Die(c) ==
    /\ cleaner[c].at # "idle"
    /\ faults < MaxFaults /\ faults' = faults + 1
    /\ cleaner' = [cleaner EXCEPT ![c] = Idle]
    /\ UNCHANGED <<clock, store, blobs>>

(* Time stops at the bound, but not before the last entry is due. *)
Tick ==
    /\ clock < MaxClock \/ \E s \in Sessions : ledger[s] > clock
    /\ clock' = clock + 1
    /\ UNCHANGED <<store, blobs, cleaner, faults>>

Clean(c) == Prepare(c) \/ DeleteBlob(c) \/ FinalizeCleanup(c)

Next ==
    \/ \E s \in Sessions : Create(s) \/ Request(s) \/ Get(s) \/ Put(s)
    \/ \E c \in Cleaners : Clean(c)
    \/ \E c \in Workers : Sweep(c) \/ Die(c)
    \/ \E c \in Cleaners \ Workers, s \in Sessions : Targeted(c, s) \/ Forced(c, s)
    \/ Tick

Spec == Init /\ [][Next]_vars

(* The worker polls for ever, with a wait of a minute at most; a sweep     *)
(* that the server has begun runs to its end unless it dies.               *)
LiveSpec ==
    /\ Spec
    /\ WF_vars(Tick)
    /\ \A c \in Cleaners : WF_vars(Clean(c))
    /\ \A c \in Workers : WF_vars(Sweep(c))

---------------------------------------------------------------------------
(* Properties *)

(* Every session of these stores goes through the published life cycle,    *)
(* whichever of several consume identifiers kiosks present, with an old    *)
(* clock or after a cleanup: it is read under one of them, and ends as     *)
(* failed when it was at the kiosk.  (mutate, prepareCleanup)              *)
Life(s) ==
    INSTANCE PrintSession WITH
        Etags <- {Cipher},
        status <- IF row[s].status = "none" THEN "waiting" ELSE row[s].status,
        phone <- row[s].phone, etag <- row[s].etag, reader <- row[s].reader
RowsFollowLifecycle ==
    /\ \A s \in Sessions : Life(s)!Init
    /\ [][\A s \in Sessions : [Life(s)!Next]_(Life(s)!vars)]_vars

(* A session that goes on keeps its row, and from the commit on its        *)
(* ciphertext: neither a late cleanup of its own nor the cleanup (even by  *)
(* force) or the pruning of another takes them before deadline and lease   *)
(* are over.  (retentionDeadline, prepareCleanup, pruneState)              *)
SessionKept ==
    \A s \in Sessions \ Condemned :
        row[s].status \notin Terminal \cup {"none"} /\ clock < RetryAt(row[s]) =>
            /\ s \in kept
            /\ row[s].status \in {"uploaded"} \cup Processing => s \in files

(* Entries that fail at every visit stay at the head of the list.  As long *)
(* as a sweep visits more than them, each other entry is cleared in the    *)
(* end, whatever dies or fails on the way.  (listDueOrphans,               *)
(* sweepDueOrphans)                                                        *)
SweepReaches == \A s \in Sessions \ Stuck : ledger[s] # 0 ~> ledger[s] = 0
============================================================================
