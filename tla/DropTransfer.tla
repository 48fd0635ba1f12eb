--------------------------- MODULE DropTransfer ---------------------------
(***************************************************************************)
(* One phone-to-phone transfer ("drop"): the sending phone                 *)
(* (apps/web/src/lib/drop-transfer.ts and the handlers of                  *)
(* components/drop/send-flow.tsx), the routes of app/api/drops, the record *)
(* in the Redis drop store (server/drop-store), the blob store that holds  *)
(* one ciphertext per part, the receivers' events and the expiry sweep.    *)
(*                                                                         *)
(* A route reads the record, then the store reads it again, computes the   *)
(* next one and compares revisions.  The sender retries what it got no     *)
(* answer to, so an abandoned request may run beside its retry; a PUT that *)
(* was given up may land late; a deletion walks over the parts one by one. *)
(*                                                                         *)
(* The time unit is a fraction of the transfer's life; the transfer is     *)
(* created at 0 and expires at Ttl.  Keys outlive that by a day            *)
(* (DROP_RETENTION_MS), which MaxNow does not reach.                       *)
(***************************************************************************)
EXTENDS Integers, Sequences, FiniteSets, SequencesExt

CONSTANTS
    Selections,   \* what may be sent: sequences of file sizes
    Chunk,        \* DROP_CHUNK_BYTES
    Tag,          \* DROP_PART_TAG_BYTES
    BatchSize,    \* parts authorized and committed together
    Concurrency,  \* parts PUT at a time
    MaxAttempts,  \* MAX_ATTEMPTS of withRetry
    MaxCas,       \* MAX_CAS_ATTEMPTS of the store
    Receivers,    \* phones that were shown the code
    Ttl,          \* dropTtlMs
    UrlTtl,       \* signedUrlTtlMs
    Rounding,     \* how much longer the provider may accept a URL: S3 counts
                  \* its life in whole seconds, the others are exact
    MaxNow,       \* bound: the clock stops here
    MaxFaults     \* bound: answers lost, files unreadable, deletes failing

ASSUME DropAssumption ==
    /\ Selections \subseteq Seq(Nat) \ {<<>>}
    /\ {Chunk, Tag, BatchSize, Concurrency, MaxAttempts, MaxCas, Ttl, UrlTtl}
         \subseteq Nat \ {0}
    /\ {Rounding, MaxNow, MaxFaults} \subseteq Nat
    /\ Receivers \cap {"sender", "late", "revoke", "erase", "sweep"} = {}

VARIABLES
    files,    \* the selection: one size per file
    now,      \* the clock
    drop,     \* the record
    blobs,    \* the ciphertexts in the blob store, by part
    strays,   \* PUTs whose sender has stopped waiting: part and URL expiry
    escaped,  \* history: ciphertexts no deletion has seen, see Land
    sender,   \* sendDrop and the hooks of SendFlow
    part,     \* the runner of each part: its state, attempts and URL expiry
    rx,       \* the next event each receiver reports; "end": none any more
    call,     \* the requests being served
    faults    \* faults so far; any part of the budget may be spent at the start

net == <<strays, escaped>>
vars == <<files, now, drop, blobs, net, sender, part, rx, call, faults>>

Smaller(a, b) == IF a <= b THEN a ELSE b
Larger(a, b) == IF a >= b THEN a ELSE b
SumOf(s) == FoldLeft(LAMBDA total, x : total + x, 0, s)

---------------------------------------------------------------------------
(* Parts.  Every file has at least one, even an empty file. *)

DropChunkCount(size) == Larger(1, (size + Chunk - 1) \div Chunk)

(* The plaintext bytes of each part, in storage order. *)
Plan(sizes) ==
    FoldLeft(LAMBDA plan, size :
                 plan \o [i \in 1..DropChunkCount(size) |->
                             Smaller(Chunk, size - (i - 1) * Chunk)],
             <<>>, sizes)

Plans == [sizes \in Selections |-> Plan(sizes)]
Parts == 1..Len(Plans[files])
PartCount == Len(Plans[files])
CipherSize(p) == Plans[files][p] + Tag

(* createDropRequestSchema pins the part count to the declared size. *)
PartCountAccepted(sizes) ==
    LET total == SumOf(sizes)
        count == Len(Plans[sizes])
    IN /\ count >= Larger(Len(sizes), (total + Chunk - 1) \div Chunk)
       /\ count <= Len(sizes) + total \div Chunk

---------------------------------------------------------------------------
(* The record, and what the store does to it.  A part is 0 until it is     *)
(* committed, then its size.                                               *)

NoDrop == [status |-> "none", parts |-> <<>>, opened |-> 0, downloading |-> 0,
           delivered |-> 0, revision |-> 0]

NewDrop == [NoDrop EXCEPT !.status = "collecting",
                          !.parts = [p \in Parts |-> 0]]

Present == drop.status # "none"

Committed(d) == {p \in DOMAIN d.parts : d.parts[p] # 0}

Ceiling == SumOf(files) + PartCount * Tag

(* A mutation returns a status and the next record.                        *)
ApplyPartCommits(d, ps) ==
    LET fresh == {p \in ps : d.parts[p] = 0}
        parts == [p \in Parts |-> IF p \in fresh THEN CipherSize(p)
                                                 ELSE d.parts[p]]
    IN IF d.status # "collecting" THEN <<409, d>>
       ELSE IF fresh = {} THEN <<200, d>>
       ELSE IF SumOf(parts) > Ceiling THEN <<413, d>>
       ELSE <<200, [d EXCEPT !.parts = parts, !.revision = @ + 1]>>

ApplySeal(d) ==
    IF Committed(d) # Parts THEN <<409, d>>
    ELSE IF d.status = "ready" THEN <<200, d>>
    ELSE <<200, [d EXCEPT !.status = "ready", !.revision = @ + 1]>>

ApplyReceiverEvent(d, event) ==
    IF d.status # "ready" THEN <<404, d>>
    ELSE <<200, [d EXCEPT ![event] = @ + 1, !.revision = @ + 1]>>

Events == {"opened", "downloading", "delivered"}

Mutation(d, c) ==
    CASE c.op = "commit" -> ApplyPartCommits(d, c.parts)
      [] c.op = "seal"   -> ApplySeal(d)
      [] c.op \in Events -> ApplyReceiverEvent(d, c.op)

---------------------------------------------------------------------------
(* Requests.  A slot holds one request; "late" is the sender's abandoned   *)
(* one, "revoke" the DELETE of a failed send, "erase" the one the sender   *)
(* asks for, "sweep" the expiry sweep.                                     *)

Slots == Receivers \cup {"sender", "late", "revoke", "erase", "sweep"}

Idle == [op |-> "none", at |-> "idle", parts |-> {}, snap |-> NoDrop,
         clock |-> 0, left |-> 0, tries |-> 0]

Request(op, ps) == [Idle EXCEPT !.op = op, !.at = "route", !.parts = ps]

Batch == {p \in Parts : sender.first <= p /\ p < sender.first + BatchSize}
LastBatch == sender.first + BatchSize > PartCount

(* signedExpiry *)
UrlUntil == Smaller(Ttl, now + UrlTtl)

Settled(state) == [at |-> state, tries |-> 0, until |-> 0]

(* The catch clause of SendFlow.start: a transfer whose code was shown is  *)
(* erased.  "over" is the error screen.                                    *)
Fail ==
    /\ sender' = [sender EXCEPT !.pc = IF sender.known THEN "revoking"
                                                      ELSE "over", !.tries = 0]
    /\ call' = [call EXCEPT
           !["sender"] = Idle,
           !["revoke"] = IF sender.known THEN Request("delete", {}) ELSE @]

(* withRetry *)
LastAttempt(tries) == tries + 1 = MaxAttempts

(* The sender hears the answer to its request.  Any error status of a      *)
(* route ends the transfer, see isFatalStatus.                             *)
SenderHears(status) ==
    IF status # 200 THEN Fail /\ UNCHANGED part
    ELSE /\ call' = [call EXCEPT !["sender"] = Idle]
         /\ sender' = [sender EXCEPT !.tries = 0,
                !.pc = CASE @ = "authorize" -> "parts"
                         [] @ = "commit" -> IF LastBatch THEN "seal"
                                                         ELSE "authorize"
                         [] @ = "seal" -> "done",
                !.first = IF sender.pc = "commit" THEN @ + BatchSize ELSE @,
                !.known = @ /\ sender.pc # "seal"]
         /\ part' = [p \in Parts |->
                IF sender.pc = "authorize" /\ p \in Batch
                THEN [at |-> "todo", tries |-> 0, until |-> UrlUntil]
                ELSE part[p]]

(* inspectDrop polls while the answer is "collecting" (202); any error     *)
(* ends it.                                                                *)
NextEvent(event) == CASE event = "opened"      -> "downloading"
                      [] event = "downloading" -> "delivered"
                      [] event = "delivered"   -> "told"

ReceiverHears(r, status) ==
    rx' = [rx EXCEPT ![r] = CASE status = 202 -> @
                              [] status = 200 -> NextEvent(@)
                              [] OTHER        -> "end"]

(* An answer reaches who waits for it; nobody waits for the sweep, for an  *)
(* abandoned request, or looks at the outcome of a DELETE.                 *)
Answer(c, status) ==
    /\ IF c = "sender" THEN SenderHears(status)
       ELSE /\ call' = [call EXCEPT ![c] = [Idle EXCEPT
                    !.op = IF c = "erase" THEN "erased" ELSE "none"]]
            /\ sender' = IF c = "revoke" THEN [sender EXCEPT !.pc = "over",
                                                             !.known = FALSE]
                                         ELSE sender
            /\ UNCHANGED part
    /\ IF c \in Receivers THEN ReceiverHears(c, status) ELSE UNCHANGED rx

(* The open and download routes swallow a failed event and answer what     *)
(* they had read.                                                          *)
EventAnswer(c, status) ==
    Answer(c, IF call[c].op \in {"opened", "downloading"} THEN 200 ELSE status)

(* The route reads the record, authenticates, heads the blobs of a commit, *)
(* and passes the clock it read to the store.                              *)
Refusal(c) ==
    LET op == call[c].op
    IN CASE ~Present -> IF op = "delete" THEN 200 ELSE 404
         [] op \in {"downloading", "delivered"} /\ drop.status # "ready" -> 404
         [] op \in {"authorize", "opened", "downloading"} /\ Ttl <= now -> 410
         [] op = "authorize" -> IF drop.status = "collecting" THEN 200 ELSE 409
         [] op = "opened" /\ drop.status # "ready" -> 202
         [] op = "commit" /\ ~(call[c].parts \subseteq blobs) -> 404
         [] OTHER -> 0

Route(c) ==
    /\ call[c].at = "route"
    /\ IF Refusal(c) # 0 THEN Answer(c, Refusal(c))
       ELSE /\ call' = [call EXCEPT ![c] =
                 IF @.op = "delete"
                 THEN [@ EXCEPT !.at = "delete", !.snap = drop, !.left = 1]
                 ELSE [@ EXCEPT !.at = "mutate", !.clock = now]]
            /\ UNCHANGED <<sender, part, rx>>
    /\ UNCHANGED <<files, now, drop, blobs, net, faults>>

(* RedisDropStore.mutate: GET, the expiry check, the mutation.             *)
Mutate(c) ==
    /\ call[c].at = "mutate"
    /\ LET result == IF ~Present THEN <<404, drop>>
                     ELSE IF Ttl <= call[c].clock THEN <<410, drop>>
                     ELSE Mutation(drop, call[c])
       IN IF result[2] = drop THEN EventAnswer(c, result[1])
          ELSE /\ call' = [call EXCEPT ![c].at = "cas", ![c].snap = drop]
               /\ UNCHANGED <<sender, part, rx>>
    /\ UNCHANGED <<files, now, drop, blobs, net, faults>>

(* CAS_SCRIPT: the record must still exist with the revision that was read. *)
SameStatus(c) == drop.status = call[c].snap.status  \* mutant: no revision
AnyRevision(c) == TRUE                              \* mutant: no comparison
SameRevision(c) == drop.revision = call[c].snap.revision

CompareAndSet(c) ==
    /\ call[c].at = "cas"
    /\ IF Present /\ SameRevision(c)
       THEN /\ drop' = Mutation(call[c].snap, call[c])[2]
            /\ EventAnswer(c, 200)
       ELSE /\ UNCHANGED drop
            /\ IF ~Present THEN EventAnswer(c, 404)
               ELSE IF call[c].tries + 1 = MaxCas THEN EventAnswer(c, 409)
               ELSE /\ call' = [call EXCEPT ![c].at = "mutate",
                               ![c].snap = NoDrop, ![c].tries = @ + 1]
                    /\ UNCHANGED <<sender, part, rx>>
    /\ UNCHANGED <<files, now, blobs, net, faults>>

(* deleteDrop: the parts in order, then the record.  A delete that fails   *)
(* is forgiven when the record it was called with had no such part.        *)
ForgivenAlways(c, p) == TRUE  \* mutant: every failure is forgiven
Forgiven(c, p) == call[c].snap.parts[p] = 0

DeletePart(c) ==
    /\ call[c].at = "delete"
    /\ call[c].left \in Parts
    /\ LET p == call[c].left
       IN \/ /\ blobs' = blobs \ {p}
             /\ escaped' = escaped \ {p}
             /\ call' = [call EXCEPT ![c].left = @ + 1]
             /\ UNCHANGED <<faults, sender, part, rx>>
          \/ /\ faults < MaxFaults
             /\ faults' = faults + 1
             /\ UNCHANGED blobs
             /\ IF Forgiven(c, p)
                THEN /\ call' = [call EXCEPT ![c].left = @ + 1]
                     /\ escaped' = IF call[c].snap.parts[p] = 0
                                   THEN escaped \cup ({p} \cap blobs)
                                   ELSE escaped
                     /\ UNCHANGED <<sender, part, rx>>
                ELSE Answer(c, 503) /\ UNCHANGED escaped
    /\ UNCHANGED <<files, now, drop, strays>>

RemoveDrop(c) ==
    /\ call[c].at = "delete"
    /\ call[c].left = PartCount + 1
    /\ drop' = NoDrop
    /\ Answer(c, 200)
    /\ UNCHANGED <<files, now, blobs, net, faults>>

(* A request never arrives or its function instance dies.                  *)
LoseRequest(c) ==
    /\ c # "sender"
    /\ call[c].at # "idle"
    /\ faults < MaxFaults
    /\ faults' = faults + 1
    /\ Answer(c, 0)
    /\ UNCHANGED <<files, now, drop, blobs, net>>

---------------------------------------------------------------------------
(* The sender. *)

(* createDrop is not retried: when its answer is lost the record stays     *)
(* until it expires, as it does when scheduleSweep and then remove fail.   *)
Create ==
    /\ sender.pc = "create"
    /\ \/ /\ PartCountAccepted(files)
          /\ drop' = NewDrop
          /\ sender' = [sender EXCEPT !.pc = "authorize", !.known = TRUE]
          /\ UNCHANGED faults
       \/ /\ PartCountAccepted(files) => faults < MaxFaults
          /\ faults' = IF PartCountAccepted(files) THEN faults + 1 ELSE faults
          /\ drop' \in IF PartCountAccepted(files) THEN {NoDrop, NewDrop}
                                                   ELSE {NoDrop}
          /\ sender' = [sender EXCEPT !.pc = "over"]
    /\ UNCHANGED <<files, now, blobs, net, part, rx, call>>

(* withRetry and the loop over the batches: the abort signal is looked at  *)
(* before every request.                                                   *)
Ask ==
    /\ sender.pc \in {"authorize", "commit", "seal"}
    /\ call["sender"].at = "idle"
    /\ IF sender.stopped THEN Fail
       ELSE /\ call' = [call EXCEPT !["sender"] = Request(sender.pc, Batch)]
            /\ UNCHANGED sender
    /\ UNCHANGED <<files, now, drop, blobs, net, part, rx, faults>>

(* A request without an answer is asked again while the server may still   *)
(* be serving it, unless that one is lost too (LoseRequest).               *)
AskAgain ==
    /\ call["sender"].at # "idle"
    /\ faults < MaxFaults
    /\ faults' = faults + 1
    /\ IF LastAttempt(sender.tries) THEN Fail
       ELSE /\ sender' = [sender EXCEPT !.tries = @ + 1]
            /\ call' = [call EXCEPT !["sender"] = Idle,
                   !["late"] = IF @.at = "idle" THEN call["sender"] ELSE @]
    /\ UNCHANGED <<files, now, drop, blobs, net, part, rx>>

(* runWithConcurrency: a runner takes the next part of the batch.  When    *)
(* one fails, sendDrop fails, and the others go on unless the signal is    *)
(* aborted.                                                                *)
Runners(state) == {p \in Batch : part[p].at = state}

StartPut(p) ==
    /\ p \in Runners("todo")
    /\ \A q \in Runners("todo") : p <= q
    /\ Cardinality(Runners("flying") \cup Runners("dead")) < Concurrency
    /\ ~sender.stopped
    /\ part' = [part EXCEPT ![p].at = "flying"]
    /\ UNCHANGED <<files, now, drop, blobs, net, sender, rx, call, faults>>

(* A deletion has passed p, or the record is gone: nothing will look for   *)
(* this ciphertext again.                                                  *)
Passed(p) ==
    \/ ~Present
    \/ \E c \in Slots : call[c].at = "delete" /\ call[c].left > p

Arrive(p) ==
    /\ blobs' = blobs \cup {p}
    /\ escaped' = IF Passed(p) THEN escaped \cup {p} ELSE escaped

Land(p) ==
    /\ part[p].at = "flying"
    /\ now < part[p].until + Rounding
    /\ Arrive(p)
    /\ part' = [part EXCEPT ![p] = Settled("done")]
    /\ UNCHANGED <<files, now, drop, strays, sender, rx, call, faults>>

LandStray(stray) ==
    /\ now < stray[2] + Rounding
    /\ strays' = strays \ {stray}
    /\ Arrive(stray[1])
    /\ UNCHANGED <<files, now, drop, sender, part, rx, call, faults>>

(* An attempt ends without success: the URL has expired, or its answer is  *)
(* lost and the ciphertext may still arrive.  The next attempt has a fresh *)
(* URL unless the refresh is refused.                                      *)
PutFails(p) ==
    /\ part[p].at = "flying"
    /\ \/ /\ part[p].until <= now
          /\ UNCHANGED <<strays, faults>>
       \/ /\ faults < MaxFaults
          /\ faults' = faults + 1
          /\ strays' \in {strays, strays \cup {<<p, part[p].until>>}}
    /\ IF ~LastAttempt(part[p].tries)
       THEN /\ part' = [part EXCEPT ![p].tries = @ + 1,
                   ![p].until = IF drop.status = "collecting" /\ now < Ttl
                                THEN UrlUntil ELSE @]
            /\ UNCHANGED <<sender, call>>
       ELSE /\ part' = [part EXCEPT ![p] = Settled("dead")]
            /\ IF sender.pc = "parts" THEN Fail ELSE UNCHANGED <<sender, call>>
    /\ UNCHANGED <<files, now, drop, blobs, escaped, rx>>

(* encryptPlannedChunk: the file is gone or has changed since.             *)
Unreadable(p) ==
    /\ part[p].at = "flying" /\ part[p].tries = 0
    /\ faults < MaxFaults
    /\ faults' = faults + 1
    /\ part' = [part EXCEPT ![p] = Settled("dead")]
    /\ IF sender.pc = "parts" THEN Fail ELSE UNCHANGED <<sender, call>>
    /\ UNCHANGED <<files, now, drop, blobs, net, rx>>

PartsDone ==
    /\ sender.pc = "parts"
    /\ \A p \in Batch : part[p].at = "done"
    /\ sender' = [sender EXCEPT !.pc = "commit"]
    /\ UNCHANGED <<files, now, drop, blobs, net, part, rx, call, faults>>

(* stop and erase abort the signal: the PUTs under way are given up, and   *)
(* each may still arrive.  A JSON request is not aborted.                  *)
Abort(ps) ==
    /\ ps \subseteq {p \in Parts : part[p].at = "flying"}
    /\ strays' = strays \cup {<<p, part[p].until>> : p \in ps}
    /\ part' = [p \in Parts |-> IF part[p].at = "flying"
                                THEN Settled("dead") ELSE part[p]]

Stop(ps) ==
    /\ sender.pc \in {"authorize", "parts", "commit", "seal"}
    /\ ~sender.stopped
    /\ Abort(ps)
    /\ sender' = [sender EXCEPT !.stopped = TRUE,
           !.pc = IF @ = "parts" THEN "revoking" ELSE @]
    /\ call' = [call EXCEPT
           !["revoke"] = IF sender.pc = "parts" THEN Request("delete", {}) ELSE @]
    /\ UNCHANGED <<files, now, drop, blobs, escaped, rx, faults>>

(* The sender erases a transfer whose code is on the screen; the catch     *)
(* clause of start then has nothing to revoke.                             *)
Erase(ps) ==
    /\ sender.pc \notin {"create", "over"}
    /\ call["erase"].op = "none"
    /\ Abort(ps)
    /\ sender' = [sender EXCEPT !.stopped = TRUE, !.known = FALSE,
           !.pc = IF @ = "parts" THEN "over" ELSE @]
    /\ call' = [call EXCEPT !["erase"] = Request("delete", {})]
    /\ UNCHANGED <<files, now, drop, blobs, escaped, rx, faults>>

---------------------------------------------------------------------------
(* Receivers, the sweep and the clock. *)

Receive(r) ==
    /\ rx[r] \notin {"told", "end"}
    /\ sender.pc # "create"
    /\ call[r].at = "idle"
    /\ call' = [call EXCEPT ![r] = Request(rx[r], {})]
    /\ UNCHANGED <<files, now, drop, blobs, net, sender, part, rx, faults>>

(* sweepExpiredDrops: from the worker, a callback or another create.       *)
DueEarly == Ttl <= now + UrlTtl  \* mutant: the sweep comes before the end
Due == Ttl <= now

Sweep ==
    /\ Present
    /\ Due
    /\ call["sweep"].at = "idle"
    /\ call' = [call EXCEPT !["sweep"] =
           [Request("delete", {}) EXCEPT !.at = "delete", !.snap = drop,
                                         !.left = 1]]
    /\ UNCHANGED <<files, now, drop, blobs, net, sender, part, rx, faults>>

(* URLs that have expired are forgotten.                                   *)
Tick ==
    /\ now < MaxNow
    /\ now' = now + 1
    /\ strays' = {s \in strays : now + 1 < s[2] + Rounding}
    /\ UNCHANGED <<files, drop, blobs, escaped, sender, part, rx, call, faults>>

---------------------------------------------------------------------------
Init ==
    /\ files \in Selections
    /\ now = 0
    /\ drop = NoDrop
    /\ blobs = {} /\ strays = {} /\ escaped = {}
    /\ sender = [pc |-> "create", first |-> 1, tries |-> 0,
                 stopped |-> FALSE, known |-> FALSE]
    /\ part = [p \in Parts |-> Settled("none")]
    /\ rx \in [Receivers -> {"opened", "end"}]
    /\ call = [c \in Slots |-> Idle]
    /\ faults \in 0..MaxFaults

Serve(c) == Route(c) \/ Mutate(c) \/ CompareAndSet(c) \/ RemoveDrop(c)

PutStep == \E p \in Parts :
    StartPut(p) \/ Land(p) \/ PutFails(p) \/ Unreadable(p)

Give == \E ps \in SUBSET Parts : Stop(ps) \/ Erase(ps)

Next ==
    \/ Create \/ Ask \/ AskAgain \/ PartsDone
    \/ PutStep \/ Give
    \/ \E s \in strays : LandStray(s)
    \/ \E c \in Slots : Serve(c) \/ DeletePart(c) \/ LoseRequest(c)
    \/ \E r \in Receivers : Receive(r)
    \/ Sweep \/ Tick

Spec == Init /\ [][Next]_vars

---------------------------------------------------------------------------
(* Properties *)

(* Somebody has asked for the transfer to be deleted, or it has expired.   *)
DeletionAsked ==
    \/ sender.pc \in {"revoking", "over"}
    \/ call["erase"].op # "none"
    \/ Ttl <= now

(* A transfer that can be read is whole: a sealed record has every part    *)
(* with its exact size, and every ciphertext is there until a deletion was *)
(* asked for, whatever was retried, lost, given up or served late.         *)
(* (seal, applyPartCommits, parts/complete/route.ts)                       *)
ReadyIsWhole ==
    drop.status = "ready" =>
        /\ drop.parts = [p \in Parts |-> CipherSize(p)]
        /\ blobs = Parts \/ DeletionAsked

(* What a phone was told stays so while the record exists, whichever       *)
(* requests overlapped: the parts of the batches the sender got through    *)
(* are committed, a transfer it shows as sent is ready, and every receiver *)
(* that reported its files delivered is counted.  (mutate, CAS_SCRIPT)     *)
AcknowledgedStays ==
    Present =>
        /\ 1..Smaller(sender.first - 1, PartCount) \subseteq Committed(drop)
        /\ sender.pc = "done" => drop.status = "ready"
        /\ drop.delivered >= Cardinality({r \in Receivers : rx[r] = "told"})

(* A ciphertext without a record is one that arrived after a deletion had  *)
(* passed its part, or whose delete failed while it was not committed:     *)
(* everything else is still named by a record, which the sweep will find.  *)
(* (deleteDrop)                                                            *)
StrayEscaped == sender.pc # "create" /\ ~Present => blobs \subseteq escaped

(* The ceiling of the service is exactly what a transfer needs: whatever   *)
(* was committed so far, by whichever requests, no commit of parts of the  *)
(* plan is ever refused as too large, and a transfer that is ready has     *)
(* used the ceiling up.  The service counts ciphertexts against declared   *)
(* plaintext, empty files and repeated commits included.                   *)
(* (applyPartCommits, ciphertextCeiling, buildPlan)                        *)
CeilingIsExact ==
    Present =>
        /\ \A ps \in SUBSET Parts : ApplyPartCommits(drop, ps)[1] # 413
        /\ drop.status = "ready" => SumOf(drop.parts) = Ceiling

(* A removed transfer does not come back, by whichever request was being   *)
(* served, and a transfer never goes back from ready or forgets a part.    *)
(* (CAS_SCRIPT, mutate)                                                    *)
NeverBack ==
    [][/\ sender.pc # "create" /\ ~Present => drop'.status = "none"
       /\ Present /\ drop'.status # "none" =>
             /\ drop.status = "ready" => drop'.status = "ready"
             /\ Committed(drop) \subseteq Committed(drop')]_vars

=============================================================================
