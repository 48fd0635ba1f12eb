# A TLA+ model of Print-cess

Print-cess prints a document from a visitor's phone on a kiosk in a club,
without accounts and without the server ever seeing the document: the phone
scans a QR code, encrypts the file for the kiosk and uploads the ciphertext to
a private blob store; the kiosk downloads it once, decrypts, validates and
prints it; then everything is deleted. Beside that, one phone can send files to
another through the same blob store ("drops"), with a link or a short pairing
code. This directory models that system in
TLA+, checks it with TLC and proves part of it with TLAPS. Paths below are
relative to the repository root; `upstash.ts` and the like are under
`apps/web/src/server/`.

## The system

| Component | Where | State | Operations |
| --- | --- | --- | --- |
| Session life cycle | `packages/protocol/src/status.ts`, `session.ts` | twelve statuses and the table between them | `canTransition` |
| Redis session store | `server/session-store/upstash.ts` | one JSON record per session with a revision and a TTL; the orphan ledger and its due index; receipts | GET, then one of five Lua scripts that compare the revision |
| Memory and PostgreSQL stores | `session-store/memory.ts`, `postgres.ts` | the same, each operation atomic | the same interface |
| API routes | `apps/web/src/app/api/sessions/**`, `api/cleanup` | none of their own; signed URLs in flight | claim, upload authorize / start / complete, consume, transition, cancel, status, cleanup |
| Cleanup saga | `server/runtime.ts`, `server/cleanup/*`, `apps/cleanup-worker` | the plan in hand | prepare, delete blob, put receipt, finalize; sweep of due orphans; QStash callbacks |
| Blob transports | `server/blob/*` | ciphertexts by path | signed PUT (no overwrite), head, signed GET, conditional delete |
| Kiosk runtime | `apps/kiosk/.../KioskRuntimeCoordinator.cs`, `MainViewModel.cs` | the current registration, the session being run, what the screen shows and until when | create, poll, consume, validate, print, report; operator's discard and printer change |
| Kiosk print journal | `Core/Printing`, `Infrastructure/Recovery` | one file per document with a state | create started, update, block, resolve, prune |
| Hangul rendering | `Infrastructure/Printing` | a job folder per render, the worker's progress, the Hwp process taken for its own | render under a watchdog, stop, clean up, purge at startup |
| Drops | `server/drop-store`, `app/api/drops/**`, `lib/drop-transfer.ts`, `components/drop/*` | one record per transfer with its committed parts, seal and receiver counts; the page's state and refs | create, authorize and commit parts, seal, open, receipt, delete, sweep; send, stop, erase, restart; open, save, share, cancel |
| Pairing | `server/pairing-store`, `app/api/pairings/**` | escrowed transfer codes under a code and a shape; counters of misses | claim, join, redeem |
| Rate limiter | `server/rate-limit.ts` | windows of counters, one table per instance | count, look, evict |
| Visitor's page | `components/mobile/batch-mobile-flow.tsx`, `lib/print-status.ts`, `api-client.ts`, `unlock-pdf.ts` | the stage, the documents in hand, a password resolver, timers | claim, pick, unlock, print, watch, cancel, shut down |
| Crypto, validators, renderers, pages | elsewhere | none shared | pure functions, device I/O, presentation |

Phone and kiosk call the routes over HTTPS; every route is a process of its
own (a function instance) that shares nothing with the others but the session
store and the blob store. The phone PUTs to the blob store with a signed URL
and the kiosk GETs from it with another, so neither of these passes through the
routes. Cleanup is started by the routes that end a session, by a delayed
QStash callback, by the status poll of a session whose deadline has passed, by
an administrator and by a periodic sweep; any of them may run at the same time,
twice, late, or never.

What is hard here: a handler's decision is based on a record it read before
others changed it; a cleanup is four calls to three systems with a crash
possible between any two; a session outlives its deadline while the kiosk holds
a lease; the record's key is evicted by Redis while its ciphertext still
exists; the kiosk prints on a device that cannot take part in a transaction; a
request whose answer was lost is retried beside its first copy; a page goes on to
the next transfer while promises of the last one still write to its state.
`PROJECT.json` lists each such hazard at its line with the properties that
would catch it going wrong.

## Modules

| Module | What it models |
| --- | --- |
| `PrintSessionStatus` | the statuses and the transition table |
| `PrintSession` | the abstract life cycle of one session: no store, clock or concurrency |
| `SessionStore` | the Redis store, its concurrent handlers, the blob store and the cleanup saga |
| `PrintJournal` | the kiosk's journal files, the print jobs and app processes that share them |
| `KioskCoordinator` | the kiosk's session loop, screen, timer, operator actions and print thread |
| `HangulRender` | print threads, workers, Hwp processes and work folders of the Hangul renders |
| `SessionRows` | several sessions in the memory and PostgreSQL stores, the cleanup of each and the worker's sweep over all |
| `DropTransfer` | one drop from `sendDrop` over the routes and the Redis drop store to the receivers' events, erase and expiry sweep |
| `DropLife` | `DropTransfer` with the histories that its record forgets, and its refinement of the next |
| `DropService` | what the two pages of a drop see of that service; abstract, shared by the next three |
| `SendPage`, `ReceivePage` | the sender's and the receiver's page, one transfer after another |
| `DropPages` | both pages over one service |
| `PhonePage` | the visitor's page at the kiosk, over `PrintSessionStatus` |
| `RateLimit`, `Pairing` | the window table as operators; claim and join of pairing codes over it |
| `MC...` | constants and symmetry sets of the small instances |
| `SessionStoreProofs`, `SessionRowsProofs`, `PrintJournalProofs`, `KioskCoordinatorProofs`, `HangulRenderProofs`, `DropTransferProofs`, `PairingProofs`, `PagesProofs` | theorems |

### SessionStore

One session is enough: identifiers are random and never reused, and sessions
share only the due index, the order of the sweep, which is in `SessionRows`.

| State | Code |
| --- | --- |
| `session`, `stored`, `evictAt` | the JSON record under the session key, whether the key exists, its TTL. After eviction the last value is kept as history |
| `orphan` | the ledger entry `blobOrphanSchema` and its due time |
| `receipt` | the receipt key |
| `blobs`, `putUntil`, `getUntil`, `late` | the provider's objects and the signed URLs in flight; `late` is history |
| `work[w]` | the local variables of a handler or a cleanup: call, clock it read, snapshot, tries, plan |

A handler is `Call` (clock, GET, checks), then the script (`Commit`,
`AuthorizeUpload` or `MarkUploaded`), which only lands when the revision is the
one read, else `Retry`; `SignPut` and `SignGet` are the answers that carry a
URL. A cleanup is `Prepare` (clock, then `PREPARE_CLEANUP_SCRIPT`, one operator
per branch), `DeleteBlob`, `PutReceipt`, `FinalizeCleanup`. `TargetedCleanup`,
`ForcedCleanup` and `Sweep` are its callers. `Fail` ends any of them between
two calls, `Tick` is the wall clock and Redis' expiry. A path is named after
the handler that drew it, since at most one drawn path is ever stored. `Lag`
bounds how old a handler's clock is when its GET is answered. `Signed` is until
when the provider may accept a URL: Vercel and the local store take the deadline
as it is (`Second = 0`), S3 counts its life in whole seconds, rounded up and one
at least, also when the handler signs after the deadline (`blob/s3.ts:135`). The
other modules only have the result of it, `Rounding`.

### SessionRows

In PostgreSQL an operation is one transaction under the session's advisory lock,
in memory one turn of the event loop, so an action is an operation. What remains
are the clocks: a handler reads `Date.now()` before its operation, hence
`t \in Recent`. `row` is a session with its retention, `kept` the rows whose
session is not null, `ledger` the due times of the entries, `files` the blob
store and `seen` (history) what a `head()` may have found. `Write` is `mutate`;
`Prepare`, `DeleteBlob`, `FinalizeCleanup` are the calls of `cleanupSession`;
`Targeted`, `Forced` and `Sweep` start it. A sweep lists its entries once and
then goes by the clock it began with. With `Shared` an operation prunes the
sessions of all, as `memory.ts` does; the run has the rows of PostgreSQL. Each
session is shown to implement `PrintSession` (`RowsFollowLifecycle`), with every
consume identifier a kiosk may present.

### PrintJournal

`file` is the journal directory, with `"torn"` for a file that exists without a
readable record, `old` the records older than a day, `papers` (history) what
the spooler took since a file was created. A job goes `Create`, `Mark`, then
the engine (`Reject`, `Ready`, `Submit`, `SubmitFails`, `EngineThrows`), then
`Check` and `Replace`, the two halves of `UpdateByHashAsync`; `UpdateThrows` is
the catch clause that tries once more. A process goes `Start` (recovering),
`Blocked` (pruning), `Recovered` (running); `Hold`, `Move` and `HoldRefused` are
its own updates. `Restart` starts the next process before this one has ended,
as `OnRestart` does.

### KioskCoordinator

All of `RunSessionAsync`'s continuations, the view timer and the clicks run on
the dispatcher thread, so an action is the code between two awaits. A result
that a caller awaits is appended to `queue` and taken from its head: two
results are handled in the order they came. `onReadyToSubmit` is the exception:
it is awaited on the print thread and its continuation runs off the dispatcher,
so `Resume` performs it at once.

| State | Code |
| --- | --- |
| `active`, `current`, `currentConsumed`, `doomed`, `changing` | `_activeSession`, `_currentRegistration`, `_currentSessionConsumed`, `_adminDiscardSessionId`, `_printerChangeInProgress` |
| `run[r]` | one activation of `RunSessionAsync`: the await it is at, what it will show (`then`), its local `consumed`, its token, the print thread (`engine`), and whether its document is on paper (history) |
| `screen` | `State` and `_deadline` (set or not) of `MainViewModel`, and the run that wrote it (history) |
| `requests`, `awaiting` | calls under way to the server or blob store, and who still waits for them |
| `server[r]` | the session's status at the server, which follows `PrintSessionStatus`; `Phone` and `Expire` move it too |

Time is left out of deadlines: a timer may fire at any moment while its screen
has one, which allows every ratio of the real durations. A slot of `Runs` is
used again when its run has ended and nobody waits for a call of it; two slots
allow a run and the one it replaces, which is every pair of runs that can
interfere, and a third only starts when one of the two has ended. A request
whose caller gave up stays in `requests` when it can still move the session.
Answers are `ok`, `refused` (an error status), `lost` (timeout or no
connection, for the 5-second calls also their own timeout) and `broken` (cut
off in the body, an `IOException` that the clients pass through). A call that
reports the end of a session and is `guarded`, because it is made in the `try`
of `RunSessionAsync` (`:397`, `:528`), comes back to its catch clause when its
answer is broken: the session is reported once more and the kiosk suspended
(`Throw`). When the call of a catch clause itself (`:418`, `:426`) is broken, the
run ends as it is. The server is an abstraction of `SessionStore`: it grants what
the table allows.

### HangulRender

A render has two threads: the caller in `HangulRenderWatchdog.Run` (`Begin`,
`Finished`, `GiveUp`, `Drained`) and the worker in `RenderInJobDirectory`
(`CreateInput` to `WorkerDeletes`), which goes on when the caller has given up.
`hwp` is the machine's Hwp processes, each named after the render that asked COM
for it or a guest of the staff; `before` and `owned` are `OwnedHancomProcess`;
`folders` and `files` are the work root; `open` what Hancom holds open. The two
time limits are left out: a wait may end at any moment. A call of Hancom ends
when it ends, so a worker may stay where it is for ever. `Crash` and `Start`,
`Restart` and `Leave` are the kiosk's process, whose threads are background
threads and die with it; `deaf` and `cut` (history) are the documents that only
the next start can remove.

### Drops

`DropTransfer` has the record (`drop`), the ciphertexts (`blobs`), the sender's
program (`sender`, one runner per part in `part`), the receivers (`rx`) and the
requests being served (`call`), each with the record its route read, the record
the store read and the clock. A mutation is read, compute, compare-and-set, with
`MaxCas` tries. `AskAgain` is `withRetry` after an answer that did not come: the
first request stays in `call` and may be served later. `StartPut`, `Arrive`,
`Land` and `LandStray` are a PUT and the PUT whose sender gave up.
`DeletePart` walks over the parts for an erase, a revoke or the sweep and
forgives what `deleteDrop` forgives.

`SendPage` and `ReceivePage` keep the page's React state and its refs apart,
because a promise of the last transfer reads the ref of the next. Transfers are
numbered in the order in which the page starts them. In `SendPage`, `late` is
history: the record was created after the page had left the send (Divergences).
In `ReceivePage`, `todo` is the set of indices a save still has to go through;
the loop of `saveRemaining` takes them in ascending order, `First`. Saves
overlap, since the page looks busy only once the wake lock is granted. It holds
one controller (`cancel`), that of the save begun last: another save can be
`adrift` (history), left under way and not told to stop when the page turns to
the next transfer. Each member of `Saves` is one save and is begun once, in a
fixed order: they have no other names.

Each page is checked with an environment that does to a transfer what
`DropService` allows (`ReceiverActs`, `SenderActs`). `DropPages` puts the two
pages themselves over one service, and `DropLife` shows that the service is the
one of `DropTransfer`: a transfer's `svc` is the status of its record, or "gone"
once that is removed, and `seen` is the furthest event the record has counted,
which is kept when the record goes. Both are histories there. The refinement is
of the record; that a route answers 410 before the sweep has removed an expired
one is in `DropTransfer` and is no step of the service.

### PhonePage

`page` is the component's state, `attempt` the shared claim, `pick[p]` a run of
`chooseFiles` with its await, `printing[r]` a run of `print`, `wiped` the
documents whose bytes `clearDocuments` has zeroed. The session's variables are
those of `PrintSession`; kiosk, clock and another phone move them. The kiosk's
consume is two steps, its clock (`KioskReads`, after which it is `reading`) and
its landing or refusal (`KioskConsumes`); `raced` (history) says that one was under
way when the session's time ran out.

### Pairing and RateLimit

A join is `Enter` (the two windows of the address), `Check` (the shared budget),
one of the outcomes of `REDEEM_SCRIPT`, `RecordMiss`, `CountMiss`: each a call of
its own, with a `Restart` of the instance possible between. `RateLimit` has no
variables: its operators take the table and return the next. The table is a set
of windows; the order in which the `Map` is gone through is their `place`.

## Runs

Deadlock is checked in the runs of `SessionStore`. The others say
`CHECK_DEADLOCK FALSE`: an app or a page may end, a transfer is over when it is
over, and with the bounds on clock and crashes spent nothing is left to do.

| Run | Asks | Bounds |
| --- | --- | --- |
| `store_race` | may two phones, two readers, two handlers, a sweeper and an administrator's forced cleanup disturb record, ledger, blob or capabilities, and does the record implement `PrintSession`? | 2 handlers, 1 cleaner, a provider that counts in seconds of two ticks, clock to 2, no failures |
| `store_crash` | does every ciphertext keep its ledger entry when handlers and cleanups die and the key is evicted; is a session ever sealed early; are ciphertext and ledger entry gone in the end? | 1 handler, 1 sweeper, 1 ciphertext a path, leases longer than the session, 1 failure, clock to 5 |
| `journal` | the four promises of the journal | 2 documents, 2 jobs, 2 processes, 2 crashes, 1 overlapping restart, 2 faults |
| `hangul` | does a decrypted document outlast its render, is a Hancom of others ever stopped? | 2 renders, 2 Hancoms of staff (one in another session), 1 crash or overlapping restart |
| `store_rows` | are several sessions kept apart, and does the sweep reach every entry? | 2 sessions, one of whose phones leaves before the upload and whose ciphertext cannot be deleted; 1 sweeper that may die once, 1 other cleanup, 2 consume identifiers, clock until the last entry is due |
| `kiosk` | five promises of the session loop | 2 runs at a time, 1 click (discard or printer), 1 fault (lost or broken answer, engine failure) |
| `kiosk_live` | is every screen left again when answers are lost and their requests served late? | 2 runs, 1 lost answer or engine failure, no clicks |
| `drop` | is what can be opened whole, does an acknowledgement stand, what can be left behind? | a short file or a file of two parts and an empty one (two batches) with 1 fault and 1 receiver; a file and an empty one with 2 receivers and no fault; clock to the expiry |
| `send_page` | does the page tell the truth about the transfer it shows, and does every send end? | 2 transfers, 2 attempts, 2 faults |
| `receive_page` | is a delivery only reported, and a file only shown as saved, when the visitor has it; does waiting end? | 2 transfers of 2 and 1 files, 2 saves that may overlap, 1 fault |
| `phone` | does the page say what became of the print, print what was previewed, and forget it? | 2 picks (a bundle, a locked PDF), 2 runs of print, 2 runs of the effect, 1 lost request or answer, another phone |
| `pairing` | is a code taken once, are guesses bounded, does a blocked address wait? | 2 joins at a time of 3, 2 codes, 2 pairings, 2 addresses, 2 windows, clock to 2, 1 restart |

Why the bounds are enough. In the store, a lost update needs two writers of one
revision, a stale cleanup one plan and one other writer; the clock needs one
tick for each of: deadline, lease, key expiry, and one beyond. TTLs of 1 or 2
order these in all ways the real values allow for the properties at hand. In
`store_race` a session and its lease last one tick: at clock 2 both are over,
the key with them, and a second of two ticks that was granted at clock 0 or 1
outlives them. In
the journal, a document is endangered by one job, one recovery and one
predecessor; the second document and job show that they do not get in each
other's way. A lease of two ticks in `store_rows` is renewed past the deadline
and the retention of one. A drop goes wrong by one retry beside its first copy,
by one batch after another, by one deletion beside an upload: two parts a batch,
two batches and two attempts have all of them. A render is confused by one
straggler of an earlier one, and by a Hancom of staff from before or of another
session. A page goes wrong by what is left
of one transfer when the next is shown, so two are enough, and a save by one other
save beside it or behind it. At the kiosk, faults and clicks are bounded, the number of
sessions one after the other is not.

Every property of a passing run is also run against a mutant of the model (operators
marked "mutant", each a plausible bug of the line it stands for), which must
violate it.

### Fairness

- `SessionStore!FairSpec`: time passes, a cleanup that began goes on unless it
  fails, and the sweeper visits a due entry again and again: it is a periodic
  worker (`apps/cleanup-worker`). Nothing is asked of phone or kiosk.
- `PrintJournal!LiveSpec`: a starting process goes on, one that is shutting
  down ends, and a suspended app is restarted, as the runbook demands.
- `KioskCoordinator!LiveSpec`: the dispatcher and the print thread go on,
  timers fire, an awaited request is served in the end or its wait ends, and a
  session's deadline passes at the server, whose answer ends the poll. Clicks
  and phones are free. A body that stalls for ever is not modelled: see
  Not modelled.
- `SessionRows!LiveSpec`: time passes, the worker polls again and again, and a
  cleanup that began goes on unless its process dies. Nothing is asked of
  requests, callbacks or the administrator.
- `SendPage`, `ReceivePage`, `PhonePage`: a request is answered or times out
  (`fetch` with a signal, `AbortSignal.timeout`), a transfer's time passes, and
  the watch has a deadline of its own. Nothing is asked of the visitor, of the
  other phone or of the kiosk.

### Other configurations

Two instances are too large for the runs and pass on their own:
`tlc -config MCDropPages.cfg MCDropPages` checks `DeliveredIsThere` with both
pages, two transfers of one file, two saves, one attempt and no faults (13.1
million states), and
`tlc -config MCDropLife.cfg MCDropLife` checks `FollowsService` and
`CeilingIsExact` on the instances of `drop` (1.6 million states). All three are
theorems as well.

## Findings

What a document says and the code does not keep. Each has a configuration beside
the modules that reproduces it: `tlc -config X.cfg M` ends with the trace
(with `-continue` where it has two properties).

| Configuration, module | Property | What happens |
| --- | --- | --- |
| `MCSessionStore_late`, `MCSessionStore` | `NoUntrackedCiphertext` | Cleanup deletes once and drops the ledger entry (`runtime.ts:184`) while the signed PUT is still valid; the PUT that lands afterwards is named by nothing and stays. `README.md:54`: "Every ending ... leads to deletion." |
| `MCSessionRows_memory`, `MCSessionRows` | `SessionKept` | A forced cleanup passes its future clock to the memory store, which prunes every session by it (`memory.ts:247`). A visitor's session of 600 s lives beyond a QR code's 120 s and its row's 300 s, so forcing the one deletes the other while it is in use. |
| `MCSessionRows_starve`, `MCSessionRows` | `SweepReaches` | Entries that fail at every visit stay at the head; when they are as many as a sweep visits (3 to 25), the others are never cleared (`runtime.ts:287`). |
| `PrintJournal_torn`, `PrintJournal` | `StartupCompletes` | A crash between the creation of a journal file and the writing of its record leaves a file that stops every later startup (`FilePrintSubmissionJournal.cs:36`). `docs/OPERATIONS_RUNBOOK.md:45`: "Startup cleanup completes and a fresh QR appears". |
| `PrintJournal_overlap`, `PrintJournal` | `StartupSurvives` | An administrator's restart while a print settles its record ends the new process in an exception nobody catches (`PrintRecoveryService.cs:32`). |
| `HangulRender_restart`, `HangulRender` | `StartClears` | `OnRestart` starts the next process, which purges the work folders, before this one ends (`AdminStatusWindow.xaml.cs:313`): what the old process still writes stays until the start after next. `HancomWorkspace.cs:8`: "The kiosk clears the folder on every start." |
| `HangulRender_staff`, `HangulRender` | `StopsItsOwn` | A Hancom that staff start in the kiosk's session while a render waits for its own is the one new process, and the time limit kills it. `HancomProcessOwnership.cs:7`: "so a time-limited render stops only that process". |
| `MCKioskCoordinator_cancel`, `MCKioskCoordinator` | `EndKeepsService` | A visitor who cancels between the poll and the consume takes the kiosk out of service until staff come (`KioskRuntimeCoordinator.cs:436`). `docs/ARCHITECTURE.md:157`: "Terminal; cleanup and fresh kiosk key/session." |
| `MCKioskCoordinator_late`, `MCKioskCoordinator` | `ResultBelongs` | The result of a discarded session replaces the next visitor's screen (same line). `docs/OPERATIONS_RUNBOOK.md:64`: "no prior QR/status remains." |
| `MCKioskCoordinator_broken`, `MCKioskCoordinator` | `BackInService` | When the call with which a catch clause reports a failure (`KioskRuntimeCoordinator.cs:418`, `:426`) is cut off in the body of its answer, no handler takes the exception (`:591`, `:607`) and the kiosk stays at the screen it had, for instance "validating", for ever. The same exception of a discard ends the app (`Interrupted`). |
| `SendPage_promises`, `SendPage` | `RevokesOwn` | The catch clause of a send erases whatever record the ref names by then: an erased transfer's last request, refused late, erases the next transfer, whose code is on the screen (`send-flow.tsx:235`). |
| `SendPage_promises`, `SendPage` | `ErasedIsGone` | The page says that a transfer is erased although the request was lost (`send-flow.tsx:297`), or marks the next transfer when the answer for the last comes late; the wording (`packages/i18n/src/index.ts:248`) promises that nobody can open it. |
| `PhonePage_cancels`, `PhonePage` | `KioskOwnsCommitted` | When the answer of the commit is lost the page cancels a session that waits for the kiosk, or is refused and tells of a failure while the kiosk prints (`batch-mobile-flow.tsx:436`). `lib/print-status.ts:4`: "After it, the kiosk owns the work". |

### Divergences

Differences between documents and code met on the way, visible in the code
alone and without a run of their own:

- `consume` signs its GET until `min(lease, now + 30 s)`, which may be later
  than the session's deadline (`consume/route.ts:35`), while
  `docs/ARCHITECTURE.md:78` caps every signed URL at it. And S3 is asked for
  whole seconds, rounded up and one at least (`blob/s3.ts:135`), so a PUT outlives
  the deadline, and a GET the lease, by up to a second; one that is signed late
  lasts a second from then. `CapabilitiesBelong` states the bound the code keeps.
- A repeated consume with the same identifier is answered with a URL again
  while the lease lasts (`upstash.ts:400`); `docs/ARCHITECTURE.md:172` says it
  conflicts.
- A session whose record is evicted before its cleanup was prepared gets a
  receipt that says `expired`, whatever its outcome (`upstash.ts:109`).
- Only `ShowClaimed` clears the QR image. A phone that has gone on to
  `upload_authorized` before the next poll leaves the used code on the screen
  (`MainViewModel.cs:119`), against `docs/ARCHITECTURE.md:125`.
- With two different ciphertexts PUT at one path around a crashed cleanup, the
  conditional delete is refused for ever and the ledger entry stays;
  `store_crash` checks `LedgerCleared` with one ciphertext per path.
- Drops: a ciphertext that lands behind a deletion, or whose failing delete was
  forgiven because the snapshot had not committed it, is left for ever;
  `StrayEscaped` says that nothing else is.
- Sending: the late failure of a transfer that was erased puts the page in its
  error while the next one is being created. If the visitor starts a third, the
  record of the second comes first and its code is shown; when the third's comes
  too, `showCode` (`send-flow.tsx:181`) replaces the code and keeps what was said
  of the second's receiver. Without its condition on `late`, `ReceiverNotAhead`
  fails with three transfers; `send_page` has two, and the theorem any number.
- Receiving: two taps before the wake lock is granted start two saves, and the
  first to begin is no longer the one that Cancel or "receive another" stops
  (`receive-flow.tsx:243`, `:389`). While both work on the transfer they were begun
  for, `ShownFilesArrived` and `DeliveredIsWhole` hold; but the page can turn to
  the next transfer with the first still writing, by index, into the states of
  its files, which then are shown as saved or reported delivered. The properties
  hold until such a save is `adrift`, and without that exception they fail in
  `receive_page`. `shareOne` never reports a delivery
  (`docs/FILE_TRANSFER.md:188`). One failed poll of a pending transfer ends the
  waiting with an error.
- The visitor's page: pickers overlap. A pick that ends during the upload zeroes
  the bytes being encrypted or pulls the page back to the preview (`strayed` in
  `PhonePage`), and a second locked PDF overwrites the password resolver so that
  the first pick waits for ever.
- The status route reports `expired` by its own clock (`status/route.ts:36`)
  while a consume with an older one still lands: a visitor reads "expired" of a
  document that is printed (`raced` in `VerdictStands`).
- Pairing: `docs/FILE_TRANSFER.md:86` says about 180 guesses in a code's life.
  Its three minutes straddle four windows, and joins under way overshoot the
  budget of each; `GuessesBounded` states the bound the code keeps. An escrow is
  not removed when its transfer is revoked. The memory store (`pairing-store`)
  reads before an await where the Redis script is atomic.

## Proofs

All theorems hold for every value of the constants, under the assumptions named
in the modules: lifetimes and sizes are positive, bounds are natural numbers,
the addresses that join are finitely many, `None` is none of the values
(`RequestAssumption`: no request is the value `None` either).

- **PrintSession.** `PromiseInv` in `SessionStoreProofs` says for each status
  which of phone, ciphertext and reader are set; `Custody` follows, and so does
  `SettledOnce`.
- **SessionStore.** `TypeInvariant` first, then `SafetyInvariant`. The runs'
  invariants are not inductive: a handler acts on a snapshot, so the invariant
  says what a snapshot is worth (`Committing`: if its revision is current it is
  the record), what `head()` found (`Headers`), what a cleanup past its prepare
  may assume (`Cleaning`: the session has ended and stays so), and that only the
  session's path was ever signed (`OnePath`). What one actor's invariant needs of
  the steps of the others is proved once, as a lemma about how a record may move
  (`Forward`, `BlobForward`), and every action is shown to move it so.
  `UrlsAreBound` adds `Capable`: a handler that is about to sign knows a path,
  a deadline or a reader that no later step changes (`Knowing`, `Settling`), and
  a session that nobody has read has no reader (`Unread`). What S3 adds is a
  lemma about its arithmetic: a life rounded up to whole seconds ends less than a
  second after the deadline, or a second from now.
  `StoreImplementsLifecycle` shows that each step is a step of `PrintSession` or
  leaves the record alone, and carries the abstract theorems over.
- **SessionRows.** `IInv` says that a cleanup past its prepare, and a ciphertext
  that is gone, belong to a row that is over (`Cleaning`, `Deleted`); that only a
  forced cleanup goes by a clock ahead of time, and on a condemned session
  (`OnTime`); that a row is retained beyond deadline and lease (`Retained`) and
  until then kept (`Held`). What is over stays over in every step, which carries
  the first two. `RowsKept` follows. It assumes `Tame`: in memory, no cleanup is
  forced; without it the property fails (see Findings).
  `RowsImplementLifecycle` needs no such assumption.
- **PrintJournal.** The invariant is one of ownership: a file belongs to the job
  that created it until that job has settled it (`Owned`, `Apart`), a process
  about to replace a record holds one that exists (`Held`), and a pruner is the
  only process that is up and nobody holds what it prunes (`OneUp`, `Pruned`).
  `PrintsAtMostOnce` and `NoJobIsSilent` follow. What is true only until a
  restart overlaps a print is a second invariant, `Alone`: no process is
  stopping (`NoneStops`), jobs run only in a process that has recovered
  (`Running`), a recovering process still lists every interrupted job
  (`Listed`, `Blocking`), and a record about to be replaced is still the one that
  was checked (`Holding`, `Checked`). `RecoveryIsComplete` and `DoubtStands` follow.
- **KioskCoordinator.** `OneRunGoesOn`: a step either starts no run and revives
  none (`Calm`), or it is a fresh session, which cancels the active run in the
  same step that makes the new one active. The other four follow from one
  inductive invariant, `SafetyInvariant`, which says for each run how far its
  server, its print thread and the answers in the queue may be apart: at most
  one answer to a run waits to be handled (`Waiting`); a thread that spools was
  answered by a server that records printing (`PaperTold`); a run with a cancel
  on its way never consumes (`CancelSpares`); the flags that all runs share
  speak for the run that goes on (`FlagsTell`), because a new run resets them
  only after the one before was cancelled (`ClearsFirst`); and a screen
  with an outcome names a run that has it (`ScreenTells`).
- **HangulRender.** Whoever of print thread and worker comes last deletes the
  document unless Hancom has it open, and a Hancom that still has it open after
  the worker's quit did not listen (`Opened`, `Held`); what a render takes for
  its own Hancom was not there before it began (`Chosen`). `DocumentIsGone` is
  one of the conjuncts, `StaffIsSpared` follows from `Chosen`.
- **DropTransfer.** First the plan. The code sums parts over the files, the
  model folds over their sizes; that the service accepts the number of parts the
  sender plans (`PlansAreAccepted`) and that the parts hold every byte once
  (`PlansCoverFiles`) are inductions over the files. They are carried out over a
  set of naturals: a least file for which the claim fails exists by the library's
  `WFMin`, so no theorem with an operator as parameter is needed. With `Whole`
  the second gives `NothingIsTooLarge`: the ceiling the service works out from
  the declared size refuses no commit and is met exactly. Then the transfer. `IInv` says who waits for each request (`Asks`),
  that a request about to write has read the record it would write over
  (`Snapped`), what a deletion has passed (`Passes`), that a commit has seen the
  sizes of its parts (`Headed`), and from these where ciphertexts may be (`Gone`,
  `Held`), what a record names (`Whole`) and what phones were told (`Acked`).
  One lemma per action shows what it does to the request that takes it; what it
  leaves of the others' requests is proved once, for any step that moves the
  record forward.
- **Pairing.** A pairing lies under one code at most, nobody has taken it while
  it does, and its record counts the wrong shapes tried (`Escrowed`, `Taken`):
  hence `OneReceiverAtMost`. For `GuessesAreBounded` every wrong guess is
  counted in its window, about to be counted, or lost with its handler
  (`Counting`), and the handlers past the check of a window that is spent were
  all past it when it was spent (`Budget`), which bounds the overshoot by the
  number of joins under way. Nothing of this rests on the limiter's table. For
  `BlockedAddressesWait` the table only has to be `Sound`: the windows of the
  misses share one limit. `SpentStays` then says of one call of the limiter, for
  a table of any size, that it neither evicts a spent window nor sets it back.

- **The pages.** The visitor's page: the server's session is in order
  (`Custodied`), the claim is what the one request came back with (`Claimed`), a
  selection is on the page, being checked or wiped (`Selected`), a print under
  way holds what is on the page unless a pick strayed (`Undisturbed`), nothing
  is committed when the page tells of a failure and nothing was lost
  (`Uncommitted`), and the last stages say how the session ended (`Ended`).
  `NoSelectionIsForgotten`, `WhatIsSealedWasSeen` and `VerdictsAreTrue` follow.
  The sender's: every status answer that the page still heeds is of the transfer
  it shows (`Heard`), because whatever changes the transfer drops the answers
  under way. The receiver's, for any number of overlapping saves and until one
  is adrift: a save works on the files of the page (`OnPage`), or was told to stop
  before the page left them (`Held`, `Stopped`) and then fetches nothing
  (`AtWork`). `DeliveriesAreWhole` and `ShownFilesAreThere` follow for every
  behaviour of the page, their exception being the one the properties name.
- **Refinements.** `PhoneFollowsLifecycle`: the visitor's page, its requests and
  the kiosk use the session only as `PrintSession` has it; what there is to show
  is that a page which commits has sealed something.
  `TransferIsTheService`: what any step of a transfer does to the record is its
  creation, one mutation or its removal (`RecordMoves`), since a request that
  writes does so over the record it has read (`Snapped`); a mutation commits,
  seals or counts one event (`MutationMoves`), and one more event moves the
  furthest event forward or not at all (`CountsMove`). `PagesCompose`: a step of
  one page is, to the other, a step of the environment that page was proved in.
  For this the names each page keeps must be of transfers that exist: the sender
  only revokes, erases and polls what it has created (`NamesMade`), and the
  receiver only saves and reports what it has opened (`Aimed`). The invariants of
  the pages then hold together, and `WhatIsDeliveredIsThere` follows from
  `ReceiverNotAhead` of the one and `DeliveredIsWhole` of the other: "delivered"
  on the sending phone means that the receiving phone has every file (as long as
  no record came late to the one page and no save is adrift on the other).

`Custody` and `SettledOnce` of the store (`StoreKeepsCustody`, `StoreSettles`)
follow from `LifecycleSpec`, which `store_race` checks, and from what that
specification implies (`CustodyKept`, `Settled`); they have no run of their own.

Model-checked only:

- Every liveness property (`LedgerCleared`, `CiphertextDeleted`, `SweepReaches`,
  `BackInService`, `SendEnds`, `PendingEnds`, `PrintEnds`): fairness and ENABLED
  are out of the prover's reach.

## Not modelled

- Receipts in `SessionRows`: they are written and read as in `SessionStore`.
- The PostgreSQL and memory stores of drops and pairing: the Redis ones are
  modelled, with either client (`drop-store/upstash-client.ts` wraps the REST
  client for the same scripts).
- The budget of open drops (`drop-budget.ts`) and the link and name parsing of
  the drop pages.
- The administrator's throttle at the kiosk: planned, see below.
- Cryptography, document parsers, the scanner: pure functions over bytes.
- The drawing of pages, `HancomPathPolicy`'s checks of paths, printer drivers, translations, the other pages, promotion,
  acceptance scripts and workflows: device, presentation and tooling, more than
  half of the repository's lines.
- The worker's backoff, jitter and configuration: only that it polls again
  matters to the sweep.
- A response body that never ends. The clients' timeout covers headers only, so
  the kiosk would wait in a screen without a timer; this is listed as a hazard.
- The end of the kiosk app with a call of `Dispose` under way: the app is then
  down and the server's own cleanup, `SessionStore`, takes over.

## Plan

Done: all modules above are model-checked; the life cycle, the stores, the
journal, the kiosk, the Hangul renders, drops, pairing and the pages have proofs
of all the safety properties their runs check. Left, most important first:

1. Composition of `KioskCoordinator` with the leases of the stores: the
   processing lease is never renewed while a long print runs.
2. `AdminThrottle`: failure counter, lock-out and its persistence.
