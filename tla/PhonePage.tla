----------------------------- MODULE PhonePage ----------------------------
(***************************************************************************)
(* The visitor's page at the kiosk (components/mobile/batch-mobile-flow):  *)
(* it claims the session of the QR code, checks the files the visitor      *)
(* picks, unlocks locked ones, encrypts and uploads what is on the         *)
(* preview, and watches the print.  The session is PrintSession; the       *)
(* kiosk, the clock and another phone are its environment.  Every handler  *)
(* is asynchronous: two picks, or a pick and a print, may overlap.         *)
(***************************************************************************)
EXTENDS PrintSessionStatus, FiniteSets, Naturals

CONSTANTS
    Me,         \* this page's claim
    Other,      \* the claim of another phone
    Picks,      \* bound: the selections the visitor makes
    Bundles,    \* the selections of several files: copied when printed
    Locked,     \* the selections with a locked PDF
    Prints,     \* bound: runs of the print handler
    Kiosk,      \* the kiosk's read
    None,
    MaxMounts,  \* bound: how often the effect runs
    MaxFaults   \* bound: requests or answers that are lost

ASSUME PhoneAssumption ==
    /\ Bundles \cup Locked \subseteq Picks
    /\ Me # Other /\ None \notin {Me, Other, Kiosk, "zeros"} \cup Picks
    /\ "zeros" \notin Picks
    /\ MaxMounts \in Nat \ {0} /\ MaxFaults \in Nat

VARIABLES
    status, phone, etag, reader,  \* the session, as the server keeps it
    due,      \* the session's time is over
    reading,  \* a consume of the kiosk that read the clock is under way
    raced,    \* history: one was under way when the time ran out
    page,     \* the state of the page
    attempt,  \* claimAttempt: what became of the one claim
    pick,     \* how far each selection is
    wiped,    \* the selections whose bytes are zero
    printing, \* the runs of the print handler
    faults,
    strayed   \* history: a pick ended while the page did not wait for it

session == <<status, phone, etag, reader>>
clock == <<due, reading, raced>>
server == <<session, clock>>
vars == <<session, clock, page, attempt, pick, wiped, printing, faults, strayed>>

Session == INSTANCE PrintSession
    WITH Phones <- {Me, Other}, Readers <- {Kiosk}, Etags <- Picks \cup {"zeros"}

---------------------------------------------------------------------------
NoPrint == [at |-> "idle", doc |-> None, sealed |-> None, error |-> "none"]

Init ==
    /\ Session!Init
    /\ due = FALSE /\ reading = FALSE /\ raced = FALSE
    /\ page = [stage |-> "boot", docs |-> None, claimed |-> FALSE,
               told |-> "none", asks |-> None, mounts |-> 0, closing |-> FALSE]
    /\ attempt = "none"
    /\ pick = [p \in Picks |-> "idle"]
    /\ wiped = {}
    /\ printing = [r \in Prints |-> NoPrint]
    /\ faults = 0 /\ strayed = FALSE

Fault == faults < MaxFaults /\ faults' = faults + 1
NoFault == UNCHANGED faults

(* requireMutableSession and assertTransition: a call of the phone that is *)
(* answered 200.                                                           *)
Accepts(to) == ~due /\ CanTransition(status, to)

(* The status of a refusal, as the page words it. *)
Refusal == IF due THEN "expiredQr" ELSE "networkError"

(* clearDocuments, with what the handler sets along with it *)
Clear(docs, stage, claimed, told) ==
    /\ wiped' = wiped \cup ({page.docs} \ {None})
    /\ page' = [page EXCEPT !.docs = docs, !.stage = stage,
                            !.claimed = claimed, !.told = told]

---------------------------------------------------------------------------
(* The claim *)

(* The attempt is shared by the runs of the effect. *)
ClaimsOnce == IF attempt = "none" THEN "asking" ELSE attempt

(* The effect runs, and may run again while the page boots. *)
Mount ==
    /\ page.stage = "boot" /\ page.mounts < MaxMounts
    /\ page' = [page EXCEPT !.mounts = @ + 1]
    /\ attempt' = ClaimsOnce
    /\ UNCHANGED <<server, pick, wiped, printing, faults, strayed>>

(* claimOnce, the request: the session becomes this page's, or is someone's *)
(* already, or its time is over.                                            *)
AskClaim ==
    /\ attempt = "asking"
    /\ \/ /\ Accepts("claimed")
          /\ Session!Claim(Me)
          /\ \/ attempt' = "answered" /\ NoFault
             \/ attempt' = "networkError" /\ Fault
       \/ /\ ~Accepts("claimed")
          /\ attempt' = IF due THEN "expiredQr" ELSE "usedQr"
          /\ NoFault /\ UNCHANGED session
       \/ attempt' = "networkError" /\ Fault /\ UNCHANGED session
    /\ UNCHANGED <<clock, page, pick, wiped, printing, strayed>>

(* claimOnce, the answer: a key other than the one on the QR code (someone  *)
(* answered in the server's place) cancels the session.                     *)
CheckKey ==
    /\ attempt = "answered"
    /\ \/ attempt' = "ok" /\ NoFault /\ UNCHANGED session
       \/ /\ attempt' = "fingerprintMismatch"
          /\ Fault
          /\ IF Accepts("cancelled") THEN Session!Advance("cancelled")
                                     ELSE UNCHANGED session
    /\ UNCHANGED <<clock, page, pick, wiped, printing, strayed>>

(* Whichever run of the effect is mounted applies the outcome. *)
Booted ==
    /\ page.stage = "boot"
    /\ attempt \notin {"none", "asking", "answered"}
    /\ page' = IF attempt = "ok"
               THEN [page EXCEPT !.stage = "file", !.claimed = TRUE]
               ELSE [page EXCEPT !.stage = "error", !.told = attempt]
    /\ UNCHANGED <<server, attempt, pick, wiped, printing, faults, strayed>>

---------------------------------------------------------------------------
(* Picking: chooseFiles runs while the page keeps its two pickers *)

Choose(p) ==
    /\ page.stage = "file"
    /\ pick[p] = "idle"
    /\ pick' = [pick EXCEPT ![p] = "checking"]
    /\ UNCHANGED <<server, page, attempt, wiped, printing, faults, strayed>>

(* A pick ends: on the page that waits for it, or on another. *)
Ends == strayed' = (strayed \/ page.stage \notin {"file", "password"})

ForgetsOld(p) ==   \* mutant: the selection before is replaced, not cleared
    /\ UNCHANGED wiped
    /\ page' = [page EXCEPT !.docs = p, !.stage = "preview"]
Preview(p) == Clear(p, "preview", page.claimed, page.told)

(* Everything picked is printable. *)
Picked(p) ==
    /\ \/ pick[p] = "checking" /\ p \notin Locked
       \/ pick[p] = "unlocking"
    /\ pick' = [pick EXCEPT ![p] = "held"]
    /\ Preview(p)
    /\ Ends
    /\ UNCHANGED <<server, attempt, printing, faults>>

(* A file that is refused, or a password that is not given. *)
Reject(p) ==
    /\ pick' = [pick EXCEPT ![p] = "dropped"]
    /\ wiped' = wiped \cup {p}
    /\ page' = [page EXCEPT !.stage = "file", !.asks = IF @ = p THEN None ELSE @]
    /\ Ends
    /\ UNCHANGED <<server, attempt, printing, faults>>

Refused(p) == pick[p] \in {"checking", "unlocking"} /\ Reject(p)
GiveUp(p) == page.stage = "password" /\ page.asks = p /\ Reject(p)

(* askPdfPassword, again after a wrong one (MAX_PDF_PASSWORD_ATTEMPTS is     *)
(* left out): the answer goes to the pick that asked last.                  *)
AskPassword(p) ==
    /\ p \in Locked /\ pick[p] \in {"checking", "unlocking"}
    /\ pick' = [pick EXCEPT ![p] = "asking"]
    /\ page' = [page EXCEPT !.stage = "password", !.asks = p]
    /\ Ends
    /\ UNCHANGED <<server, attempt, wiped, printing, faults>>

GivePassword(p) ==
    /\ page.stage = "password" /\ page.asks = p
    /\ pick' = [pick EXCEPT ![p] = "unlocking"]
    /\ page' = [page EXCEPT !.asks = None]
    /\ UNCHANGED <<server, attempt, wiped, printing, faults, strayed>>

ChooseAgain ==
    /\ page.stage = "preview"
    /\ Clear(None, "file", page.claimed, page.told)
    /\ UNCHANGED <<server, attempt, pick, printing, faults, strayed>>

---------------------------------------------------------------------------
(* Printing *)

Step(r, at) == printing' = [printing EXCEPT ![r].at = at]
FailsWith(r, error) ==
    printing' = [printing EXCEPT ![r].at = "cancelling", ![r].error = error]

SendDocument(r) ==
    /\ page.stage = "preview" /\ page.docs # None /\ page.claimed
    /\ printing[r].at = "idle"
    /\ page' = [page EXCEPT !.stage = "transfer"]
    /\ printing' = [printing EXCEPT ![r].at = "encrypting", ![r].doc = page.docs]
    /\ UNCHANGED <<server, attempt, pick, wiped, faults, strayed>>

(* encryptDocument copies the bytes after its first awaits; a bundle was    *)
(* copied before.                                                           *)
Sealed(doc) == IF doc \in wiped \ Bundles THEN "zeros" ELSE doc

Encrypt(r) ==
    /\ printing[r].at = "encrypting"
    /\ printing' = [printing EXCEPT ![r].at = "authorizing",
                                    ![r].sealed = Sealed(printing[r].doc)]
    /\ UNCHANGED <<server, page, attempt, pick, wiped, faults, strayed>>

(* authorizeUpload, startUpload, completeUpload and the PUT between them:   *)
(* none is tried again.                                                     *)
Target(at) == CASE at = "authorizing" -> "upload_authorized"
                [] at = "starting"    -> "uploading"
                [] OTHER              -> "uploaded"
After(at) == CASE at = "authorizing" -> "starting"
               [] at = "starting"    -> "putting"
               [] at = "putting"     -> "completing"
               [] OTHER              -> "watching"

Carries(r) ==
    IF printing[r].at = "completing" THEN Session!CommitUpload(printing[r].sealed)
                                     ELSE Session!Advance(Target(printing[r].at))

(* The last step shows the progress of the print. *)
Proceed(r) ==
    /\ Step(r, After(printing[r].at))
    /\ IF printing[r].at = "completing"
       THEN page' = [page EXCEPT !.stage = "progress"] ELSE UNCHANGED page

Answered(r) == Proceed(r) /\ NoFault

Request(r) ==
    /\ printing[r].at \in {"authorizing", "starting", "completing"}
    /\ LET ok == Accepts(Target(printing[r].at))
       IN \/ ok /\ Carries(r) /\ Answered(r)
          \/ ok /\ Carries(r) /\ FailsWith(r, "networkError") /\ Fault /\ UNCHANGED page
          \/ ~ok /\ FailsWith(r, Refusal) /\ NoFault /\ UNCHANGED <<session, page>>
          \/ FailsWith(r, "networkError") /\ Fault /\ UNCHANGED <<session, page>>
    /\ UNCHANGED <<clock, attempt, pick, wiped, strayed>>

Put(r) ==
    /\ printing[r].at = "putting"
    /\ \/ Proceed(r) /\ NoFault
       \/ FailsWith(r, "networkError") /\ Fault /\ UNCHANGED page
    /\ UNCHANGED <<server, attempt, pick, wiped, strayed>>

(* cancelClaim, whatever the server answers *)
CancelClaim(r) ==
    /\ printing[r].at = "cancelling"
    /\ \/ Accepts("cancelled") /\ Session!Advance("cancelled") /\ NoFault
       \/ ~Accepts("cancelled") /\ UNCHANGED session /\ NoFault
       \/ UNCHANGED session /\ Fault
    /\ Clear(None, "error", FALSE, printing[r].error)
    /\ Step(r, "over")
    /\ UNCHANGED <<clock, attempt, pick, strayed>>

---------------------------------------------------------------------------
(* Watching *)

PolledByClock ==   \* mutant: the clock expires what the kiosk holds, too
    IF due /\ status \notin Terminal THEN "expired" ELSE status

(* What the status route answers: its own clock expires what is not with    *)
(* the kiosk yet.                                                           *)
Polled == IF due /\ status \notin Processing \cup Terminal THEN "expired" ELSE status

OutcomeKeeps(r, stage, told) ==   \* mutant: the documents stay
    /\ page' = [page EXCEPT !.stage = stage, !.claimed = FALSE, !.told = told]
    /\ Step(r, "over")
    /\ NoFault
    /\ UNCHANGED <<server, attempt, pick, wiped, strayed>>

(* The watch is over. *)
Outcome(r, stage, told) ==
    /\ Clear(None, stage, FALSE, told)
    /\ Step(r, "over")
    /\ NoFault
    /\ UNCHANGED <<server, attempt, pick, strayed>>

Final(s) == s \in Terminal

(* watchPrintStatus: only a final word of the service is a verdict.         *)
Poll(r) ==
    /\ printing[r].at = "watching"
    /\ Final(Polled)
    /\ CASE Polled = "completed" -> Outcome(r, "complete", "none")
         [] Polled = "expired"   -> Outcome(r, "error", "watchExpired")
         [] OTHER                -> Outcome(r, "error", "printFailed")

Patient(r) == FALSE  \* mutant: the watch has no deadline

(* Its patience of PRINT_WATCH_DEADLINE_MS ends. *)
Unknown(r) ==
    /\ printing[r].at = "watching"
    /\ Outcome(r, "error", "printOutcomeUnknown")

(* shutdownPage, by the button or the timer; a tab that does not close is   *)
(* told CLOSE_CONFIRM_MS later that it may be closed.                       *)
Shutdown ==
    /\ \/ page.stage = "complete" /\ page' = [page EXCEPT !.closing = TRUE]
       \/ page.closing /\ page' = [page EXCEPT !.stage = "closed", !.closing = FALSE]
    /\ UNCHANGED <<server, attempt, pick, wiped, printing, faults, strayed>>

---------------------------------------------------------------------------
(* The environment *)

OtherClaims ==
    /\ Accepts("claimed") /\ Session!Claim(Other)
    /\ UNCHANGED <<clock, page, attempt, pick, wiped, printing, faults, strayed>>

KioskReads ==
    /\ Accepts("consumed") /\ ~reading
    /\ reading' = TRUE
    /\ UNCHANGED <<session, due, raced, page, attempt, pick, wiped, printing, faults, strayed>>

(* The consume lands, or is refused or lost. *)
KioskConsumes ==
    /\ reading
    /\ reading' = FALSE
    /\ Session!Consume(Kiosk) \/ UNCHANGED session
    /\ UNCHANGED <<due, raced, page, attempt, pick, wiped, printing, faults, strayed>>

(* The kiosk's reports and its cancel, and the cleanup: what the kiosk had  *)
(* begun to validate or to print has failed.                                *)
KioskActs ==
    /\ \/ \E to \in {"validating", "printing", "completed", "failed"} :
             /\ status \in Processing \/ (status = "uploaded" /\ ~due)
             /\ Session!Advance(to)
       \/ ~due /\ Session!Advance("cancelled")
       \/ due /\ Session!Advance("expired")
    /\ UNCHANGED <<clock, page, attempt, pick, wiped, printing, faults, strayed>>

TimeOver ==
    /\ ~due
    /\ due' = TRUE
    /\ raced' = reading
    /\ UNCHANGED <<session, reading, page, attempt, pick, wiped, printing, faults, strayed>>

Next ==
    \/ Mount \/ AskClaim \/ CheckKey \/ Booted
    \/ \E p \in Picks :
          \/ Choose(p) \/ Picked(p) \/ Refused(p)
          \/ AskPassword(p) \/ GivePassword(p) \/ GiveUp(p)
    \/ ChooseAgain
    \/ \E r \in Prints :
          \/ SendDocument(r) \/ Encrypt(r) \/ Request(r) \/ Put(r) \/ CancelClaim(r)
          \/ Poll(r) \/ Unknown(r)
    \/ Shutdown
    \/ OtherClaims \/ KioskReads \/ KioskConsumes \/ KioskActs \/ TimeOver

(* Every request answers or times out, and the watch has a deadline. *)
Run(r) == Encrypt(r) \/ Request(r) \/ Put(r) \/ CancelClaim(r) \/ Poll(r) \/ Unknown(r)

Spec == Init /\ [][Next]_vars
LiveSpec == Spec /\ \A r \in Prints : WF_vars(Run(r))

---------------------------------------------------------------------------
(* What the page says is what became of it.  A code is called used when     *)
(* another phone has it, or nobody and the session has ended, never when it *)
(* is this page's own (batch-mobile-flow.tsx:287-295: the effect runs       *)
(* twice).  "Complete" means completed and "failed" means that the kiosk    *)
(* will not print.  "Expired" means that nobody has read the document, or   *)
(* that its reader's lease ran out with the kiosk at nothing; the one       *)
(* exception is a consume under way when the time ran out, because the      *)
(* status route goes by its own clock.  And an upload that the page reports *)
(* failed is not printed, unless an answer was lost or a stray pick had it  *)
(* sent twice.                                                              *)
VerdictStands ==
    /\ page.told = "usedQr" =>
          phone = Other \/ (phone = None /\ status \in Terminal)
    /\ page.stage \in {"complete", "closed"} => status = "completed"
    /\ page.told = "printFailed" => status \in {"failed", "cancelled"}
    /\ page.told = "watchExpired" => reader = None \/ status = "expired" \/ raced
    /\ page.told \in {"networkError", "expiredQr"} =>
          reader = None \/ faults > 0 \/ strayed \/ phone = Other

(* The ciphertext that is committed is of the bytes the visitor looked at,  *)
(* never of bytes cleared meanwhile, and a page that has ended holds no     *)
(* document, unless a pick ended behind the visitor's back.                 *)
SealedIsPreviewed ==
    strayed \/ /\ etag # "zeros"
               /\ page.stage \in {"complete", "closed", "error"} => page.docs = None

(* A selection that is neither on the page nor being checked is zero: no    *)
(* order of picks, prints and failures forgets one.                         *)
NothingForgotten ==
    \A p \in Picks : pick[p] = "held" /\ page.docs # p => p \in wiped

(* A print that was started is over one day: every wait has its limit. *)
PrintEnds ==
    \A r \in Prints : printing[r].at # "idle" ~> printing[r].at = "over"

(* Once the upload is committed the kiosk owns the work: "After it, the     *)
(* kiosk owns the work", and a phone that treats a lost signal as a failure *)
(* "cancels a job that is on its way to paper" (lib/print-status.ts:6-9).  *)
KioskOwnsCommitted ==
    [][\A r \in Prints :
          printing[r].at = "cancelling" /\ printing'[r].at = "over" /\ status = "uploaded"
             => status' = "uploaded"]_vars
============================================================================
