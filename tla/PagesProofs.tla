--------------------------- MODULE PagesProofs ----------------------------
(***************************************************************************)
(* Theorems about the pages of a phone: the visitor's page at the kiosk    *)
(* (PhonePage), and the two pages of a phone-to-phone transfer, each alone *)
(* (SendPage, ReceivePage) and both over one service (DropPages).  The     *)
(* page at the kiosk and the others share no state.                        *)
(***************************************************************************)
EXTENDS PhonePage, DropPages, Integers, TLAPS, WellFoundedInduction

---------------------------------------------------------------------------
(* The visitor's page at the kiosk *)

Early == {"waiting", "claimed", "upload_authorized", "uploading"}
Failing == {"none", "networkError", "expiredQr"}
Selecting == {"boot", "file", "password", "preview"}

Stages ==
    Selecting \cup {"transfer", "progress", "complete", "closed", "error"}
Verdicts ==
    Failing \cup {"usedQr", "fingerprintMismatch", "watchExpired", "printFailed",
                  "printOutcomeUnknown"}
Places == {"idle", "encrypting", "authorizing", "starting", "putting", "completing",
           "watching", "cancelling", "over"}

Pages ==
    [stage : Stages,
     docs : Picks \cup {None}, claimed : BOOLEAN,
     told : Verdicts,
     asks : Picks \cup {None}, mounts : Nat, closing : BOOLEAN]

PrintRuns ==
    [at : Places,
     doc : Picks \cup {None}, sealed : Picks \cup {None, "zeros"}, error : Failing]

TypeOK ==
    /\ status \in Statuses
    /\ phone \in {Me, Other, None}
    /\ etag \in Picks \cup {None, "zeros"}
    /\ reader \in {Kiosk, None}
    /\ {due, reading, raced} \subseteq BOOLEAN
    /\ page \in Pages
    /\ attempt \in {"none", "asking", "answered", "ok", "usedQr", "expiredQr",
                    "networkError", "fingerprintMismatch"}
    /\ pick \in [Picks -> {"idle", "checking", "asking", "unlocking", "held", "dropped"}]
    /\ wiped \subseteq Picks
    /\ printing \in [Prints -> PrintRuns]
    /\ faults \in Nat
    /\ strayed \in BOOLEAN

(* The session: a reader needs a ciphertext, and a ciphertext a claim; and *)
(* no consume begins once the time is over.                                *)
Custodied ==
    /\ reader # None => etag # None
    /\ status \in Early => etag = None
    /\ status \in Early \cup {"uploaded"} => reader = None
    /\ status \notin {"waiting"} \cup Terminal => phone # None
    /\ IF due THEN reading => raced ELSE ~raced
    /\ status \in {"uploaded", "completed"} \cup Processing => etag # None
    /\ status = "waiting" => phone = None

(* What became of the claim. *)
Claimed ==
    /\ attempt \in {"none", "asking"} => phone # Me
    /\ attempt = "usedQr" =>
          phone = Other \/ (phone = None /\ status \in Terminal)
    /\ attempt = "expiredQr" => phone # Me
    /\ attempt = "networkError" => faults > 0
    /\ page.claimed => attempt = "ok"
    /\ attempt # "ok" =>
         /\ etag = None 
         /\ page.stage \in {"boot", "error"} /\ ~page.claimed
         /\ page.docs = None /\ ~page.closing
         /\ page.told \in {"none", attempt}
         /\ (page.stage = "boot" => page.told = "none")
         /\ \A p \in Picks : pick[p] = "idle"
         /\ page.asks = None
         /\ \A r \in Prints : printing[r] = NoPrint
    /\ page.told = "usedQr" => attempt = "usedQr"

(* Where a selection is. *)
Selected ==
    /\ page.asks # None => pick[page.asks] = "asking"
    /\ page.docs # None => pick[page.docs] = "held" /\ page.docs \notin wiped
    /\ \A p \in wiped : pick[p] \in {"held", "dropped"}
    /\ NothingForgotten

Active(r) == printing[r].at \notin {"idle", "over"}

(* As long as no pick strays one print at a time owns the page. *)
Undisturbed ==
    ~strayed =>
        /\ \A r, s \in Prints : Active(r) /\ Active(s) => r = s
        /\ \A r \in Prints : Active(r) =>
              /\ page.stage = IF printing[r].at = "watching" THEN "progress" ELSE "transfer"
              /\ page.docs # None
              /\ printing[r].doc = page.docs
              /\ printing[r].at = "encrypting" \/ printing[r].sealed = page.docs
        /\ page.stage \in {"boot", "complete", "closed", "error"} => page.docs = None
        /\ page.closing => page.stage = "complete"
        /\ etag # "zeros"

(* An upload that failed, no answer lost, was never committed. *)
Uncommitted ==
    ~strayed /\ faults = 0 =>
        /\ page.stage \in Selecting \cup {"transfer"} => etag = None
        /\ page.told \in {"networkError", "expiredQr"} => etag = None /\ page.stage = "error"
        
(* What the page says of the paper, and how far a run has got. *)
Ended ==
    /\ page.stage \in {"complete", "closed"} \/ page.closing => status = "completed"
    /\ page.told = "printFailed" => status \in {"failed", "cancelled"}
    /\ page.told = "watchExpired" =>
          status = "expired" \/ raced \/ (due /\ reader = None)
    /\ \A r \in Prints :
          /\ printing[r].at # "idle" => printing[r].doc # None
          /\ printing[r].at \notin {"idle", "encrypting"} => printing[r].sealed # None
          /\ printing[r].at = "cancelling" => printing[r].error # "none"

IInv == Custodied /\ Claimed /\ Selected /\ Undisturbed /\ Uncommitted /\ Ended

LEMMA MountKeeps ==
    ASSUME TypeOK, IInv, Mount
    PROVE  (TypeOK /\ IInv)'
<1> USE PhoneAssumption DEF IInv, clock, Terminal, Mount, ClaimsOnce, server, session
<1>1. TypeOK'
  <2>1. page' \in Pages
    BY DEF TypeOK, Pages, Stages, Verdicts, Failing, Selecting
  <2>2. printing' \in [Prints -> PrintRuns]
    BY DEF TypeOK, PrintRuns, Places, Failing
  <2>3. /\ status' \in Statuses /\ phone' \in {Me, Other, None}
        /\ etag' \in Picks \cup {None, "zeros"} /\ reader' \in {Kiosk, None}
    BY DEF TypeOK, PrintRuns, Statuses
  <2>4. wiped' \subseteq Picks /\ faults' \in Nat
    BY DEF TypeOK, Pages, Fault, NoFault
  <2> QED
    BY <2>1, <2>2, <2>3, <2>4 DEF TypeOK
<1>2. Custodied'
  BY DEF Custodied, Early, Processing, Fault, NoFault
<1>3. Claimed'
  BY DEF Claimed, NoPrint, Fault, NoFault
<1>4. Selected'
  BY DEF Selected, NothingForgotten, Fault, NoFault
<1>5. Undisturbed'
  BY DEF Undisturbed, Active, Fault, NoFault
<1>6. Uncommitted'
  BY DEF Uncommitted, Selecting, Fault, NoFault
<1>7. Ended'
  BY DEF Ended, NoPrint, Fault, NoFault
<1> QED
  BY <1>1, <1>2, <1>3, <1>4, <1>5, <1>6, <1>7

LEMMA AskClaimKeeps ==
    ASSUME TypeOK, IInv, AskClaim
    PROVE  (TypeOK /\ IInv)'
<1> USE PhoneAssumption DEF IInv, clock, Terminal, AskClaim, Session!Claim, Accepts,
                            CanTransition, Successors, Session!CanTransition, Session!Successors, server,
                            session
<1>1. TypeOK'
  <2>1. page' \in Pages
    BY DEF TypeOK, Pages, Stages, Verdicts, Failing, Selecting
  <2>2. printing' \in [Prints -> PrintRuns]
    BY DEF TypeOK, PrintRuns, Places, Failing
  <2>3. /\ status' \in Statuses /\ phone' \in {Me, Other, None}
        /\ etag' \in Picks \cup {None, "zeros"} /\ reader' \in {Kiosk, None}
    BY DEF TypeOK, PrintRuns, Statuses
  <2>4. wiped' \subseteq Picks /\ faults' \in Nat
    BY DEF TypeOK, Pages, Fault, NoFault
  <2> QED
    BY <2>1, <2>2, <2>3, <2>4 DEF TypeOK
<1>2. Custodied'
  BY DEF Custodied, Early, Processing, Fault, NoFault
<1>3. Claimed'
  <2>1. attempt # "ok" /\ attempt \notin {"usedQr", "expiredQr", "networkError"}
    OBVIOUS
  <2>2. /\ etag' = etag /\ page' = page /\ pick' = pick /\ printing' = printing
        /\ attempt' \in {"answered", "networkError", "expiredQr", "usedQr"}
        /\ attempt' = "networkError" => faults' > 0
        /\ attempt' = "expiredQr" => phone' # Me
    BY DEF Claimed, TypeOK, Fault
  <2>5. attempt' = "usedQr" =>
            phone' = Other \/ (phone' = None /\ status' \in Terminal)
    BY DEF Claimed, Custodied, TypeOK, Statuses
  <2>6. ~(attempt' \in {"none", "asking"}) /\ attempt' # "ok"
    BY <2>2
  <2>3. page.told # "usedQr" /\ page.told \in {"none", attempt} /\ page \in Pages
    BY <2>1 DEF Claimed, TypeOK
  <2>4. page.told = "none"
    BY <2>3 DEF Pages, Verdicts, Failing, AskClaim
  <2> HIDE DEF AskClaim, IInv
  <2> QED
    BY <2>1, <2>2, <2>4, <2>5, <2>6 DEF Claimed, IInv
<1>4. Selected'
  BY DEF Selected, NothingForgotten, Fault, NoFault
<1>5. Undisturbed'
  BY DEF Undisturbed, Active, Fault, NoFault
<1>6. Uncommitted'
  BY DEF Uncommitted, Selecting, TypeOK, Pages, PrintRuns, Failing, Fault,
         NoFault
<1>7. Ended'
  BY DEF Ended, NoPrint, Fault, NoFault
<1> QED
  BY <1>1, <1>2, <1>3, <1>4, <1>5, <1>6, <1>7

LEMMA CheckKeyKeeps ==
    ASSUME TypeOK, IInv, CheckKey
    PROVE  (TypeOK /\ IInv)'
<1> USE PhoneAssumption DEF IInv, clock, Terminal, CheckKey, Session!Advance, Accepts,
                            CanTransition, Successors, Session!CanTransition, Session!Successors, server,
                            session
<1>1. TypeOK'
  <2>1. page' \in Pages
    BY DEF TypeOK, Pages, Stages, Verdicts, Failing, Selecting
  <2>2. printing' \in [Prints -> PrintRuns]
    BY DEF TypeOK, PrintRuns, Places, Failing
  <2>3. /\ status' \in Statuses /\ phone' \in {Me, Other, None}
        /\ etag' \in Picks \cup {None, "zeros"} /\ reader' \in {Kiosk, None}
    BY DEF TypeOK, PrintRuns, Statuses
  <2>4. wiped' \subseteq Picks /\ faults' \in Nat
    BY DEF TypeOK, Pages, Fault, NoFault
  <2> QED
    BY <2>1, <2>2, <2>3, <2>4 DEF TypeOK
<1>2. Custodied'
  BY DEF Custodied, Early, Processing, Fault, NoFault
<1>3. Claimed'
  <2>1. attempt # "ok" /\ attempt \notin {"usedQr", "expiredQr", "networkError"}
    OBVIOUS
  <2>2. /\ etag' = etag /\ page' = page /\ pick' = pick /\ printing' = printing
        /\ attempt' \in {"ok", "fingerprintMismatch"}
        /\ attempt' = "networkError" => faults' > 0
        /\ attempt' \in {"usedQr", "expiredQr"} => phone # Me /\ phone' # Me
    BY DEF Claimed, TypeOK, Fault
  <2>3. page.told # "usedQr" /\ page.told \in {"none", attempt} /\ page \in Pages
    BY <2>1 DEF Claimed, TypeOK
  <2>4. page.told = "none"
    BY <2>3 DEF Pages, Verdicts, Failing, CheckKey
  <2> HIDE DEF CheckKey, IInv
  <2> QED
    BY <2>1, <2>2, <2>4 DEF Claimed, IInv
<1>4. Selected'
  BY DEF Selected, NothingForgotten, Fault, NoFault
<1>5. Undisturbed'
  BY DEF Undisturbed, Active, Fault, NoFault
<1>6. Uncommitted'
  BY DEF Uncommitted, Selecting, TypeOK, Pages, PrintRuns, Failing, Fault,
         NoFault
<1>7. Ended'
  BY DEF Ended, NoPrint, Fault, NoFault
<1> QED
  BY <1>1, <1>2, <1>3, <1>4, <1>5, <1>6, <1>7

LEMMA BootedKeeps ==
    ASSUME TypeOK, IInv, Booted
    PROVE  (TypeOK /\ IInv)'
<1> USE PhoneAssumption DEF IInv, clock, Terminal, Booted, server, session
<1>1. TypeOK'
  <2>1. page' \in Pages
    BY DEF TypeOK, Pages, Stages, Verdicts, Failing, Selecting
  <2>2. printing' \in [Prints -> PrintRuns]
    BY DEF TypeOK, PrintRuns, Places, Failing
  <2>3. /\ status' \in Statuses /\ phone' \in {Me, Other, None}
        /\ etag' \in Picks \cup {None, "zeros"} /\ reader' \in {Kiosk, None}
    BY DEF TypeOK, PrintRuns, Statuses
  <2>4. wiped' \subseteq Picks /\ faults' \in Nat
    BY DEF TypeOK, Pages, Fault, NoFault
  <2> QED
    BY <2>1, <2>2, <2>3, <2>4 DEF TypeOK
<1>2. Custodied'
  BY DEF Custodied, Early, Processing, Fault, NoFault
<1>3. Claimed'
  BY DEF Claimed, NoPrint, Fault, NoFault
<1>4. Selected'
  BY DEF Selected, NothingForgotten, Fault, NoFault
<1>5. Undisturbed'
  BY DEF Undisturbed, Active, Fault, NoFault
<1>6. Uncommitted'
  BY DEF Uncommitted, Selecting, Fault, NoFault
<1>7. Ended'
  BY DEF Ended, NoPrint, TypeOK, Pages, PrintRuns, Failing, Fault, NoFault
<1> QED
  BY <1>1, <1>2, <1>3, <1>4, <1>5, <1>6, <1>7

LEMMA ChooseKeeps ==
    ASSUME TypeOK, IInv, NEW p \in Picks, Choose(p)
    PROVE  (TypeOK /\ IInv)'
<1> USE PhoneAssumption DEF IInv, clock, Terminal, Choose, server, session
<1>1. TypeOK'
  <2>1. page' \in Pages
    BY DEF TypeOK, Pages, Stages, Verdicts, Failing, Selecting
  <2>2. printing' \in [Prints -> PrintRuns]
    BY DEF TypeOK, PrintRuns, Places, Failing
  <2>3. /\ status' \in Statuses /\ phone' \in {Me, Other, None}
        /\ etag' \in Picks \cup {None, "zeros"} /\ reader' \in {Kiosk, None}
    BY DEF TypeOK, PrintRuns, Statuses
  <2>4. wiped' \subseteq Picks /\ faults' \in Nat
    BY DEF TypeOK, Pages, Fault, NoFault
  <2> QED
    BY <2>1, <2>2, <2>3, <2>4 DEF TypeOK
<1>2. Custodied'
  BY DEF Custodied, Early, Processing, Fault, NoFault
<1>3. Claimed'
  BY DEF Claimed, NoPrint, Fault, NoFault
<1>4. Selected'
  BY DEF Selected, NothingForgotten, Fault, NoFault
<1>5. Undisturbed'
  BY DEF Undisturbed, Active, Fault, NoFault
<1>6. Uncommitted'
  BY DEF Uncommitted, Selecting, Fault, NoFault
<1>7. Ended'
  BY DEF Ended, NoPrint, Fault, NoFault
<1> QED
  BY <1>1, <1>2, <1>3, <1>4, <1>5, <1>6, <1>7

LEMMA PickedKeeps ==
    ASSUME TypeOK, IInv, NEW p \in Picks, Picked(p)
    PROVE  (TypeOK /\ IInv)'
<1> USE PhoneAssumption DEF IInv, clock, Terminal, Picked, Preview, Clear, Ends, server, session
<1>1. TypeOK'
  <2>1. page' \in Pages
    BY DEF TypeOK, Pages, Stages, Verdicts, Failing, Selecting
  <2>2. printing' \in [Prints -> PrintRuns]
    BY DEF TypeOK, PrintRuns, Places, Failing
  <2>3. /\ status' \in Statuses /\ phone' \in {Me, Other, None}
        /\ etag' \in Picks \cup {None, "zeros"} /\ reader' \in {Kiosk, None}
    BY DEF TypeOK, PrintRuns, Statuses
  <2>4. wiped' \subseteq Picks /\ faults' \in Nat
    BY DEF TypeOK, Pages, Fault, NoFault
  <2> QED
    BY <2>1, <2>2, <2>3, <2>4 DEF TypeOK
<1>2. Custodied'
  BY DEF Custodied, Early, Processing, Fault, NoFault
<1>3. Claimed'
  BY DEF Claimed, NoPrint, Fault, NoFault
<1>4. Selected'
  BY DEF Selected, NothingForgotten, TypeOK, Pages, PrintRuns, Failing, Fault,
         NoFault
<1>5. Undisturbed'
  BY DEF Undisturbed, Active, TypeOK, Pages, PrintRuns, Failing, Fault, NoFault
<1>6. Uncommitted'
  BY DEF Uncommitted, Selecting, TypeOK, Pages, PrintRuns, Failing, Fault,
         NoFault
<1>7. Ended'
  BY DEF Ended, NoPrint, Fault, NoFault
<1> QED
  BY <1>1, <1>2, <1>3, <1>4, <1>5, <1>6, <1>7

LEMMA RefusedKeeps ==
    ASSUME TypeOK, IInv, NEW p \in Picks, Refused(p)
    PROVE  (TypeOK /\ IInv)'
<1> USE PhoneAssumption DEF IInv, clock, Terminal, Refused, Reject, Ends, server, session
<1>1. TypeOK'
  <2>1. page' \in Pages
    BY DEF TypeOK, Pages, Stages, Verdicts, Failing, Selecting
  <2>2. printing' \in [Prints -> PrintRuns]
    BY DEF TypeOK, PrintRuns, Places, Failing
  <2>3. /\ status' \in Statuses /\ phone' \in {Me, Other, None}
        /\ etag' \in Picks \cup {None, "zeros"} /\ reader' \in {Kiosk, None}
    BY DEF TypeOK, PrintRuns, Statuses
  <2>4. wiped' \subseteq Picks /\ faults' \in Nat
    BY DEF TypeOK, Pages, Fault, NoFault
  <2> QED
    BY <2>1, <2>2, <2>3, <2>4 DEF TypeOK
<1>2. Custodied'
  BY DEF Custodied, Early, Processing, Fault, NoFault
<1>3. Claimed'
  BY DEF Claimed, NoPrint, Fault, NoFault
<1>4. Selected'
  BY DEF Selected, NothingForgotten, TypeOK, Pages, PrintRuns, Failing, Fault,
         NoFault
<1>5. Undisturbed'
  BY DEF Undisturbed, Active, TypeOK, Pages, PrintRuns, Failing, Fault, NoFault
<1>6. Uncommitted'
  BY DEF Uncommitted, Selecting, TypeOK, Pages, PrintRuns, Failing, Fault,
         NoFault
<1>7. Ended'
  BY DEF Ended, NoPrint, Fault, NoFault
<1> QED
  BY <1>1, <1>2, <1>3, <1>4, <1>5, <1>6, <1>7

LEMMA AskPasswordKeeps ==
    ASSUME TypeOK, IInv, NEW p \in Picks, AskPassword(p)
    PROVE  (TypeOK /\ IInv)'
<1> USE PhoneAssumption DEF IInv, clock, Terminal, AskPassword, Ends, server, session
<1>1. TypeOK'
  <2>1. page' \in Pages
    BY DEF TypeOK, Pages, Stages, Verdicts, Failing, Selecting
  <2>2. printing' \in [Prints -> PrintRuns]
    BY DEF TypeOK, PrintRuns, Places, Failing
  <2>3. /\ status' \in Statuses /\ phone' \in {Me, Other, None}
        /\ etag' \in Picks \cup {None, "zeros"} /\ reader' \in {Kiosk, None}
    BY DEF TypeOK, PrintRuns, Statuses
  <2>4. wiped' \subseteq Picks /\ faults' \in Nat
    BY DEF TypeOK, Pages, Fault, NoFault
  <2> QED
    BY <2>1, <2>2, <2>3, <2>4 DEF TypeOK
<1>2. Custodied'
  BY DEF Custodied, Early, Processing, Fault, NoFault
<1>3. Claimed'
  BY DEF Claimed, NoPrint, Fault, NoFault
<1>4. Selected'
  BY DEF Selected, NothingForgotten, TypeOK, Pages, PrintRuns, Failing, Fault,
         NoFault
<1>5. Undisturbed'
  BY DEF Undisturbed, Active, TypeOK, Pages, PrintRuns, Failing, Fault, NoFault
<1>6. Uncommitted'
  BY DEF Uncommitted, Selecting, TypeOK, Pages, PrintRuns, Failing, Fault,
         NoFault
<1>7. Ended'
  BY DEF Ended, NoPrint, Fault, NoFault
<1> QED
  BY <1>1, <1>2, <1>3, <1>4, <1>5, <1>6, <1>7

LEMMA GivePasswordKeeps ==
    ASSUME TypeOK, IInv, NEW p \in Picks, GivePassword(p)
    PROVE  (TypeOK /\ IInv)'
<1> USE PhoneAssumption DEF IInv, clock, Terminal, GivePassword, server, session
<1>1. TypeOK'
  <2>1. page' \in Pages
    BY DEF TypeOK, Pages, Stages, Verdicts, Failing, Selecting
  <2>2. printing' \in [Prints -> PrintRuns]
    BY DEF TypeOK, PrintRuns, Places, Failing
  <2>3. /\ status' \in Statuses /\ phone' \in {Me, Other, None}
        /\ etag' \in Picks \cup {None, "zeros"} /\ reader' \in {Kiosk, None}
    BY DEF TypeOK, PrintRuns, Statuses
  <2>4. wiped' \subseteq Picks /\ faults' \in Nat
    BY DEF TypeOK, Pages, Fault, NoFault
  <2> QED
    BY <2>1, <2>2, <2>3, <2>4 DEF TypeOK
<1>2. Custodied'
  BY DEF Custodied, Early, Processing, Fault, NoFault
<1>3. Claimed'
  BY DEF Claimed, NoPrint, Fault, NoFault
<1>4. Selected'
  BY DEF Selected, NothingForgotten, Fault, NoFault
<1>5. Undisturbed'
  BY DEF Undisturbed, Active, Fault, NoFault
<1>6. Uncommitted'
  BY DEF Uncommitted, Selecting, Fault, NoFault
<1>7. Ended'
  BY DEF Ended, NoPrint, Fault, NoFault
<1> QED
  BY <1>1, <1>2, <1>3, <1>4, <1>5, <1>6, <1>7

LEMMA GiveUpKeeps ==
    ASSUME TypeOK, IInv, NEW p \in Picks, GiveUp(p)
    PROVE  (TypeOK /\ IInv)'
<1> USE PhoneAssumption DEF IInv, clock, Terminal, GiveUp, Reject, Ends, server, session
<1>1. TypeOK'
  <2>1. page' \in Pages
    BY DEF TypeOK, Pages, Stages, Verdicts, Failing, Selecting
  <2>2. printing' \in [Prints -> PrintRuns]
    BY DEF TypeOK, PrintRuns, Places, Failing
  <2>3. /\ status' \in Statuses /\ phone' \in {Me, Other, None}
        /\ etag' \in Picks \cup {None, "zeros"} /\ reader' \in {Kiosk, None}
    BY DEF TypeOK, PrintRuns, Statuses
  <2>4. wiped' \subseteq Picks /\ faults' \in Nat
    BY DEF TypeOK, Pages, Fault, NoFault
  <2> QED
    BY <2>1, <2>2, <2>3, <2>4 DEF TypeOK
<1>2. Custodied'
  BY DEF Custodied, Early, Processing, Fault, NoFault
<1>3. Claimed'
  BY DEF Claimed, NoPrint, Fault, NoFault
<1>4. Selected'
  BY DEF Selected, NothingForgotten, TypeOK, Pages, PrintRuns, Failing, Fault,
         NoFault
<1>5. Undisturbed'
  BY DEF Undisturbed, Active, TypeOK, Pages, PrintRuns, Failing, Fault, NoFault
<1>6. Uncommitted'
  BY DEF Uncommitted, Selecting, TypeOK, Pages, PrintRuns, Failing, Fault,
         NoFault
<1>7. Ended'
  BY DEF Ended, NoPrint, Fault, NoFault
<1> QED
  BY <1>1, <1>2, <1>3, <1>4, <1>5, <1>6, <1>7

LEMMA ChooseAgainKeeps ==
    ASSUME TypeOK, IInv, ChooseAgain
    PROVE  (TypeOK /\ IInv)'
<1> USE PhoneAssumption DEF IInv, clock, Terminal, ChooseAgain, Clear, server, session
<1>1. TypeOK'
  <2>1. page' \in Pages
    BY DEF TypeOK, Pages, Stages, Verdicts, Failing, Selecting
  <2>2. printing' \in [Prints -> PrintRuns]
    BY DEF TypeOK, PrintRuns, Places, Failing
  <2>3. /\ status' \in Statuses /\ phone' \in {Me, Other, None}
        /\ etag' \in Picks \cup {None, "zeros"} /\ reader' \in {Kiosk, None}
    BY DEF TypeOK, PrintRuns, Statuses
  <2>4. wiped' \subseteq Picks /\ faults' \in Nat
    BY DEF TypeOK, Pages, Fault, NoFault
  <2> QED
    BY <2>1, <2>2, <2>3, <2>4 DEF TypeOK
<1>2. Custodied'
  BY DEF Custodied, Early, Processing, Fault, NoFault
<1>3. Claimed'
  BY DEF Claimed, NoPrint, Fault, NoFault
<1>4. Selected'
  BY DEF Selected, NothingForgotten, Fault, NoFault
<1>5. Undisturbed'
  BY DEF Undisturbed, Active, Fault, NoFault
<1>6. Uncommitted'
  BY DEF Uncommitted, Selecting, Fault, NoFault
<1>7. Ended'
  BY DEF Ended, NoPrint, Fault, NoFault
<1> QED
  BY <1>1, <1>2, <1>3, <1>4, <1>5, <1>6, <1>7

LEMMA SendDocumentKeeps ==
    ASSUME TypeOK, IInv, NEW r \in Prints, SendDocument(r)
    PROVE  (TypeOK /\ IInv)'
<1> USE PhoneAssumption DEF IInv, clock, Terminal, SendDocument, server, session
<1>1. TypeOK'
  <2>1. page' \in Pages
    BY DEF TypeOK, Pages, Stages, Verdicts, Failing, Selecting
  <2>2. printing' \in [Prints -> PrintRuns]
    <3>1. printing[r] \in PrintRuns /\ page.docs \in Picks \cup {None}
      BY DEF TypeOK, Pages
    <3>2. [printing[r] EXCEPT !.at = "encrypting", !.doc = page.docs] \in PrintRuns
      BY <3>1 DEF PrintRuns, Places
    <3>3. printing' = [printing EXCEPT ![r] =
                         [printing[r] EXCEPT !.at = "encrypting", !.doc = page.docs]]
      BY DEF TypeOK
    <3> QED
      BY <3>2, <3>3 DEF TypeOK
  <2>3. /\ status' \in Statuses /\ phone' \in {Me, Other, None}
        /\ etag' \in Picks \cup {None, "zeros"} /\ reader' \in {Kiosk, None}
    BY DEF TypeOK, Statuses
  <2>4. wiped' \subseteq Picks /\ faults' \in Nat
    BY DEF TypeOK, Pages, Fault, NoFault
  <2> QED
    BY <2>1, <2>2, <2>3, <2>4 DEF TypeOK
<1>2. Custodied'
  BY DEF Custodied, Early, Processing, Fault, NoFault
<1>3. Claimed'
  BY DEF Claimed, NoPrint, Fault, NoFault
<1>4. Selected'
  BY DEF Selected, NothingForgotten, Fault, NoFault
<1>5. Undisturbed'
  BY DEF Undisturbed, Active, TypeOK, Pages, PrintRuns, Failing, Fault, NoFault
<1>6. Uncommitted'
  BY DEF Uncommitted, Selecting, Fault, NoFault
<1>7. Ended'
  BY DEF Ended, NoPrint, TypeOK, Pages, PrintRuns, Failing, Fault, NoFault
<1> QED
  BY <1>1, <1>2, <1>3, <1>4, <1>5, <1>6, <1>7

LEMMA EncryptKeeps ==
    ASSUME TypeOK, IInv, NEW r \in Prints, Encrypt(r)
    PROVE  (TypeOK /\ IInv)'
<1> USE PhoneAssumption DEF IInv, clock, Terminal, Encrypt, Sealed, server, session
<1>1. TypeOK'
  <2>1. page' \in Pages
    BY DEF TypeOK, Pages, Stages, Verdicts, Failing, Selecting
  <2>2. printing' \in [Prints -> PrintRuns]
    <3> DEFINE sealed == Sealed(printing[r].doc)
    <3>1. printing[r] \in PrintRuns
      BY DEF TypeOK
    <3>2. sealed \in Picks \cup {None, "zeros"}
      BY <3>1 DEF PrintRuns
    <3> HIDE DEF sealed
    <3>3. [printing[r] EXCEPT !.at = "authorizing", !.sealed = sealed] \in PrintRuns
      BY <3>1, <3>2 DEF PrintRuns, Places
    <3>4. printing' = [printing EXCEPT ![r] =
                         [printing[r] EXCEPT !.at = "authorizing", !.sealed = sealed]]
      BY DEF TypeOK, sealed
    <3> QED
      BY <3>3, <3>4 DEF TypeOK
  <2>3. /\ status' \in Statuses /\ phone' \in {Me, Other, None}
        /\ etag' \in Picks \cup {None, "zeros"} /\ reader' \in {Kiosk, None}
    BY DEF TypeOK, Statuses
  <2>4. wiped' \subseteq Picks /\ faults' \in Nat
    BY DEF TypeOK, Pages, Fault, NoFault
  <2> QED
    BY <2>1, <2>2, <2>3, <2>4 DEF TypeOK
<1>2. Custodied'
  BY DEF Custodied, Early, Processing, Fault, NoFault
<1>3. Claimed'
  BY DEF Claimed, NoPrint, Fault, NoFault
<1>4. Selected'
  BY DEF Selected, NothingForgotten, Fault, NoFault
<1>5. Undisturbed'
  BY DEF Undisturbed, Active, TypeOK, Pages, PrintRuns, Failing, Selected,
         NothingForgotten, Fault, NoFault
<1>6. Uncommitted'
  BY DEF Uncommitted, Selecting, Fault, NoFault
<1>7. Ended'
  <2>1. printing[r].doc # None /\ Sealed(printing[r].doc) # None
    BY DEF Ended, TypeOK, PrintRuns
  <2>2. printing[r] \in PrintRuns
    BY DEF TypeOK
  <2> QED
    BY <2>1, <2>2 DEF Ended, TypeOK, PrintRuns
<1> QED
  BY <1>1, <1>2, <1>3, <1>4, <1>5, <1>6, <1>7

LEMMA RequestKeeps ==
    ASSUME TypeOK, IInv, NEW r \in Prints, Request(r)
    PROVE  (TypeOK /\ IInv)'
<1> USE PhoneAssumption DEF IInv, clock, Terminal, Request, Answered, Proceed, Step, After,
                            Carries, FailsWith, Target, Refusal, Session!Advance, Session!CommitUpload,
                            Accepts, CanTransition, Successors, Session!CanTransition, Session!Successors,
                            server, session
<1>1. TypeOK'
  <2>1. page' \in Pages
    BY DEF TypeOK, Pages, Stages, Verdicts, Failing, Selecting
  <2>2. printing' \in [Prints -> PrintRuns]
    BY DEF TypeOK, PrintRuns, Places, Failing
  <2>3. /\ status' \in Statuses /\ phone' \in {Me, Other, None}
        /\ etag' \in Picks \cup {None, "zeros"} /\ reader' \in {Kiosk, None}
    BY DEF TypeOK, PrintRuns, Statuses
  <2>4. wiped' \subseteq Picks /\ faults' \in Nat
    BY DEF TypeOK, Pages, Fault, NoFault
  <2> QED
    BY <2>1, <2>2, <2>3, <2>4 DEF TypeOK
<1>2. Custodied'
  BY DEF Custodied, Early, Processing, TypeOK, Pages, PrintRuns, Failing,
         Ended, NoPrint, Fault, NoFault
<1>3. Claimed'
  BY DEF Claimed, NoPrint, TypeOK, Pages, PrintRuns, Failing, Fault, NoFault
<1>4. Selected'
  BY DEF Selected, NothingForgotten, TypeOK, Pages, PrintRuns, Failing, Fault,
         NoFault
<1>5. Undisturbed'
  BY DEF Undisturbed, Active, TypeOK, Pages, PrintRuns, Failing, Fault, NoFault
<1>6. Uncommitted'
  BY DEF Uncommitted, Selecting, TypeOK, Pages, PrintRuns, Failing,
         Undisturbed, Active, Fault, NoFault
<1>7. Ended'
  <2>1. /\ page'.told = page.told /\ reader' = reader
        /\ status = "expired" => status' = "expired"
    BY DEF TypeOK, Pages
  <2>2. page'.told = "watchExpired" =>
            status' = "expired" \/ raced \/ (due /\ reader' = None)
    BY <2>1 DEF Ended
  <2>3. page'.stage \in {"complete", "closed"} \/ page'.closing
            => status' = "completed"
    BY DEF Ended, TypeOK, Pages
  <2>4. page'.told = "printFailed" => status' \in {"failed", "cancelled"}
    BY <2>1 DEF Ended
  <2>5. ASSUME NEW s \in Prints
        PROVE  /\ printing'[s].at # "idle" => printing'[s].doc # None
               /\ printing'[s].at \notin {"idle", "encrypting"}
                     => printing'[s].sealed # None
               /\ printing'[s].at = "cancelling" => printing'[s].error # "none"
    BY DEF Ended, TypeOK, PrintRuns, Failing
  <2> QED
    BY <2>2, <2>3, <2>4, <2>5 DEF Ended
<1> QED
  BY <1>1, <1>2, <1>3, <1>4, <1>5, <1>6, <1>7

LEMMA PutKeeps ==
    ASSUME TypeOK, IInv, NEW r \in Prints, Put(r)
    PROVE  (TypeOK /\ IInv)'
<1> USE PhoneAssumption DEF IInv, clock, Terminal, Put, Proceed, Step, After, FailsWith, server,
                            session
<1>1. TypeOK'
  <2>1. page' \in Pages
    BY DEF TypeOK, Pages, Stages, Verdicts, Failing, Selecting
  <2>2. printing' \in [Prints -> PrintRuns]
    BY DEF TypeOK, PrintRuns, Places, Failing
  <2>3. /\ status' \in Statuses /\ phone' \in {Me, Other, None}
        /\ etag' \in Picks \cup {None, "zeros"} /\ reader' \in {Kiosk, None}
    BY DEF TypeOK, PrintRuns, Statuses
  <2>4. wiped' \subseteq Picks /\ faults' \in Nat
    BY DEF TypeOK, Pages, Fault, NoFault
  <2> QED
    BY <2>1, <2>2, <2>3, <2>4 DEF TypeOK
<1>2. Custodied'
  BY DEF Custodied, Early, Processing, Fault, NoFault
<1>3. Claimed'
  BY DEF Claimed, NoPrint, Fault, NoFault
<1>4. Selected'
  BY DEF Selected, NothingForgotten, Fault, NoFault
<1>5. Undisturbed'
  BY SMTT(30) DEF Undisturbed, Active, TypeOK, Pages, PrintRuns, Failing, Fault, NoFault
<1>6. Uncommitted'
  BY DEF Uncommitted, Selecting, TypeOK, Pages, PrintRuns, Failing, Fault,
         NoFault
<1>7. Ended'
  BY DEF Ended, NoPrint, TypeOK, Pages, PrintRuns, Failing, Fault, NoFault
<1> QED
  BY <1>1, <1>2, <1>3, <1>4, <1>5, <1>6, <1>7

LEMMA CancelClaimKeeps ==
    ASSUME TypeOK, IInv, NEW r \in Prints, CancelClaim(r)
    PROVE  (TypeOK /\ IInv)'
<1> USE PhoneAssumption DEF IInv, clock, Terminal, CancelClaim, Clear, Step, Session!Advance,
                            Accepts, CanTransition, Successors, Session!CanTransition, Session!Successors,
                            server, session
<1>1. TypeOK'
  <2>1. page' \in Pages
    <3>1. printing[r].error \in Verdicts
      BY DEF TypeOK, PrintRuns, Verdicts
    <3> QED
      BY <3>1 DEF TypeOK, Pages, Stages, Selecting
  <2>2. printing' \in [Prints -> PrintRuns]
    BY DEF TypeOK, PrintRuns, Places
  <2>3. /\ status' \in Statuses /\ phone' \in {Me, Other, None}
        /\ etag' \in Picks \cup {None, "zeros"} /\ reader' \in {Kiosk, None}
    BY DEF TypeOK, Statuses
  <2>4. wiped' \subseteq Picks /\ faults' \in Nat
    BY DEF TypeOK, Pages, Fault, NoFault
  <2> QED
    BY <2>1, <2>2, <2>3, <2>4 DEF TypeOK
<1>2. Custodied'
  BY DEF Custodied, Early, Processing, Fault, NoFault
<1>3. Claimed'
  BY DEF Claimed, NoPrint, TypeOK, Pages, PrintRuns, Failing, Fault, NoFault
<1>4. Selected'
  BY DEF Selected, NothingForgotten, Fault, NoFault
<1>5. Undisturbed'
  BY DEF Undisturbed, Active, TypeOK, Pages, PrintRuns, Failing, Fault, NoFault
<1>6. Uncommitted'
  BY DEF Uncommitted, Selecting, TypeOK, Pages, PrintRuns, Failing,
         Undisturbed, Active, Fault, NoFault
<1>7. Ended'
  BY DEF Ended, NoPrint, TypeOK, Pages, PrintRuns, Failing, Fault, NoFault
<1> QED
  BY <1>1, <1>2, <1>3, <1>4, <1>5, <1>6, <1>7

LEMMA WatchEndKeeps ==
    ASSUME TypeOK, IInv, NEW r \in Prints, NEW stage \in {"complete", "error"},
           NEW told \in Verdicts \ {"networkError", "expiredQr", "usedQr"},
           printing[r].at = "watching", Outcome(r, stage, told),
           stage = "complete" => status = "completed",
           told = "printFailed" => status \in {"failed", "cancelled"},
           told = "watchExpired" =>
              status = "expired" \/ raced \/ (due /\ reader = None)
    PROVE  (TypeOK /\ IInv)'
<1> USE PhoneAssumption DEF IInv, clock, Terminal, Outcome, Clear, Step, server, session
<1>1. TypeOK'
  <2>1. page' \in Pages
    BY DEF TypeOK, Pages, Stages, Verdicts, Failing, Selecting
  <2>2. printing' \in [Prints -> PrintRuns]
    BY DEF TypeOK, PrintRuns, Places, Failing
  <2>3. /\ status' \in Statuses /\ phone' \in {Me, Other, None}
        /\ etag' \in Picks \cup {None, "zeros"} /\ reader' \in {Kiosk, None}
    BY DEF TypeOK, PrintRuns, Statuses
  <2>4. wiped' \subseteq Picks /\ faults' \in Nat
    BY DEF TypeOK, Pages, Fault, NoFault
  <2> QED
    BY <2>1, <2>2, <2>3, <2>4 DEF TypeOK
<1>2. Custodied'
  BY DEF Custodied, Early, Processing, Fault, NoFault
<1>3. Claimed'
  BY DEF Claimed, NoPrint, Fault, NoFault
<1>4. Selected'
  BY DEF Selected, NothingForgotten, Fault, NoFault
<1>5. Undisturbed'
  BY DEF Undisturbed, Active, TypeOK, Pages, PrintRuns, Failing, Fault, NoFault
<1>6. Uncommitted'
  BY DEF Uncommitted, Selecting, Fault, NoFault
<1>7. Ended'
  BY DEF Ended, NoPrint, Fault, NoFault
<1> QED
  BY <1>1, <1>2, <1>3, <1>4, <1>5, <1>6, <1>7

LEMMA PollKeeps ==
    ASSUME TypeOK, IInv, NEW r \in Prints, Poll(r)
    PROVE  (TypeOK /\ IInv)'
<1>1. printing[r].at = "watching"
  BY DEF Poll
<1>2. CASE Polled = "completed"
  <2>1. status = "completed"
    BY <1>2 DEF Polled
  <2> QED
    BY <1>1, <1>2, <2>1, WatchEndKeeps DEF Poll, Verdicts, Failing
<1>3. CASE Polled = "expired"
  <2>1. status = "expired" \/ (due /\ reader = None)
    BY <1>3 DEF Polled, TypeOK, Statuses, IInv, Custodied, Early, Terminal, Processing
  <2>2. Outcome(r, "error", "watchExpired")
    BY <1>3 DEF Poll
  <2> QED
    BY <1>1, <2>1, <2>2, WatchEndKeeps DEF Verdicts, Failing
<1>4. CASE Polled \notin {"completed", "expired"}
  <2>1. status \in {"failed", "cancelled"}
    BY <1>4 DEF Poll, Final, Polled, Terminal
  <2>2. Outcome(r, "error", "printFailed")
    BY <1>4 DEF Poll
  <2> QED
    BY <1>1, <2>1, <2>2, WatchEndKeeps DEF Verdicts, Failing
<1> QED
  BY <1>2, <1>3, <1>4

LEMMA UnknownKeeps ==
    ASSUME TypeOK, IInv, NEW r \in Prints, Unknown(r)
    PROVE  (TypeOK /\ IInv)'
BY WatchEndKeeps DEF Unknown, Verdicts, Failing

LEMMA ShutdownKeeps ==
    ASSUME TypeOK, IInv, Shutdown
    PROVE  (TypeOK /\ IInv)'
<1> USE PhoneAssumption DEF IInv, clock, Terminal, Shutdown, server, session
<1>1. TypeOK'
  <2>1. page' \in Pages
    BY DEF TypeOK, Pages, Stages, Verdicts, Failing, Selecting
  <2>2. printing' \in [Prints -> PrintRuns]
    BY DEF TypeOK, PrintRuns, Places, Failing
  <2>3. /\ status' \in Statuses /\ phone' \in {Me, Other, None}
        /\ etag' \in Picks \cup {None, "zeros"} /\ reader' \in {Kiosk, None}
    BY DEF TypeOK, PrintRuns, Statuses
  <2>4. wiped' \subseteq Picks /\ faults' \in Nat
    BY DEF TypeOK, Pages, Fault, NoFault
  <2> QED
    BY <2>1, <2>2, <2>3, <2>4 DEF TypeOK
<1>2. Custodied'
  BY DEF Custodied, Early, Processing, Fault, NoFault
<1>3. Claimed'
  BY DEF Claimed, NoPrint, TypeOK, Pages, PrintRuns, Failing, Fault, NoFault
<1>4. Selected'
  BY DEF Selected, NothingForgotten, TypeOK, Pages, PrintRuns, Failing, Fault,
         NoFault
<1>5. Undisturbed'
  BY DEF Undisturbed, Active, TypeOK, Pages, PrintRuns, Failing, Fault, NoFault
<1>6. Uncommitted'
  BY DEF Uncommitted, Selecting, TypeOK, Pages, PrintRuns, Failing,
         Undisturbed, Active, Fault, NoFault
<1>7. Ended'
  BY DEF Ended, NoPrint, TypeOK, Pages, PrintRuns, Failing, Fault, NoFault
<1> QED
  BY <1>1, <1>2, <1>3, <1>4, <1>5, <1>6, <1>7

LEMMA OtherClaimsKeeps ==
    ASSUME TypeOK, IInv, OtherClaims
    PROVE  (TypeOK /\ IInv)'
<1> USE PhoneAssumption DEF IInv, clock, Terminal, OtherClaims, Session!Claim, Accepts,
                            CanTransition, Successors, Session!CanTransition, Session!Successors, server,
                            session
<1>1. TypeOK'
  <2>1. page' \in Pages
    BY DEF TypeOK, Pages, Stages, Verdicts, Failing, Selecting
  <2>2. printing' \in [Prints -> PrintRuns]
    BY DEF TypeOK, PrintRuns, Places, Failing
  <2>3. /\ status' \in Statuses /\ phone' \in {Me, Other, None}
        /\ etag' \in Picks \cup {None, "zeros"} /\ reader' \in {Kiosk, None}
    BY DEF TypeOK, PrintRuns, Statuses
  <2>4. wiped' \subseteq Picks /\ faults' \in Nat
    BY DEF TypeOK, Pages, Fault, NoFault
  <2> QED
    BY <2>1, <2>2, <2>3, <2>4 DEF TypeOK
<1>2. Custodied'
  BY DEF Custodied, Early, Processing, Fault, NoFault
<1>3. Claimed'
  BY DEF Claimed, NoPrint, Fault, NoFault
<1>4. Selected'
  BY DEF Selected, NothingForgotten, Fault, NoFault
<1>5. Undisturbed'
  BY DEF Undisturbed, Active, Fault, NoFault
<1>6. Uncommitted'
  BY DEF Uncommitted, Selecting, Fault, NoFault
<1>7. Ended'
  BY DEF Ended, NoPrint, Fault, NoFault
<1> QED
  BY <1>1, <1>2, <1>3, <1>4, <1>5, <1>6, <1>7

LEMMA KioskReadsKeeps ==
    ASSUME TypeOK, IInv, KioskReads
    PROVE  (TypeOK /\ IInv)'
<1> USE PhoneAssumption DEF IInv, clock, Terminal, KioskReads, Accepts, CanTransition,
                            Successors, Session!CanTransition, Session!Successors, server, session
<1>1. TypeOK'
  <2>1. page' \in Pages
    BY DEF TypeOK, Pages, Stages, Verdicts, Failing, Selecting
  <2>2. printing' \in [Prints -> PrintRuns]
    BY DEF TypeOK, PrintRuns, Places, Failing
  <2>3. /\ status' \in Statuses /\ phone' \in {Me, Other, None}
        /\ etag' \in Picks \cup {None, "zeros"} /\ reader' \in {Kiosk, None}
    BY DEF TypeOK, PrintRuns, Statuses
  <2>4. wiped' \subseteq Picks /\ faults' \in Nat
    BY DEF TypeOK, Pages, Fault, NoFault
  <2> QED
    BY <2>1, <2>2, <2>3, <2>4 DEF TypeOK
<1>2. Custodied'
  BY DEF Custodied, Early, Processing, Fault, NoFault
<1>3. Claimed'
  BY DEF Claimed, NoPrint, Fault, NoFault
<1>4. Selected'
  BY DEF Selected, NothingForgotten, Fault, NoFault
<1>5. Undisturbed'
  BY DEF Undisturbed, Active, Fault, NoFault
<1>6. Uncommitted'
  BY DEF Uncommitted, Selecting, Fault, NoFault
<1>7. Ended'
  BY DEF Ended, NoPrint, Fault, NoFault
<1> QED
  BY <1>1, <1>2, <1>3, <1>4, <1>5, <1>6, <1>7

LEMMA KioskConsumesKeeps ==
    ASSUME TypeOK, IInv, KioskConsumes
    PROVE  (TypeOK /\ IInv)'
<1> USE PhoneAssumption DEF IInv, clock, Terminal, KioskConsumes, Session!Consume,
                            Accepts, CanTransition, Successors, Session!CanTransition, Session!Successors,
                            server, session
<1>1. TypeOK'
  <2>1. page' \in Pages
    BY DEF TypeOK, Pages, Stages, Verdicts, Failing, Selecting
  <2>2. printing' \in [Prints -> PrintRuns]
    BY DEF TypeOK, PrintRuns, Places, Failing
  <2>3. /\ status' \in Statuses /\ phone' \in {Me, Other, None}
        /\ etag' \in Picks \cup {None, "zeros"} /\ reader' \in {Kiosk, None}
    BY DEF TypeOK, PrintRuns, Statuses
  <2>4. wiped' \subseteq Picks /\ faults' \in Nat
    BY DEF TypeOK, Pages, Fault, NoFault
  <2> QED
    BY <2>1, <2>2, <2>3, <2>4 DEF TypeOK
<1>2. Custodied'
  BY DEF Custodied, Early, Processing, Fault, NoFault
<1>3. Claimed'
  BY DEF Claimed, NoPrint, Fault, NoFault
<1>4. Selected'
  BY DEF Selected, NothingForgotten, Fault, NoFault
<1>5. Undisturbed'
  BY DEF Undisturbed, Active, Fault, NoFault
<1>6. Uncommitted'
  BY DEF Uncommitted, Selecting, Fault, NoFault
<1>7. Ended'
  BY DEF Ended, Custodied, NoPrint, Fault, NoFault
<1> QED
  BY <1>1, <1>2, <1>3, <1>4, <1>5, <1>6, <1>7

LEMMA KioskActsKeeps ==
    ASSUME TypeOK, IInv, KioskActs
    PROVE  (TypeOK /\ IInv)'
<1> USE PhoneAssumption DEF IInv, clock, Terminal, KioskActs, Session!Advance,
                            Accepts, CanTransition, Successors, Session!CanTransition, Session!Successors,
                            server, session
<1>1. TypeOK'
  <2>1. page' \in Pages
    BY DEF TypeOK, Pages, Stages, Verdicts, Failing, Selecting
  <2>2. printing' \in [Prints -> PrintRuns]
    BY DEF TypeOK, PrintRuns, Places, Failing
  <2>3. /\ status' \in Statuses /\ phone' \in {Me, Other, None}
        /\ etag' \in Picks \cup {None, "zeros"} /\ reader' \in {Kiosk, None}
    BY DEF TypeOK, PrintRuns, Statuses
  <2>4. wiped' \subseteq Picks /\ faults' \in Nat
    BY DEF TypeOK, Pages, Fault, NoFault
  <2> QED
    BY <2>1, <2>2, <2>3, <2>4 DEF TypeOK
<1>2. Custodied'
  BY DEF Custodied, Early, Processing, Fault, NoFault
<1>3. Claimed'
  BY DEF Claimed, NoPrint, Fault, NoFault
<1>4. Selected'
  BY DEF Selected, NothingForgotten, Fault, NoFault
<1>5. Undisturbed'
  BY DEF Undisturbed, Active, Fault, NoFault
<1>6. Uncommitted'
  BY DEF Uncommitted, Selecting, Fault, NoFault
<1>7. Ended'
  BY DEF Ended, NoPrint, Fault, NoFault
<1> QED
  BY <1>1, <1>2, <1>3, <1>4, <1>5, <1>6, <1>7

LEMMA TimeOverKeeps ==
    ASSUME TypeOK, IInv, TimeOver
    PROVE  (TypeOK /\ IInv)'
<1> USE PhoneAssumption DEF IInv, clock, Terminal, TimeOver, server, session
<1>1. TypeOK'
  <2>1. page' \in Pages
    BY DEF TypeOK, Pages, Stages, Verdicts, Failing, Selecting
  <2>2. printing' \in [Prints -> PrintRuns]
    BY DEF TypeOK, PrintRuns, Places, Failing
  <2>3. /\ status' \in Statuses /\ phone' \in {Me, Other, None}
        /\ etag' \in Picks \cup {None, "zeros"} /\ reader' \in {Kiosk, None}
    BY DEF TypeOK, PrintRuns, Statuses
  <2>4. wiped' \subseteq Picks /\ faults' \in Nat
    BY DEF TypeOK, Pages, Fault, NoFault
  <2> QED
    BY <2>1, <2>2, <2>3, <2>4 DEF TypeOK
<1>2. Custodied'
  BY DEF Custodied, Early, Processing, Fault, NoFault
<1>3. Claimed'
  BY DEF Claimed, NoPrint, Fault, NoFault
<1>4. Selected'
  BY DEF Selected, NothingForgotten, Fault, NoFault
<1>5. Undisturbed'
  BY DEF Undisturbed, Active, Fault, NoFault
<1>6. Uncommitted'
  BY DEF Uncommitted, Selecting, Fault, NoFault
<1>7. Ended'
  BY DEF Ended, Custodied, NoPrint, Fault, NoFault
<1> QED
  BY <1>1, <1>2, <1>3, <1>4, <1>5, <1>6, <1>7

LEMMA NextKeeps == TypeOK /\ IInv /\ [Next]_vars => (TypeOK /\ IInv)'
<1> SUFFICES ASSUME TypeOK, IInv, [Next]_vars PROVE (TypeOK /\ IInv)'
  OBVIOUS
<1>1. CASE Mount \/ AskClaim \/ CheckKey \/ Booted
  BY <1>1, MountKeeps, AskClaimKeeps, CheckKeyKeeps, BootedKeeps
<1>2. ASSUME NEW p \in Picks,
             \/ Choose(p) \/ Picked(p) \/ Refused(p)
             \/ AskPassword(p) \/ GivePassword(p) \/ GiveUp(p)
      PROVE  (TypeOK /\ IInv)'
  BY <1>2, ChooseKeeps, PickedKeeps, RefusedKeeps, AskPasswordKeeps,
     GivePasswordKeeps, GiveUpKeeps
<1>3. CASE ChooseAgain \/ Shutdown
  BY <1>3, ChooseAgainKeeps, ShutdownKeeps
<1>4. ASSUME NEW r \in Prints,
             \/ SendDocument(r) \/ Encrypt(r) \/ Request(r) \/ Put(r)
             \/ CancelClaim(r) \/ Poll(r) \/ Unknown(r)
      PROVE  (TypeOK /\ IInv)'
  BY <1>4, SendDocumentKeeps, EncryptKeeps, RequestKeeps, PutKeeps,
     CancelClaimKeeps, PollKeeps, UnknownKeeps
<1>5. CASE OtherClaims \/ KioskReads \/ KioskConsumes \/ KioskActs \/ TimeOver
  BY <1>5, OtherClaimsKeeps, KioskReadsKeeps, KioskConsumesKeeps, KioskActsKeeps,
     TimeOverKeeps
<1>6. CASE UNCHANGED vars
  BY <1>6 DEF vars, server, session, clock, TypeOK, IInv, Custodied, Claimed, Selected,
              NothingForgotten, Undisturbed, Active, Uncommitted, Ended
<1> QED
  BY <1>1, <1>2, <1>3, <1>4, <1>5, <1>6 DEF Next

LEMMA InitKeeps == Init => TypeOK /\ IInv
<1> SUFFICES ASSUME Init PROVE TypeOK /\ IInv
  OBVIOUS
<1> USE PhoneAssumption DEF Init, Session!Init, NoPrint
<1>1. TypeOK
  BY DEF TypeOK, Statuses, Pages, Stages, Selecting, Verdicts, Failing, PrintRuns, Places
<1>2. Custodied /\ Claimed /\ Selected
  BY DEF Custodied, Processing, Early, Terminal, Claimed, Selected, NothingForgotten
<1>3. Undisturbed /\ Uncommitted /\ Ended
  BY DEF Undisturbed, Active, Uncommitted, Ended
<1> QED
  BY <1>1, <1>2, <1>3 DEF IInv

(* The types of the page, of its print handlers and of the session, and    *)
(* the invariant above, whichever pickers, prints and answers overlap.     *)
THEOREM PhonePageInvariant == Spec => [](TypeOK /\ IInv)
BY InitKeeps, NextKeeps, PTL DEF Spec

(* A request moves the session along the table, or leaves it alone.        *)
LEMMA StepIsLifecycle ==
    ASSUME TypeOK, IInv, [Next]_vars
    PROVE  [Session!Next]_(Session!vars)
<1> USE DEF Session!vars
<1>1. CASE AskClaim \/ OtherClaims
  BY <1>1 DEF AskClaim, OtherClaims, session, Session!Next
<1>2. CASE CheckKey
  BY <1>2 DEF CheckKey, session, Session!Next, Session!Statuses
<1>3. ASSUME NEW r \in Prints, Request(r)
      PROVE  [Session!Next]_(Session!vars)
  <2>1. printing[r].at = "completing" => printing[r].sealed \in Picks \cup {"zeros"}
    BY <1>3 DEF TypeOK, PrintRuns, IInv, Ended
  <2>2. Target(printing[r].at) \in Session!Statuses
    BY <1>3 DEF Request, Target, Session!Statuses
  <2>3. CASE Carries(r)
    BY <2>1, <2>2, <2>3, <1>3 DEF Request, Carries, Session!Next
  <2>4. CASE UNCHANGED session
    BY <2>4 DEF session
  <2> QED
    BY <1>3, <2>3, <2>4 DEF Request
<1>4. ASSUME NEW r \in Prints, CancelClaim(r)
      PROVE  [Session!Next]_(Session!vars)
  BY <1>4 DEF CancelClaim, session, Session!Next, Session!Statuses
<1>5. CASE KioskConsumes
  BY <1>5 DEF KioskConsumes, session, Session!Next
<1>6. CASE KioskActs
  <2>1. ASSUME NEW to \in {"validating", "printing", "completed", "failed", "cancelled",
                           "expired"},
               Session!Advance(to)
        PROVE  Session!Next
    BY <2>1 DEF Session!Next, Session!Statuses
  <2> QED
    BY <1>6, <2>1 DEF KioskActs
<1>7. CASE \/ Mount \/ Booted \/ ChooseAgain \/ Shutdown \/ KioskReads \/ TimeOver
           \/ UNCHANGED vars
  BY <1>7 DEF Mount, Booted, ChooseAgain, Shutdown, KioskReads, TimeOver, server, session, clock, vars
<1>8. ASSUME NEW p \in Picks,
             \/ Choose(p) \/ Picked(p) \/ Refused(p)
             \/ AskPassword(p) \/ GivePassword(p) \/ GiveUp(p)
      PROVE  UNCHANGED session
  BY <1>8 DEF Choose, Picked, Refused, Reject, AskPassword, GivePassword, GiveUp, server
<1>9. ASSUME NEW r \in Prints,
             SendDocument(r) \/ Encrypt(r) \/ Put(r) \/ Poll(r) \/ Unknown(r)
      PROVE  UNCHANGED session
  BY <1>9 DEF SendDocument, Encrypt, Put, Poll, Unknown, Outcome, server
<1> QED
  BY <1>1, <1>2, <1>3, <1>4, <1>5, <1>6, <1>7, <1>8, <1>9 DEF Next, session

(* PhonePage implements PrintSession: what the page has the server do      *)
(* follows the published life cycle, one claim and one ciphertext, that of *)
(* a selection it has sealed, whatever picks, prints, lost answers, other  *)
(* phones and kiosks overlap.  (claimOnce, print, requireMutableSession)   *)
THEOREM PhoneFollowsLifecycle == Spec => Session!Spec
<1>1. Init => Session!Init
  BY DEF Init
<1> QED
  BY <1>1, PhonePageInvariant, StepIsLifecycle, PTL DEF Spec, Session!Spec

(* NothingForgotten: a selection that is neither on the page nor being     *)
(* checked is zero.  (clearDocuments)                                      *)
THEOREM NoSelectionIsForgotten == Spec => []NothingForgotten
<1>1. IInv => NothingForgotten
  BY DEF IInv, Selected
<1> QED
  BY <1>1, PhonePageInvariant, PTL

(* SealedIsPreviewed: as long as no pick strays, what is committed is of   *)
(* the bytes on the preview, and a page that has ended holds none.         *)
(* (encryptDocument, clearDocuments)                                       *)
THEOREM WhatIsSealedWasSeen == Spec => []SealedIsPreviewed
<1>1. TypeOK /\ IInv => SealedIsPreviewed
  BY DEF TypeOK, IInv, Undisturbed, SealedIsPreviewed
<1> QED
  BY <1>1, PhonePageInvariant, PTL

(* VerdictStands: what the page says of the claim, of the print and of the *)
(* upload is what became of it.  (claimOnce, watchPrintStatus, cancelClaim)*)
THEOREM VerdictsAreTrue == Spec => []VerdictStands
<1>1. TypeOK /\ IInv => VerdictStands
  <2> SUFFICES ASSUME TypeOK, IInv PROVE VerdictStands
    OBVIOUS
  <2>1. page.told = "usedQr" =>
            phone = Other \/ (phone = None /\ status \in Terminal)
    BY DEF IInv, Claimed
  <2>2. /\ page.stage \in {"complete", "closed"} => status = "completed"
        /\ page.told = "printFailed" => status \in {"failed", "cancelled"}
    BY DEF IInv, Ended
  <2>3. page.told = "watchExpired" =>
            reader = None \/ status = "expired" \/ raced
    BY DEF IInv, Ended
  <2>4. page.told \in {"networkError", "expiredQr"} =>
            reader = None \/ faults > 0 \/ strayed \/ phone = Other
    <3>1. reader # None => etag # None
      BY DEF IInv, Custodied
    <3>2. faults = 0 \/ faults > 0
      BY DEF TypeOK
    <3>3. ~strayed /\ faults = 0 /\ page.told \in {"networkError", "expiredQr"}
             => etag = None
      BY DEF IInv, Uncommitted
    <3> QED
      BY <3>1, <3>2, <3>3, Zenon DEF TypeOK
  <2> QED
    BY <2>1, <2>2, <2>3, <2>4 DEF VerdictStands
<1> QED
  BY <1>1, PhonePageInvariant, PTL

---------------------------------------------------------------------------
(* The sender's page *)

Said == {"waiting", "opened", "downloading", "delivered"}

SendRecords ==
    [at : {"none", "creating", "uploading", "sealing", "sealed", "revoking", "over"},
     tries : Nat, aborted : BOOLEAN, revokes : Transfers \cup {0}, late : BOOLEAN]

SendPages ==
    [stage : {"pick", "sending", "ready", "error"}, result : Transfers \cup {0},
     sealed : BOOLEAN, deleted : BOOLEAN, receiver : Said]

SendTypes ==
    /\ seen \in [Transfers -> Said]
    /\ send \in [Transfers -> SendRecords]
    /\ spage \in SendPages
    /\ created \in Transfers \cup {0}
    /\ polls \subseteq Said

(* Until a code is shown nothing is said of its receiver, and nobody asks. *)
Silent ==
    /\ spage.stage = "ready" => spage.result \in Transfers
    /\ spage.stage \in {"pick", "sending"} => spage.receiver = "waiting"
    /\ polls # {} => spage.stage = "ready"

(* What is said, or about to be, is of the transfer that is shown. *)
Heard ==
    spage.stage = "ready" /\ ~send[spage.result].late =>
        \A said \in polls \cup {spage.receiver} :
            Rank[said] <= Rank[seen[spage.result]]

SendInv == SendTypes /\ Silent /\ Heard

LEMMA Ranks ==
    /\ Rank["waiting"] = 0 /\ Rank["opened"] = 1
    /\ Rank["downloading"] = 2 /\ Rank["delivered"] = 3
    /\ \A said \in Said : Rank[said] \in Int /\ 0 <= Rank[said]
BY DEF Rank, Said

(* A step that shows another page, or the same with answers to come. *)
LEMMA ShownKeeps ==
    ASSUME SendInv, SendTypes',
           \A t \in Transfers : /\ send'[t].late = send[t].late
                               /\ Rank[seen[t]] <= Rank[seen'[t]],
           \/ /\ spage'.stage \in {"pick", "sending"} /\ spage'.receiver = "waiting"
              /\ polls' = {}
           \/ spage'.stage = "error" /\ polls' = {}
           \/ /\ spage'.stage = spage.stage /\ spage'.result = spage.result
              /\ spage'.receiver \in polls \cup {spage.receiver}
              /\ spage'.stage # "ready" => spage'.receiver = spage.receiver
              /\ \/ polls' \subseteq polls
                 \/ spage.stage = "ready" /\ polls' = polls \cup {seen[spage.result]}
    PROVE  SendInv'
<1>1. Silent'
  BY DEF SendInv, Silent
<1>2. Heard'
  <2>1. SUFFICES ASSUME spage'.stage = "ready", ~send'[spage'.result].late,
                        NEW said \in polls' \cup {spage'.receiver}
                 PROVE  Rank[said] <= Rank[seen'[spage'.result]]
    BY DEF Heard
  <2>2. /\ spage'.result = spage.result /\ spage.result \in Transfers
        /\ spage.stage = "ready" /\ ~send[spage.result].late
    BY <2>1 DEF SendInv, Silent
  <2>3. said \in Said
    BY <2>1 DEF SendTypes, SendPages
  <2>6. said \in polls \cup {spage.receiver, seen[spage.result]}
    BY <2>1, <2>2
  <2>4. /\ Rank[said] <= Rank[seen[spage.result]]
    BY <2>2, <2>3, <2>6, Ranks DEF SendInv, Heard, SendTypes
  <2>5. Rank[said] \in Int /\ Rank[seen[spage.result]] \in Int /\ Rank[seen'[spage.result]] \in Int
    BY <2>2, <2>3, Ranks DEF SendInv, SendTypes
  <2> QED
    BY <2>2, <2>4, <2>5
<1> QED
  BY <1>1, <1>2 DEF SendInv

(* A send goes on, and stays late or not. *)
LEMMA SendGoesOn ==
    ASSUME SendInv, NEW t \in Transfers, NEW x, x \in SendRecords,
           x.late = send[t].late, send' = [send EXCEPT ![t] = x]
    PROVE  /\ send' \in [Transfers -> SendRecords]
           /\ \A u \in Transfers : send'[u].late = send[u].late
BY DEF SendInv, SendTypes

LEMMA SendPlaces ==
    ASSUME NEW x \in SendRecords,
           NEW at \in {"creating", "uploading", "sealing", "sealed", "revoking", "over"}
    PROVE  [x EXCEPT !.at = at] \in SendRecords /\ [x EXCEPT !.at = at].late = x.late
BY DEF SendRecords

(* What Show leaves of the answers that are under way. *)
LEMMA ShowKeeps ==
    ASSUME NEW p, Show(p)
    PROVE  /\ spage' = p /\ polls' \in {polls, {}}
           /\ p.stage # spage.stage => polls' = {}
BY DEF Show, Heeded

LEMMA FailKeeps ==
    ASSUME SendInv, NEW t \in Transfers, Fail(t), UNCHANGED <<seen, created>>
    PROVE  SendInv'
<1>1. send[t] \in SendRecords
  BY DEF SendInv, SendTypes
<1>2. CASE created = 0
  <2>1. send' = [send EXCEPT ![t] = [send[t] EXCEPT !.at = "over"]]
    BY <1>2 DEF Fail, Over, SendInv, SendTypes
  <2>2. spage' = [spage EXCEPT !.stage = "error"] /\ polls' \in {polls, {}} /\ (spage.stage # "error" => polls' = {})
    <3>1. Show([spage EXCEPT !.stage = "error"])
      BY <1>2 DEF Fail
    <3> QED
      BY <3>1, ShowKeeps DEF SendInv, SendTypes, SendPages
  <2>3. [send[t] EXCEPT !.at = "over"] \in SendRecords
        /\ [send[t] EXCEPT !.at = "over"].late = send[t].late
    BY <1>1, SendPlaces
  <2>4. /\ send' \in [Transfers -> SendRecords]
        /\ \A u \in Transfers : send'[u].late = send[u].late
    BY <2>1, <2>3, SendGoesOn
  <2>6. SendTypes'
    BY <2>2, <2>4 DEF SendInv, SendTypes, SendPages
  <2>5. spage'.stage = "error" /\ polls' = {}
    BY <2>2 DEF SendInv, Silent, SendTypes, SendPages
  <2> QED
    BY <2>4, <2>5, <2>6, ShownKeeps, Ranks DEF SendInv, SendTypes
<1>3. CASE created # 0
  <2>1. send' = [send EXCEPT ![t] = [send[t] EXCEPT !.at = "revoking", !.revokes = created]]
    BY <1>3 DEF Fail, SendInv, SendTypes
  <2>2. UNCHANGED <<spage, polls>>
    BY <1>3 DEF Fail
  <2> DEFINE x == [send[t] EXCEPT !.at = "revoking", !.revokes = created]
  <2>3. x \in SendRecords /\ x.late = send[t].late
    BY <1>1 DEF SendRecords, SendInv, SendTypes
  <2>4. /\ send' \in [Transfers -> SendRecords]
        /\ \A u \in Transfers : send'[u].late = send[u].late
    BY <2>1, <2>3, SendGoesOn
  <2>5. SendTypes'
    BY <2>2, <2>4 DEF SendInv, SendTypes
  <2> QED
    BY <2>2, <2>4, <2>5, ShownKeeps, Ranks DEF SendInv, SendTypes
<1> QED
  BY <1>2, <1>3

LEMMA InitSends == SendInit => SendInv
<1> SUFFICES ASSUME SendInit PROVE SendInv
  OBVIOUS
<1>1. SendTypes
  BY DEF SendInit, ServiceInit, SendTypes, SendRecords, SendPages, FreshPage, Idle, Said
<1>2. Silent /\ Heard
  BY DEF SendInit, FreshPage, Silent, Heard
<1> QED
  BY <1>1, <1>2 DEF SendInv

LEMMA StartKeeps ==
    ASSUME SendInv, NEW t \in Transfers, Start(t)
    PROVE  SendInv'
<1> DEFINE x == [send[t] EXCEPT !.at = "creating"]
           p == [spage EXCEPT !.stage = "sending", !.sealed = FALSE, !.receiver = "waiting"]
<1>1. send[t] \in SendRecords /\ spage \in SendPages
  BY DEF SendInv, SendTypes
<1>2. x \in SendRecords /\ x.late = send[t].late
  BY <1>1, SendPlaces
<1>3. send' = [send EXCEPT ![t] = x]
  BY DEF Start, SendInv, SendTypes
<1>4. /\ send' \in [Transfers -> SendRecords]
      /\ \A u \in Transfers : send'[u].late = send[u].late
  BY <1>2, <1>3, SendGoesOn
<1>5. p \in SendPages /\ p.stage = "sending" /\ p.receiver = "waiting"
  BY <1>1 DEF SendPages, Said
<1>6. spage' = p /\ polls' = {}
  BY <1>5, ShowKeeps DEF Start
<1>7. SendTypes'
  BY <1>4, <1>5, <1>6 DEF SendInv, SendTypes, Start
<1> QED
  BY <1>4, <1>5, <1>6, <1>7, ShownKeeps, Ranks DEF SendInv, SendTypes, Start

(* The one step that puts a code on the screen.  A page that waits for it  *)
(* has said nothing yet, and any other makes it late.                      *)
LEMMA CreatedKeeps ==
    ASSUME SendInv, NEW t \in Transfers, Created(t)
    PROVE  SendInv'
<1>1. CASE Fail(t) /\ UNCHANGED <<svc, created>>
  BY <1>1, FailKeeps DEF Created
<1>2. CASE ~(Fail(t) /\ UNCHANGED <<svc, created>>)
  <2> DEFINE x == [send[t] EXCEPT !.at = "uploading", !.late = spage.stage # "sending"]
             p == [spage EXCEPT !.stage = "ready", !.result = t]
  <2>1. send[t] \in SendRecords /\ spage \in SendPages
    BY DEF SendInv, SendTypes
  <2>2. x \in SendRecords /\ x.late = (spage.stage # "sending")
    BY <2>1 DEF SendRecords
  <2>3. send' = [send EXCEPT ![t] = x] /\ created' = t /\ UNCHANGED seen
    BY <1>2 DEF Created, SendInv, SendTypes
  <2>4. p \in SendPages /\ p.stage = "ready" /\ p.result = t
        /\ p.receiver = spage.receiver
    BY <2>1 DEF SendPages
  <2>5. spage' = p /\ polls' \in {polls, {}} /\ (spage.stage # "ready" => polls' = {})
    BY <1>2, <2>4, ShowKeeps DEF Created
  <2>6. SendTypes'
    BY <2>2, <2>3, <2>4, <2>5 DEF SendInv, SendTypes
  <2>7. Silent'
    BY <2>4, <2>5 DEF SendInv, Silent
  <2>8. send'[t] = x
    BY <2>3 DEF SendInv, SendTypes
  <2>9. Heard'
    <3>1. SUFFICES ASSUME spage.stage = "sending",
                          NEW said \in polls' \cup {spage'.receiver}
                   PROVE  Rank[said] <= Rank[seen'[t]]
      BY <2>2, <2>4, <2>5, <2>8 DEF Heard
    <3>2. said = "waiting"
      BY <2>4, <2>5, <3>1 DEF SendInv, Silent
    <3>3. seen'[t] \in Said
      BY <2>3 DEF SendInv, SendTypes
    <3> QED
      BY <3>2, <3>3, Ranks
  <2> QED
    BY <2>6, <2>7, <2>9 DEF SendInv
<1> QED
  BY <1>1, <1>2

(* A step of a send that leaves the page alone. *)
LEMMA SendMoves ==
    ASSUME SendInv, NEW t \in Transfers, NEW x, x \in SendRecords,
           x.late = send[t].late, send' = [send EXCEPT ![t] = x],
           UNCHANGED <<seen, spage, polls>>, created' \in {created, 0}
    PROVE  SendInv'
<1>1. /\ send' \in [Transfers -> SendRecords]
      /\ \A u \in Transfers : send'[u].late = send[u].late
  BY SendGoesOn
<1>2. SendTypes'
  BY <1>1 DEF SendInv, SendTypes
<1> QED
  BY <1>1, <1>2, ShownKeeps, Ranks DEF SendInv, SendTypes

LEMMA UploadKeeps ==
    ASSUME SendInv, NEW t \in Transfers, Upload(t)
    PROVE  SendInv'
<1>1. CASE Fail(t)
  BY <1>1, FailKeeps DEF Upload
<1>2. CASE ~Fail(t)
  <2>1. send[t] \in SendRecords
    BY DEF SendInv, SendTypes
  <2>2. send' = [send EXCEPT ![t] = [send[t] EXCEPT !.at = "sealing"]]
    BY <1>2 DEF Upload, SendInv, SendTypes
  <2> QED
    BY <1>2, <2>1, <2>2, SendPlaces, SendMoves DEF Upload
<1> QED
  BY <1>1, <1>2

LEMMA SealKeeps ==
    ASSUME SendInv, NEW t \in Transfers, ServeSeal(t)
    PROVE  SendInv'
<1>1. send[t] \in SendRecords
  BY DEF SendInv, SendTypes
<1>2. send' = [send EXCEPT ![t] = [send[t] EXCEPT !.at = "sealed"]]
  BY DEF ServeSeal, SendInv, SendTypes
<1> QED
  BY <1>1, <1>2, SendPlaces, SendMoves DEF ServeSeal

LEMMA SealLostKeeps ==
    ASSUME SendInv, NEW t \in Transfers, SealLost(t)
    PROVE  SendInv'
<1>1. CASE Fail(t)
  BY <1>1, FailKeeps DEF SealLost
<1>2. CASE ~Fail(t)
  <2> DEFINE x == [send[t] EXCEPT !.at = "sealing", !.tries = send[t].tries + 1]
  <2>1. send[t] \in SendRecords
    BY DEF SendInv, SendTypes
  <2>2. x \in SendRecords /\ x.late = send[t].late
    <3>1. send[t].tries + 1 \in Nat
      BY <2>1 DEF SendRecords
    <3>2. ASSUME NEW n \in Nat
          PROVE  /\ [send[t] EXCEPT !.at = "sealing", !.tries = n] \in SendRecords
                 /\ [send[t] EXCEPT !.at = "sealing", !.tries = n].late = send[t].late
      BY <2>1 DEF SendRecords
    <3> QED
      BY <3>1, <3>2
  <2>3. send' = [send EXCEPT ![t] = x]
    BY <1>2 DEF SealLost, SendInv, SendTypes
  <2> QED
    BY <1>2, <2>2, <2>3, SendMoves DEF SealLost
<1> QED
  BY <1>1, <1>2

(* The end of a send, with what the page then shows. *)
LEMMA SentKeeps ==
    ASSUME SendInv, NEW t \in Transfers, Sent(t)
    PROVE  SendInv'
<1> DEFINE p == [spage EXCEPT !.sealed = TRUE]
<1>1. send[t] \in SendRecords /\ spage \in SendPages
  BY DEF SendInv, SendTypes
<1>2. send' = [send EXCEPT ![t] = [send[t] EXCEPT !.at = "over"]]
  BY DEF Sent, Over, SendInv, SendTypes
<1>3. /\ send' \in [Transfers -> SendRecords]
      /\ \A u \in Transfers : send'[u].late = send[u].late
  BY <1>1, <1>2, SendPlaces, SendGoesOn
<1>4. /\ p \in SendPages /\ p.stage = spage.stage /\ p.result = spage.result
      /\ p.receiver = spage.receiver
  BY <1>1 DEF SendPages
<1>5. spage' = p /\ polls' \in {polls, {}}
  BY ShowKeeps DEF Sent
<1>6. SendTypes'
  BY <1>3, <1>4, <1>5 DEF SendInv, SendTypes, Sent
<1> QED
  BY <1>3, <1>4, <1>5, <1>6, ShownKeeps, Ranks DEF SendInv, SendTypes, Sent

LEMMA RevokedKeeps ==
    ASSUME SendInv, NEW t \in Transfers, Revoked(t)
    PROVE  SendInv'
<1> DEFINE p == [spage EXCEPT !.stage = "error"]
<1>1. send[t] \in SendRecords /\ spage \in SendPages
  BY DEF SendInv, SendTypes
<1>2. send' = [send EXCEPT ![t] = [send[t] EXCEPT !.at = "over"]]
  BY DEF Revoked, Over, SendInv, SendTypes
<1>3. /\ send' \in [Transfers -> SendRecords]
      /\ \A u \in Transfers : send'[u].late = send[u].late
  BY <1>1, <1>2, SendPlaces, SendGoesOn
<1>4. p \in SendPages /\ p.stage = "error"
  BY <1>1 DEF SendPages
<1>5. spage' = p /\ polls' = {}
  BY <1>4, ShowKeeps DEF Revoked, SendInv, Silent
<1>6. SendTypes'
  BY <1>3, <1>4, <1>5 DEF SendInv, SendTypes, Revoked
<1> QED
  BY <1>3, <1>4, <1>5, <1>6, ShownKeeps, Ranks DEF SendInv, SendTypes, Revoked

(* The signal of the controller the page holds, Stop and Erase. *)
LEMMA AbortKeeps ==
    ASSUME SendInv, send' = Aborted(send), UNCHANGED <<seen, spage, polls>>,
           created' \in {created, 0}
    PROVE  SendInv'
<1>1. CASE send' = send
  <2>1. SendTypes'
    BY <1>1 DEF SendInv, SendTypes
  <2> QED
    BY <1>1, <2>1, ShownKeeps, Ranks DEF SendInv, SendTypes
<1>2. CASE send' # send
  <2> DEFINE x == [send[abort] EXCEPT !.aborted = TRUE]
  <2>1. abort \in Transfers /\ send' = [send EXCEPT ![abort] = x]
    BY <1>2 DEF Aborted, SendInv, SendTypes
  <2>2. x \in SendRecords /\ x.late = send[abort].late
    BY <2>1 DEF SendInv, SendTypes, SendRecords
  <2> QED
    BY <2>1, <2>2, SendMoves
<1> QED
  BY <1>1, <1>2

LEMMA ErasedKeeps ==
    ASSUME SendInv, NEW t \in Transfers, Erased(t)
    PROVE  SendInv'
<1> DEFINE p == [spage EXCEPT !.deleted = TRUE]
<1>1. /\ p \in SendPages /\ p.stage = spage.stage /\ p.result = spage.result
      /\ p.receiver = spage.receiver
  BY DEF SendInv, SendTypes, SendPages
<1>2. spage' = p /\ polls' \in {polls, {}}
  BY ShowKeeps DEF Erased
<1>3. SendTypes'
  BY <1>1, <1>2 DEF SendInv, SendTypes, Erased
<1> QED
  BY <1>1, <1>2, <1>3, ShownKeeps, Ranks DEF SendInv, SendTypes, Erased

LEMMA RestartKeeps ==
    ASSUME SendInv, Restart
    PROVE  SendInv'
<1>1. /\ FreshPage \in SendPages /\ FreshPage.stage = "pick"
      /\ FreshPage.receiver = "waiting"
  BY DEF FreshPage, SendPages, Said
<1>2. spage.stage # "pick"
  BY DEF Restart, MayRestart
<1>3. spage' = FreshPage /\ polls' = {}
  BY <1>1, <1>2, ShowKeeps DEF Restart
<1>4. SendTypes'
  BY <1>1, <1>3 DEF SendInv, SendTypes, Restart
<1> QED
  BY <1>1, <1>3, <1>4, ShownKeeps, Ranks DEF SendInv, SendTypes, Restart

LEMMA PollsKeep ==
    ASSUME SendInv, PollStatus \/ PollAnswered
    PROVE  SendInv'
<1>1. CASE PollStatus
  <2>1. spage.stage = "ready" /\ spage.result \in Transfers
    BY <1>1 DEF PollStatus, SendInv, Silent
  <2>2. SendTypes'
    BY <1>1, <2>1 DEF SendInv, SendTypes, PollStatus
  <2> QED
    BY <1>1, <2>1, <2>2, ShownKeeps, Ranks DEF SendInv, SendTypes, PollStatus
<1>2. CASE PollAnswered
  <2>1. PICK said \in polls : Show([spage EXCEPT !.receiver = said])
    BY <1>2 DEF PollAnswered
  <2> DEFINE p == [spage EXCEPT !.receiver = said]
  <2>2. /\ p \in SendPages /\ p.stage = spage.stage /\ p.result = spage.result
        /\ p.receiver = said
    BY DEF SendInv, SendTypes, SendPages
  <2>3. spage' = p /\ polls' \in {polls, {}} /\ spage.stage = "ready"
    BY <2>1, ShowKeeps DEF SendInv, Silent
  <2>4. SendTypes'
    BY <1>2, <2>2, <2>3 DEF SendInv, SendTypes, PollAnswered
  <2> QED
    BY <1>2, <2>2, <2>3, <2>4, ShownKeeps, Ranks
    DEF SendInv, SendTypes, PollAnswered
<1> QED
  BY <1>1, <1>2

(* The receiver only gets further. *)
LEMMA ReceiverKeeps ==
    ASSUME SendInv, NEW t \in Transfers, ReceiverActs(t)
    PROVE  SendInv'
<1>1. CASE UNCHANGED seen
  <2>1. SendTypes'
    BY <1>1 DEF SendInv, SendTypes, ReceiverActs, sendOwn
  <2> QED
    BY <1>1, <2>1, ShownKeeps, Ranks DEF SendInv, SendTypes, ReceiverActs, sendOwn
<1>2. CASE PicksUp(t)
  <2>1. PICK event \in {"opened", "downloading", "delivered"} :
            Rank[event] > Rank[seen[t]] /\ Count(t, event)
    BY <1>2 DEF PicksUp
  <2>2. seen' = [seen EXCEPT ![t] = event] /\ event \in Said
    BY <2>1 DEF Count, SendInv, SendTypes, Said
  <2>3. \A u \in Transfers : Rank[seen[u]] <= Rank[seen'[u]]
    <3> SUFFICES ASSUME NEW u \in Transfers
                 PROVE  Rank[seen[u]] <= Rank[seen'[u]]
      OBVIOUS
    <3>1. seen[u] \in Said /\ seen[t] \in Said /\ seen'[u] = IF u = t THEN event ELSE seen[u]
      BY <2>2 DEF SendInv, SendTypes
    <3>2. /\ Rank[seen[u]] \in Int /\ Rank[seen[t]] \in Int
          /\ Rank[event] \in Int
      <4>1. event \in Said
        BY <2>2
      <4> QED
        BY <3>1, <4>1, Ranks
    <3> QED
      BY <2>1, <3>1, <3>2
  <2>4. SendTypes'
    BY <2>2 DEF SendInv, SendTypes, ReceiverActs, sendOwn
  <2> QED
    BY <2>3, <2>4, ShownKeeps DEF ReceiverActs, sendOwn
<1> QED
  BY <1>1, <1>2 DEF ReceiverActs, Closes

LEMMA NextSends == SendInv /\ [SendNext]_sendVars => SendInv'
<1> SUFFICES ASSUME SendInv, [SendNext]_sendVars PROVE SendInv'
  OBVIOUS
<1>1. ASSUME NEW t \in Transfers,
             \/ Created(t) \/ Upload(t) \/ ServeSeal(t)
             \/ Sent(t) \/ SealLost(t) \/ Revoked(t)
             \/ Erased(t) \/ Start(t) \/ ReceiverActs(t)
      PROVE  SendInv'
  BY <1>1, CreatedKeeps, UploadKeeps, SealKeeps, SentKeeps, SealLostKeeps, RevokedKeeps,
     ErasedKeeps, StartKeeps, ReceiverKeeps
<1>2. ASSUME NEW t \in Transfers, SealRefused(t) PROVE SendInv'
  BY <1>2, FailKeeps DEF SealRefused
<1>3. CASE Stop \/ Erase
  BY <1>3, AbortKeeps DEF Stop, Erase
<1>4. CASE Restart \/ PollStatus \/ PollAnswered
  BY <1>4, RestartKeeps, PollsKeep
<1>5. CASE UNCHANGED sendVars
  BY <1>5 DEF sendVars, service, sendOwn, SendInv, SendTypes, Silent, Heard
<1> QED
  BY <1>1, <1>2, <1>3, <1>4, <1>5 DEF SendNext, SendStep, Steps

(* ReceiverNotAhead of SendPage: the page never says more of the transfer  *)
(* it shows than the service has counted for that one, for any number of   *)
(* transfers one after the other, unless its record was late.              *)
THEOREM ReceiverIsNotAhead == SendSpec => []ReceiverNotAhead
<1>1. SendInv => ReceiverNotAhead
  BY DEF SendInv, Heard, ReceiverNotAhead
<1> QED
  BY <1>1, InitSends, NextSends, PTL DEF SendSpec

---------------------------------------------------------------------------
(* The receiver's page *)

SaveRecords ==
    [at : {"none", "waking", "asking", "writing", "over"}, kind : {"one", "all", "share"},
     drop : Transfers \cup {0}, todo : SUBSET Nat, aborted : BOOLEAN]

(* What the files of a save are does not depend on the page. *)
HasFiles(k) ==
    k \in Underway => /\ save[k].drop \in Transfers
                     /\ save[k].todo # {} /\ save[k].todo \subseteq Files(save[k].drop)

ReceiveTypes ==
    /\ seen \in [Transfers -> Said]
    /\ got \in [Transfers -> SUBSET Nat]
    /\ \A t \in Transfers : got[t] \subseteq Files(t)
    /\ save \in [Saves -> SaveRecords] /\ \A k \in Saves : HasFiles(k)
    /\ DOMAIN rpage = {"stage", "opening", "drop", "states"}
    /\ rpage.opening \in Transfers \cup {0}
    /\ rpage.opening # 0 => rpage.stage \in {"checking", "pending"}
    /\ rpage.stage = "files" => rpage.drop \in Transfers
    /\ adrift \in BOOLEAN

(* The list on the screen is that of the transfer on the page. *)
Listed ==
    rpage.stage = "files" =>
        /\ ref = rpage.states /\ DOMAIN ref = Files(rpage.drop)
        /\ \A i \in Files(rpage.drop) :
               Arrived(ref[i]) => i \in got[rpage.drop]

(* A save works on the files of the page. *)
OnPage(k) == rpage.stage = "files" /\ rpage.drop = save[k].drop

(* It is the only one under way, and Cancel would stop it. *)
Held(k) == cancel = k /\ Underway = {k}

(* Was told to stop before anything of it came, and fetches nothing more.  *)
Stopped(k) == save[k].aborted /\ save[k].at \in {"waking", "asking"}

(* A save is at work on the files of the page, or is the one that the page *)
(* left behind when it looked idle, and stops.  While it is the only one,  *)
(* a file of the page is missing, and the page looks busy unless the save  *)
(* waits for the screen or stops.                                          *)
AtWork(k) ==
    k \in Underway =>
        /\ OnPage(k) \/ (Held(k) /\ Stopped(k))
        /\ Held(k) => /\ \E j \in DOMAIN ref : ~Arrived(ref[j])
                      /\ \/ save[k].at = "waking"
                         \/ Stopped(k)
                         \/ OnPage(k) /\ ref[First(k)] = "saving"

(* What the page keeps to until a save is adrift. *)
PageInv ==
    /\ Listed /\ DeliveredIsWhole
    /\ \A k \in Saves : AtWork(k)

ReceiveInv == ReceiveTypes /\ (adrift \/ PageInv)

LEMMA LeastNatural ==
    ASSUME NEW N \in SUBSET Nat, N # {}
    PROVE  \E n \in N : \A m \in N : n <= m
<1> DEFINE R == OpToRel(<, Nat)
<1>1. IsWellFoundedOn(R, Nat)
  BY NatLessThanWellFounded
<1>2. \A x, y \in Nat : <<x, y>> \in R <=> x < y
  BY DEF OpToRel
<1> HIDE DEF R
<1>3. PICK n \in N : \A m \in N : <<m, n>> \notin R
  BY <1>1, WFMin
<1>4. ASSUME NEW m \in N PROVE n <= m
  <2>1. m \in Nat /\ n \in Nat
    OBVIOUS
  <2>2. <<m, n>> \notin R
    BY <1>3
  <2>3. ~ (m < n)
    BY <1>2, <2>1, <2>2, Zenon
  <2> QED
    BY <2>1, <2>3
<1> QED
  BY <1>4

LEMMA FirstIsOne ==
    ASSUME NEW S \in SUBSET Nat, S # {}
    PROVE  Min(S) \in S
BY LeastNatural DEF Min

LEMMA SomeFile ==
    ASSUME NEW t \in Transfers
    PROVE  Files(t) \subseteq Nat /\ 1 \in Files(t)
<1>1. FileCounts[t] \in Nat \ {0}
  BY PageAssumption
<1> QED
  BY <1>1 DEF Files

(* What the service counts besides the delivery. *)
LEMMA CountKeeps ==
    ASSUME ReceiveTypes, NEW t \in Transfers, NEW event \in Said,
           Count(t, event)
    PROVE  /\ seen' \in [Transfers -> Said]
           /\ \A u \in Transfers :
                 seen'[u] = seen[u] \/ (u = t /\ seen'[u] = event)
BY DEF ReceiveTypes, Count

(* Nothing is left to show of a step once a save is adrift. *)
LEMMA UntilAdrift ==
    ASSUME ReceiveInv, ReceiveTypes', adrift => adrift',
           ASSUME ~adrift, ~adrift', PageInv PROVE PageInv'
    PROVE  ReceiveInv'
BY DEF ReceiveInv, ReceiveTypes

(* A step that only tells the service, and nothing of a delivery. *)
LEMMA TellingKeeps ==
    ASSUME ReceiveInv, UNCHANGED <<rpage, ref, cancel, save, got, adrift>>,
           reports' \subseteq reports, seen' \in [Transfers -> Said],
           \A u \in Transfers :
               seen'[u] = "delivered" => seen[u] = "delivered" \/ u \in reports
    PROVE  ReceiveInv'
<1>1. Underway' = Underway
  BY DEF Underway
<1>2. ReceiveTypes'
  BY <1>1 DEF ReceiveInv, ReceiveTypes, HasFiles
<1>3. ASSUME ~adrift, PageInv PROVE PageInv'
  <2>1. Listed' /\ DeliveredIsWhole'
    BY <1>3 DEF PageInv, Listed, DeliveredIsWhole
  <2>2. ASSUME NEW k \in Saves PROVE AtWork(k)'
    BY <1>1, <1>3 DEF PageInv, AtWork, OnPage, Held, Stopped, First
  <2> QED
    BY <2>1, <2>2 DEF PageInv
<1> QED
  BY <1>2, <1>3, UntilAdrift

(* The page leaves the files, or comes to other ones, and the saves stay   *)
(* as they are: each was told to stop before.                              *)
LEMMA PageMoves ==
    ASSUME ReceiveInv, rpage.stage # "files", UNCHANGED <<cancel, save, got, adrift>>,
           ReceiveTypes', PageInv => Listed' /\ DeliveredIsWhole',
           ref' = ref \/ \E j \in DOMAIN ref' : ~Arrived(ref'[j])
    PROVE  ReceiveInv'
<1>1. Underway' = Underway
  BY DEF Underway
<1>2. ASSUME PageInv, NEW k \in Saves PROVE AtWork(k)'
  <2>1. SUFFICES ASSUME k \in Underway PROVE AtWork(k)'
    BY <1>1 DEF AtWork
  <2>2. /\ Held(k) /\ Stopped(k)
        /\ \E j \in DOMAIN ref : ~Arrived(ref[j])
    BY <1>2, <2>1 DEF PageInv, AtWork, OnPage
  <2>3. Held(k)' /\ Stopped(k)'
    BY <1>1, <2>2 DEF Held, Stopped
  <2>4. \E j \in DOMAIN ref' : ~Arrived(ref'[j])
    BY <2>2
  <2> QED
    BY <2>3, <2>4 DEF AtWork
<1>3. PageInv => PageInv'
  BY <1>2 DEF PageInv
<1> QED
  BY <1>3, UntilAdrift

LEMMA OpenKeeps ==
    ASSUME ReceiveInv, NEW t \in Transfers, Open(t)
    PROVE  ReceiveInv'
<1>1. rpage.stage = "code" /\ UNCHANGED <<svc, seen, ref, cancel, save, reports, got, adrift>>
  BY DEF Open
<1>2. /\ DOMAIN rpage' = DOMAIN rpage
      /\ rpage'.stage = "checking" /\ rpage'.opening = t
  BY DEF ReceiveInv, ReceiveTypes, Open
<1>3. Underway' = Underway
  BY <1>1 DEF Underway
<1>4. ReceiveTypes'
  BY <1>1, <1>2, <1>3 DEF ReceiveInv, ReceiveTypes, HasFiles
<1>5. PageInv => Listed' /\ DeliveredIsWhole'
  BY <1>1, <1>2 DEF PageInv, Listed, DeliveredIsWhole
<1> QED
  BY <1>1, <1>4, <1>5, PageMoves

LEMMA OpenedKeeps ==
    ASSUME ReceiveInv, Opened
    PROVE  ReceiveInv'
<1> DEFINE t == rpage.opening
<1>0. t \in Transfers /\ rpage.stage \in {"checking", "pending"}
  BY DEF ReceiveInv, ReceiveTypes, Opened
<1>1. UNCHANGED <<svc, cancel, save, reports, got, adrift>> /\ Underway' = Underway
  BY DEF Opened, Underway
<1>2. CASE rpage' = [rpage EXCEPT !.stage = "files", !.opening = 0, !.drop = t,
                                  !.states = Waiting(t)]
           /\ ref' = Waiting(t)
           /\ (Count(t, "opened") \/ UNCHANGED seen)
  <2>1. /\ seen' \in [Transfers -> Said]
        /\ \A u \in Transfers : seen'[u] = "delivered" => seen[u] = "delivered"
    BY <1>0, <1>2, CountKeeps DEF ReceiveInv, ReceiveTypes, Said
  <2>2. /\ rpage'.stage = "files" /\ rpage'.opening = 0 /\ rpage'.drop = t
        /\ rpage'.states = Waiting(t) /\ DOMAIN rpage' = DOMAIN rpage
    BY <1>2 DEF ReceiveInv, ReceiveTypes
  <2>3. /\ DOMAIN ref' = Files(t)
        /\ \A j \in Files(t) : ~Arrived(ref'[j])
    BY <1>2 DEF Waiting, Arrived
  <2>4. ReceiveTypes'
    BY <1>0, <1>1, <2>1, <2>2 DEF ReceiveInv, ReceiveTypes, HasFiles
  <2>5. Listed'
    BY <1>0, <1>2, <2>2, <2>3 DEF Listed
  <2>6. 1 \in DOMAIN ref' /\ ~Arrived(ref'[1])
    BY <1>0, <2>3, SomeFile
  <2>7. PageInv => DeliveredIsWhole'
    BY <1>1, <2>1 DEF PageInv, DeliveredIsWhole
  <2> QED
    BY <1>0, <1>1, <2>4, <2>5, <2>6, <2>7, PageMoves
<1>3. CASE /\ UNCHANGED <<seen, ref>>
           /\ \/ rpage' = [rpage EXCEPT !.stage = "pending"]
              \/ rpage' = [rpage EXCEPT !.stage = "error", !.opening = 0]
  <2>1. /\ rpage'.stage \in {"pending", "error"} /\ rpage'.opening \in {t, 0}
        /\ rpage'.stage = "error" => rpage'.opening = 0
        /\ DOMAIN rpage' = DOMAIN rpage
    BY <1>3 DEF ReceiveInv, ReceiveTypes
  <2>2. ReceiveTypes'
    BY <1>0, <1>1, <1>3, <2>1 DEF ReceiveInv, ReceiveTypes, HasFiles
  <2>3. PageInv => Listed' /\ DeliveredIsWhole'
    BY <1>1, <1>3, <2>1 DEF PageInv, Listed, DeliveredIsWhole
  <2> QED
    BY <1>0, <1>1, <1>3, <2>2, <2>3, PageMoves
<1> QED
  BY <1>2, <1>3 DEF Opened

(* The signal of the save that the page holds. *)
LEMMA AbortingKeeps ==
    ASSUME ReceiveTypes, save' = AbortedSave
    PROVE  /\ save' \in [Saves -> SaveRecords] /\ Underway' = Underway
           /\ \A k \in Saves :
                 /\ save'[k].at = save[k].at
                 /\ save'[k].todo = save[k].todo /\ save'[k].drop = save[k].drop
                 /\ save[k].aborted => save'[k].aborted
                 /\ cancel = k => save'[k].aborted
<1>1. ASSUME NEW x \in SaveRecords
      PROVE  /\ [x EXCEPT !.aborted = TRUE] \in SaveRecords
             /\ [x EXCEPT !.aborted = TRUE].at = x.at
             /\ [x EXCEPT !.aborted = TRUE].todo = x.todo
             /\ [x EXCEPT !.aborted = TRUE].drop = x.drop
             /\ [x EXCEPT !.aborted = TRUE].aborted
  BY DEF SaveRecords
<1>2. /\ save' \in [Saves -> SaveRecords]
      /\ \A k \in Saves :
            /\ save'[k].at = save[k].at
            /\ save'[k].todo = save[k].todo /\ save'[k].drop = save[k].drop
            /\ save[k].aborted => save'[k].aborted
            /\ cancel = k => save'[k].aborted
  <2>1. CASE cancel \notin Saves
    <3>1. save' = save
      BY <2>1 DEF ReceiveTypes, AbortedSave
    <3> QED
      BY <2>1, <3>1 DEF ReceiveTypes
  <2>2. CASE cancel \in Saves
    <3> DEFINE y == [save[cancel] EXCEPT !.aborted = TRUE]
    <3>1. cancel # "null"
      BY <2>2, PageAssumption
    <3>2. save' = [save EXCEPT ![cancel] = y] /\ save[cancel] \in SaveRecords
      BY <2>2, <3>1 DEF ReceiveTypes, AbortedSave
    <3>3. /\ y \in SaveRecords /\ y.at = save[cancel].at /\ y.todo = save[cancel].todo
          /\ y.drop = save[cancel].drop /\ y.aborted
      BY <1>1, <3>2
    <3> HIDE DEF y
    <3> QED
      BY <2>2, <3>2, <3>3 DEF ReceiveTypes
  <2> QED
    BY <2>1, <2>2
<1> QED
  BY <1>2 DEF Underway

(* The page only forgets a save that it has told to stop, while that one   *)
(* waits for the screen or has been told before.                           *)
LEMMA AnotherKeeps ==
    ASSUME ReceiveInv, ReceiveAnother
    PROVE  ReceiveInv'
<1>1. /\ rpage' = Arrival /\ save' = AbortedSave
      /\ UNCHANGED <<svc, seen, ref, cancel, reports, got>>
      /\ adrift' = (adrift \/ Underway \ {cancel} # {})
  BY DEF ReceiveAnother
<1>2. /\ DOMAIN rpage' = {"stage", "opening", "drop", "states"}
      /\ rpage'.stage = "code" /\ rpage'.opening = 0
  BY <1>1 DEF Arrival
<1>3. /\ save' \in [Saves -> SaveRecords] /\ Underway' = Underway
      /\ \A k \in Saves :
            /\ save'[k].at = save[k].at
            /\ save'[k].todo = save[k].todo /\ save'[k].drop = save[k].drop
            /\ cancel = k => save'[k].aborted
  BY <1>1, AbortingKeeps DEF ReceiveInv
<1>4. ReceiveTypes'
  BY <1>1, <1>2, <1>3 DEF ReceiveInv, ReceiveTypes, HasFiles
<1>5. ASSUME ~adrift, ~adrift', PageInv PROVE PageInv'
  <2>1. Listed' /\ DeliveredIsWhole'
    BY <1>1, <1>2, <1>5 DEF PageInv, Listed, DeliveredIsWhole
  <2>2. ASSUME NEW k \in Saves, k \in Underway PROVE AtWork(k)'
    <3>1. Held(k)
      BY <1>1, <1>5, <2>2 DEF Held
    <3>2. AtWork(k)
      BY <1>5 DEF PageInv
    <3>3. save[k].at \in {"waking", "asking"}
      <4>1. SUFFICES ASSUME OnPage(k), ref[First(k)] = "saving"
                     PROVE  FALSE
        BY <2>2, <3>1, <3>2 DEF AtWork, Stopped
      <4>2. rpage.stage = "files" /\ ~Busy
        BY <4>1 DEF OnPage, ReceiveAnother
      <4>3. /\ save[k].todo \in SUBSET Nat /\ save[k].todo # {}
            /\ save[k].todo \subseteq Files(rpage.drop)
        BY <2>2, <4>1 DEF OnPage, ReceiveInv, ReceiveTypes, HasFiles, SaveRecords
      <4>4. First(k) \in DOMAIN rpage.states
        BY <1>5, <4>2, <4>3, FirstIsOne DEF First, PageInv, Listed
      <4> QED
        BY <1>5, <4>1, <4>2, <4>4 DEF Busy, PageInv, Listed
    <3>4. Held(k)' /\ Stopped(k)'
      BY <1>1, <1>3, <3>1, <3>3 DEF Held, Stopped
    <3> QED
      BY <1>1, <2>2, <3>1, <3>2, <3>4 DEF AtWork
  <2>3. \A k \in Saves : AtWork(k)'
    BY <1>3, <2>2 DEF AtWork
  <2> QED
    BY <2>1, <2>3 DEF PageInv
<1> QED
  BY <1>1, <1>4, <1>5, UntilAdrift

(* Cancel does not change what a save is at work on. *)
LEMMA CancelKeeps ==
    ASSUME ReceiveInv, CancelSave
    PROVE  ReceiveInv'
<1>1. /\ save' = AbortedSave
      /\ UNCHANGED <<svc, seen, rpage, ref, cancel, reports, got, adrift>>
  BY DEF CancelSave
<1>2. /\ save' \in [Saves -> SaveRecords] /\ Underway' = Underway
      /\ \A k \in Saves :
            /\ save'[k].at = save[k].at
            /\ save'[k].todo = save[k].todo /\ save'[k].drop = save[k].drop
            /\ save[k].aborted => save'[k].aborted
  BY <1>1, AbortingKeeps DEF ReceiveInv
<1>3. ReceiveTypes'
  BY <1>1, <1>2 DEF ReceiveInv, ReceiveTypes, HasFiles
<1>4. ASSUME PageInv PROVE PageInv'
  <2>1. Listed' /\ DeliveredIsWhole'
    BY <1>1, <1>4 DEF PageInv, Listed, DeliveredIsWhole
  <2>2. ASSUME NEW k \in Saves PROVE AtWork(k)'
    <3>1. First(k)' = First(k) /\ (Held(k)' <=> Held(k)) /\ (OnPage(k)' <=> OnPage(k))
      BY <1>1, <1>2 DEF First, Held, OnPage
    <3>2. Stopped(k) => Stopped(k)'
      BY <1>2 DEF Stopped
    <3> QED
      BY <1>1, <1>2, <1>4, <3>1, <3>2 DEF PageInv, AtWork
  <2> QED
    BY <2>1, <2>2 DEF PageInv
<1> QED
  BY <1>1, <1>3, <1>4, UntilAdrift

---------------------------------------------------------------------------
(* The steps of a save *)

LEMMA TypesMove ==
    ASSUME ReceiveTypes, NEW k \in Saves, NEW x \in SaveRecords,
           save' = [save EXCEPT ![k] = x],
           x.at \in {"waking", "asking", "writing"} =>
               /\ x.drop \in Transfers
               /\ x.todo # {} /\ x.todo \subseteq Files(x.drop),
           DOMAIN rpage' = DOMAIN rpage, UNCHANGED <<rpage.stage, rpage.opening, rpage.drop>>,
           seen' \in [Transfers -> Said], got' \in [Transfers -> SUBSET Nat],
           \A t \in Transfers : got'[t] \subseteq Files(t),
           adrift' \in BOOLEAN
    PROVE  ReceiveTypes' /\ save'[k] = x /\ \A l \in Saves \ {k} : save'[l] = save[l]
<1>1. save'[k] = x /\ \A l \in Saves \ {k} : save'[l] = save[l]
  BY DEF ReceiveTypes
<1>2. ASSUME NEW l \in Saves PROVE HasFiles(l)'
  <2>1. CASE l = k
    BY <1>1, <2>1 DEF HasFiles, Underway
  <2>2. CASE l # k
    BY <1>1, <2>2 DEF HasFiles, Underway, ReceiveTypes
  <2> QED
    BY <2>1, <2>2
<1> QED
  BY <1>1, <1>2 DEF ReceiveTypes

(* One of several saves moves: none of the others is the only one.         *)
LEMMA SaveMoves ==
    ASSUME ReceiveInv, ReceiveTypes', NEW k \in Saves, k \in Underway,
           \A l \in Saves \ {k} : save'[l] = save[l],
           UNCHANGED <<adrift, rpage.stage, rpage.drop>>,
           cancel' = "null" \/ k \in Underway',
           PageInv => Listed' /\ DeliveredIsWhole' /\ AtWork(k)'
    PROVE  ReceiveInv'
<1>1. ASSUME PageInv, NEW l \in Saves \ {k} PROVE AtWork(l)'
  <2>1. SUFFICES ASSUME l \in Underway PROVE AtWork(l)'
    BY DEF AtWork, Underway
  <2>2. OnPage(l) /\ OnPage(l)'
    <3>1. ~Held(l)
      BY DEF Held
    <3> QED
      BY <1>1, <2>1, <3>1 DEF PageInv, AtWork, OnPage
  <2>3. ~Held(l)'
    BY PageAssumption DEF Held
  <2> QED
    BY <2>2, <2>3 DEF AtWork
<1>2. PageInv => PageInv'
  BY <1>1 DEF PageInv
<1> QED
  BY <1>2, UntilAdrift

LEMMA BeginKeeps ==
    ASSUME ReceiveInv, NEW k \in Saves, SaveOrShare(k) \/ SaveRemaining(k)
    PROVE  ReceiveInv'
<1>1. PICK kind \in {"one", "share", "all"}, todo \in SUBSET Files(rpage.drop) :
          /\ todo # {} /\ \E i \in todo : ~Arrived(rpage.states[i])
          /\ Begin(k, kind, todo)
  <2>1. CASE SaveOrShare(k)
    <3>1. PICK i \in Files(rpage.drop), kind \in {"one", "share"} :
              ~Arrived(rpage.states[i]) /\ Begin(k, kind, {i})
      BY <2>1 DEF SaveOrShare
    <3> QED
      BY <3>1
  <2>2. CASE SaveRemaining(k)
    BY <2>2 DEF SaveRemaining
  <2> QED
    BY <2>1, <2>2
<1>2. rpage.stage = "files" /\ rpage.drop \in Transfers
  BY DEF SaveOrShare, SaveRemaining, ReceiveInv, ReceiveTypes
<1> DEFINE x == [at |-> "waking", kind |-> kind, drop |-> rpage.drop, todo |-> todo,
                 aborted |-> FALSE]
<1>3. x \in SaveRecords
  <2>1. todo \in SUBSET Nat
    BY <1>1, <1>2, SomeFile
  <2> QED
    BY <1>2, <2>1 DEF SaveRecords
<1>4. /\ save' = [save EXCEPT ![k] = x] /\ cancel' = k
      /\ UNCHANGED <<svc, seen, rpage, ref, reports, got>>
      /\ adrift' = (adrift \/ \E l \in Underway : save[l].drop # rpage.drop)
  BY <1>1 DEF Begin
<1>5. /\ ReceiveTypes'
      /\ save'[k] = x /\ \A l \in Saves \ {k} : save'[l] = save[l]
  <2>1. /\ adrift' \in BOOLEAN /\ seen' \in [Transfers -> Said]
        /\ got' \in [Transfers -> SUBSET Nat] /\ \A t \in Transfers : got'[t] \subseteq Files(t)
        /\ x.drop \in Transfers /\ x.todo # {} /\ x.todo \subseteq Files(x.drop)
    BY <1>1, <1>2, <1>4 DEF ReceiveInv, ReceiveTypes
  <2>2. DOMAIN rpage' = DOMAIN rpage /\ UNCHANGED <<rpage.stage, rpage.opening, rpage.drop>>
    BY <1>4
  <2> HIDE DEF x
  <2> QED
    BY <1>3, <1>4, <2>1, <2>2, TypesMove DEF ReceiveInv
<1>6. ASSUME ~adrift, ~adrift', PageInv PROVE PageInv'
  <2>1. Listed' /\ DeliveredIsWhole'
    BY <1>4, <1>6 DEF PageInv, Listed, DeliveredIsWhole
  <2>2. AtWork(k)'
    <3>1. \E j \in DOMAIN ref' : ~Arrived(ref'[j])
      BY <1>1, <1>2, <1>4, <1>6 DEF PageInv, Listed
    <3> QED
      BY <1>2, <1>4, <1>5, <3>1 DEF AtWork, OnPage
  <2>3. ASSUME NEW l \in Saves \ {k} PROVE AtWork(l)'
    <3>1. SUFFICES ASSUME l \in Underway PROVE AtWork(l)'
      BY <1>5 DEF AtWork, Underway
    <3>2. OnPage(l)' /\ ~Held(l)'
      BY <1>2, <1>4, <1>5, <1>6, <3>1 DEF OnPage, Held
    <3> QED
      BY <3>2 DEF AtWork
  <2> QED
    BY <2>1, <2>2, <2>3 DEF PageInv
<1> QED
  BY <1>4, <1>5, <1>6, UntilAdrift

(* What updateFile leaves of the list. *)
LEMMA MarkKeeps ==
    ASSUME ReceiveTypes, NEW i, NEW state, Mark(i, state),
           UNCHANGED got, ~Arrived(state)
    PROVE  /\ Listed => Listed'
           /\ DOMAIN rpage' = DOMAIN rpage
           /\ UNCHANGED <<rpage.stage, rpage.opening, rpage.drop>>
           /\ DOMAIN ref' = DOMAIN ref
           /\ i \in DOMAIN ref => ref'[i] = state
           /\ \A j \in DOMAIN ref : Arrived(ref'[j]) => Arrived(ref[j])
BY DEF ReceiveTypes, Listed, Mark

(* The file a save is at. *)
LEMMA SaveHasFirst ==
    ASSUME ReceiveInv, NEW k \in Saves, k \in Underway
    PROVE  /\ save[k] \in SaveRecords
           /\ First(k) \in save[k].todo
           /\ First(k) \in Files(save[k].drop)
           /\ OnPage(k) /\ Listed => First(k) \in DOMAIN ref
<1>1. save[k] \in SaveRecords
  BY DEF ReceiveInv, ReceiveTypes
<1>2. save[k].todo \in SUBSET Nat /\ save[k].todo # {}
      /\ save[k].todo \subseteq Files(save[k].drop)
  BY <1>1 DEF ReceiveInv, ReceiveTypes, HasFiles, SaveRecords
<1>3. First(k) \in save[k].todo
  BY <1>2, FirstIsOne DEF First
<1> QED
  BY <1>1, <1>2, <1>3 DEF OnPage, Listed

(* A save goes on with the same files. *)
LEMMA SaveGoesOn ==
    ASSUME ReceiveInv, NEW k \in Saves, k \in Underway,
           NEW at \in {"waking", "asking", "writing"},
           save' = [save EXCEPT ![k].at = at],
           DOMAIN rpage' = DOMAIN rpage, UNCHANGED <<rpage.stage, rpage.opening, rpage.drop>>,
           seen' \in [Transfers -> Said], UNCHANGED <<cancel, got, adrift>>,
           PageInv => Listed' /\ DeliveredIsWhole',
           PageInv /\ OnPage(k) /\ Held(k) => ref'[First(k)] = "saving",
           DOMAIN ref' = DOMAIN ref,
           ASSUME PageInv, Held(k), Stopped(k)
           PROVE  /\ save[k].aborted /\ at \in {"waking", "asking"}
                  /\ \E j \in DOMAIN ref' : ~Arrived(ref'[j])
    PROVE  ReceiveInv'
<1> DEFINE x == [save[k] EXCEPT !.at = at]
<1>1. save' = [save EXCEPT ![k] = x]
  BY DEF ReceiveInv, ReceiveTypes
<1>2. /\ x \in SaveRecords /\ x.at = at /\ x.todo = save[k].todo
      /\ x.drop = save[k].drop /\ x.aborted = save[k].aborted
  BY DEF SaveRecords, ReceiveInv, ReceiveTypes
<1> HIDE DEF x
<1>3. /\ ReceiveTypes'
      /\ save'[k] = x /\ \A l \in Saves \ {k} : save'[l] = save[l]
  <2>1. x.drop \in Transfers /\ x.todo # {} /\ x.todo \subseteq Files(x.drop)
    BY <1>2 DEF ReceiveInv, ReceiveTypes, HasFiles
  <2>2. /\ got' \in [Transfers -> SUBSET Nat] /\ adrift' \in BOOLEAN
        /\ \A t \in Transfers : got'[t] \subseteq Files(t)
    BY DEF ReceiveInv, ReceiveTypes
  <2> QED
    BY <1>1, <1>2, <2>1, <2>2, TypesMove DEF ReceiveInv
<1>4. Underway' = Underway
  BY <1>2, <1>3 DEF Underway
<1>5. ASSUME PageInv PROVE AtWork(k)'
  <2>1. First(k)' = First(k) /\ (Held(k)' <=> Held(k)) /\ (OnPage(k)' <=> OnPage(k))
    BY <1>2, <1>3, <1>4 DEF First, Held, OnPage
  <2>2. CASE OnPage(k)
    <3>1. Held(k) => ref'[First(k)] = "saving" /\ First(k) \in DOMAIN ref'
      BY <1>5, <2>2, SaveHasFirst DEF PageInv
    <3> QED
      BY <2>1, <2>2, <3>1 DEF AtWork, Arrived
  <2>3. CASE ~OnPage(k)
    <3>1. Held(k) /\ Stopped(k)
      BY <1>5, <2>3 DEF PageInv, AtWork
    <3>2. Stopped(k)'
      BY <1>2, <1>3, <1>5, <3>1 DEF Stopped
    <3> QED
      BY <1>5, <2>1, <3>1, <3>2 DEF AtWork
  <2> QED
    BY <2>2, <2>3
<1> QED
  BY <1>3, <1>4, <1>5, SaveMoves

LEMMA WakeKeeps ==
    ASSUME ReceiveInv, NEW k \in Saves, Wake(k)
    PROVE  ReceiveInv'
<1>1. /\ k \in Underway /\ Mark(First(k), "saving")
      /\ save' = [save EXCEPT ![k].at = "asking"]
      /\ UNCHANGED <<svc, seen, cancel, reports, got, adrift>>
  BY DEF Wake, Underway
<1>2. /\ Listed => Listed'
      /\ DOMAIN rpage' = DOMAIN rpage
      /\ UNCHANGED <<rpage.stage, rpage.opening, rpage.drop>>
      /\ DOMAIN ref' = DOMAIN ref
      /\ First(k) \in DOMAIN ref => ref'[First(k)] = "saving"
      /\ \A j \in DOMAIN ref : Arrived(ref'[j]) => Arrived(ref[j])
  BY <1>1, MarkKeeps DEF ReceiveInv, Arrived
<1>3. PageInv => Listed' /\ DeliveredIsWhole'
  BY <1>1, <1>2 DEF PageInv, DeliveredIsWhole
<1>4. PageInv /\ OnPage(k) => ref'[First(k)] = "saving"
  BY <1>1, <1>2, SaveHasFirst DEF PageInv
<1>5. ASSUME PageInv, Held(k), Stopped(k)
      PROVE  save[k].aborted /\ \E j \in DOMAIN ref' : ~Arrived(ref'[j])
  BY <1>1, <1>2, <1>5 DEF PageInv, AtWork, Stopped
<1>6. seen' \in [Transfers -> Said]
  BY <1>1 DEF ReceiveInv, ReceiveTypes
<1> QED
  BY <1>1, <1>2, <1>3, <1>4, <1>5, <1>6, SaveGoesOn

LEMMA FetchKeeps ==
    ASSUME ReceiveInv, NEW k \in Saves, Fetch(k)
    PROVE  ReceiveInv'
<1>1. /\ k \in Underway /\ save[k].at = "asking" /\ ~save[k].aborted
      /\ save' = [save EXCEPT ![k].at = "writing"]
      /\ UNCHANGED <<svc, rpage, ref, cancel, reports, got, adrift>>
  BY DEF Fetch, Underway
<1>2. /\ seen' \in [Transfers -> Said]
      /\ \A u \in Transfers : seen'[u] = "delivered" => seen[u] = "delivered"
  <2>1. save[k].drop \in Transfers /\ Count(save[k].drop, "downloading")
    BY <1>1 DEF Fetch, ReceiveInv, ReceiveTypes, HasFiles
  <2> QED
    BY <2>1, CountKeeps DEF ReceiveInv, Said
<1>3. PageInv => Listed' /\ DeliveredIsWhole'
  BY <1>1, <1>2 DEF PageInv, Listed, DeliveredIsWhole
<1>4. PageInv /\ OnPage(k) /\ Held(k) => ref'[First(k)] = "saving"
  BY <1>1 DEF PageInv, AtWork, Stopped
<1>5. ~Stopped(k)
  BY <1>1 DEF Stopped
<1>6. DOMAIN rpage' = DOMAIN rpage /\ UNCHANGED <<rpage.stage, rpage.opening, rpage.drop>>
      /\ DOMAIN ref' = DOMAIN ref /\ UNCHANGED <<cancel, got, adrift>>
  BY <1>1
<1> QED
  BY <1>1, <1>2, <1>3, <1>4, <1>5, <1>6, SaveGoesOn

LEMMA ProgressKeeps ==
    ASSUME ReceiveInv, NEW k \in Saves, Progress(k)
    PROVE  ReceiveInv'
<1>1. /\ k \in Underway /\ save[k].at = "writing" /\ Mark(First(k), "saving")
      /\ save' = [save EXCEPT ![k].at = "writing"]
      /\ UNCHANGED <<svc, seen, cancel, reports, got, adrift>>
  <2>1. save[k] = [save[k] EXCEPT !.at = "writing"] /\ save = [save EXCEPT ![k] = save[k]]
    BY DEF Progress, ReceiveInv, ReceiveTypes, SaveRecords
  <2> QED
    BY <2>1 DEF Progress, Underway, ReceiveInv, ReceiveTypes
<1>2. /\ Listed => Listed'
      /\ DOMAIN rpage' = DOMAIN rpage
      /\ UNCHANGED <<rpage.stage, rpage.opening, rpage.drop>>
      /\ DOMAIN ref' = DOMAIN ref
      /\ First(k) \in DOMAIN ref => ref'[First(k)] = "saving"
  BY <1>1, MarkKeeps DEF ReceiveInv, Arrived
<1>3. PageInv => Listed' /\ DeliveredIsWhole'
  BY <1>1, <1>2 DEF PageInv, DeliveredIsWhole
<1>4. PageInv /\ OnPage(k) => ref'[First(k)] = "saving"
  BY <1>1, <1>2, SaveHasFirst DEF PageInv
<1>5. ~Stopped(k)
  BY <1>1 DEF Stopped
<1>6. seen' \in [Transfers -> Said]
  BY <1>1 DEF ReceiveInv, ReceiveTypes
<1> QED
  BY <1>1, <1>2, <1>3, <1>4, <1>5, <1>6, SaveGoesOn

(* A save is over, and the page holds none. *)
LEMMA SaveIsOver ==
    ASSUME ReceiveInv, NEW k \in Saves, k \in Underway,
           save' = [save EXCEPT ![k] = OverSave], cancel' = "null", UNCHANGED adrift,
           PageInv => Listed' /\ DeliveredIsWhole', DOMAIN rpage' = DOMAIN rpage,
           UNCHANGED <<seen, rpage.stage, rpage.opening, rpage.drop>>,
           got' \in [Transfers -> SUBSET Nat],
           \A t \in Transfers : got'[t] \subseteq Files(t)
    PROVE  ReceiveInv'
<1>1. OverSave \in SaveRecords /\ OverSave.at = "over"
  BY DEF OverSave, NoSave, SaveRecords
<1>2. seen' \in [Transfers -> Said] /\ adrift' \in BOOLEAN
  BY DEF ReceiveInv, ReceiveTypes
<1>3. /\ ReceiveTypes'
      /\ save'[k] = OverSave /\ \A l \in Saves \ {k} : save'[l] = save[l]
  BY <1>1, <1>2, TypesMove DEF ReceiveInv
<1>4. AtWork(k)'
  BY <1>1, <1>3 DEF AtWork, Underway
<1> QED
  BY <1>3, <1>4, SaveMoves

LEMMA DismissedKeeps ==
    ASSUME ReceiveInv, NEW k \in Saves, Dismissed(k)
    PROVE  ReceiveInv'
<1>1. /\ Listed => Listed'
      /\ DOMAIN rpage' = DOMAIN rpage
      /\ UNCHANGED <<rpage.stage, rpage.opening, rpage.drop, seen, got, reports, adrift>>
  BY MarkKeeps DEF ReceiveInv, Arrived, Dismissed
<1>2. PageInv => Listed' /\ DeliveredIsWhole'
  BY <1>1 DEF PageInv, DeliveredIsWhole
<1>3. k \in Underway /\ save' = [save EXCEPT ![k] = OverSave] /\ cancel' = "null"
  BY DEF Dismissed, Underway
<1>4. /\ got' \in [Transfers -> SUBSET Nat]
      /\ \A t \in Transfers : got'[t] \subseteq Files(t)
  BY <1>1 DEF ReceiveInv, ReceiveTypes
<1> QED
  BY <1>1, <1>2, <1>3, <1>4, SaveIsOver

(* The next file of a save, or its end; a file that came is the page's. *)
LEMMA ContinueKeeps ==
    ASSUME ReceiveInv, NEW k \in Saves, NEW ok \in BOOLEAN,
           Continue(k, ok), save[k].at \in {"asking", "writing"},
           UNCHANGED <<seen, adrift>>,
           IF ok THEN /\ save[k].at = "writing"
                      /\ got' = [got EXCEPT ![save[k].drop] = @ \cup {First(k)}]
                 ELSE UNCHANGED got
    PROVE  ReceiveInv'
<1> DEFINE s == save[k]
           first == First(k)
           rest == s.todo \ {first}
           more == rest # {} /\ (ok \/ ~s.aborted)
           state == CASE ok /\ s.kind = "share" -> "shared"
                      [] ok                     -> "saved"
                      [] OTHER                  -> "failed"
           marked == [j \in DOMAIN ref |-> IF j = first THEN state
                          ELSE IF more /\ j = Min(rest) THEN "saving" ELSE ref[j]]
<1>0. k \in Underway
  BY DEF Underway
<1>1. /\ ref' = marked /\ rpage' = [rpage EXCEPT !.states = marked]
      /\ more => /\ save' = [save EXCEPT ![k].at = "asking", ![k].todo = rest]
                 /\ UNCHANGED <<cancel, reports>>
      /\ ~more => /\ save' = [save EXCEPT ![k] = OverSave] /\ cancel' = "null"
                  /\ reports' = reports \/ (/\ reports' = reports \cup {s.drop}
                                            /\ s.kind = "all" \/ ok
                                            /\ AllArrived(marked))
  BY DEF Continue
<1>2. /\ s \in SaveRecords /\ first \in s.todo /\ first \in Files(s.drop)
      /\ s.drop \in Transfers /\ s.todo # {} /\ s.todo \subseteq Files(s.drop)
      /\ PageInv /\ OnPage(k) => first \in DOMAIN ref /\ DOMAIN ref = Files(s.drop)
  BY <1>0, SaveHasFirst DEF ReceiveInv, ReceiveTypes, HasFiles, PageInv, Listed, OnPage
<1>3. PageInv =>
          \/ OnPage(k)
          \/ s.aborted /\ ~ok /\ \E j \in DOMAIN ref : ~Arrived(ref[j])
  BY <1>0 DEF PageInv, AtWork, Stopped
<1>4. /\ ok => Arrived(state)
      /\ ~ok => state = "failed" /\ ~Arrived(state)
  BY DEF Arrived
<1>5. /\ DOMAIN marked = DOMAIN ref
      /\ \A j \in DOMAIN ref :
            Arrived(marked[j]) => Arrived(ref[j]) \/ (ok /\ j = first)
      /\ first \in DOMAIN ref => marked[first] = state
  BY <1>4 DEF Arrived
<1>6. /\ DOMAIN rpage' = DOMAIN rpage
      /\ UNCHANGED <<rpage.stage, rpage.opening, rpage.drop>>
      /\ rpage.stage = "files" => rpage'.states = marked
  BY <1>1 DEF ReceiveInv, ReceiveTypes
<1>7. /\ got' \in [Transfers -> SUBSET Nat]
      /\ \A t \in Transfers : /\ got[t] \subseteq got'[t]
                                       /\ got'[t] \subseteq Files(t)
      /\ ok => first \in got'[s.drop]
  <2>1. first \in Nat
    BY <1>2 DEF SaveRecords
  <2> QED
    BY <1>2, <2>1 DEF ReceiveInv, ReceiveTypes
<1>8. PageInv => Listed'
  <2>1. SUFFICES ASSUME PageInv, rpage.stage = "files"
                 PROVE  /\ ref' = rpage'.states /\ DOMAIN ref' = Files(rpage.drop)
                        /\ \A i \in Files(rpage.drop) : Arrived(ref'[i]) => i \in got'[rpage.drop]
    BY <1>6 DEF Listed
  <2>2. rpage.drop \in Transfers /\ DOMAIN ref = Files(rpage.drop)
        /\ \A i \in Files(rpage.drop) : Arrived(ref[i]) => i \in got[rpage.drop]
    BY <2>1 DEF PageInv, Listed, ReceiveInv, ReceiveTypes
  <2>3. ok => rpage.drop = s.drop
    BY <1>3, <2>1 DEF OnPage
  <2> QED
    BY <1>1, <1>5, <1>6, <1>7, <2>1, <2>2, <2>3
<1>9. CASE more
  <2> DEFINE x == [s EXCEPT !.at = "asking", !.todo = rest]
  <2>1. save' = [save EXCEPT ![k] = x]
    BY <1>1, <1>9 DEF ReceiveInv, ReceiveTypes
  <2>2. /\ x \in SaveRecords /\ x.at = "asking" /\ x.todo = rest
        /\ x.drop = s.drop /\ x.aborted = s.aborted
    BY <1>2 DEF SaveRecords
  <2>3. /\ ReceiveTypes'
        /\ save'[k] = x /\ \A l \in Saves \ {k} : save'[l] = save[l]
    <3>1. seen' \in [Transfers -> Said] /\ adrift' \in BOOLEAN
      BY DEF ReceiveInv, ReceiveTypes
    <3>2. x.drop \in Transfers /\ x.todo # {} /\ x.todo \subseteq Files(x.drop)
      BY <1>2, <1>9, <2>2
    <3> HIDE DEF x, s, rest, more, marked
    <3> QED
      BY <1>6, <1>7, <2>1, <2>2, <3>1, <3>2, TypesMove DEF ReceiveInv
  <2>4. k \in Underway'
    BY <2>2, <2>3 DEF Underway
  <2>5. Min(rest) \in rest /\ First(k)' = Min(rest)
    BY <1>2, <1>9, <2>2, <2>3, FirstIsOne DEF SaveRecords, First
  <2>6. ASSUME PageInv PROVE AtWork(k)' /\ DeliveredIsWhole'
    <3>1. OnPage(k) /\ OnPage(k)'
      BY <1>3, <1>6, <1>9, <2>2, <2>3, <2>6 DEF OnPage
    <3>2. Min(rest) \in DOMAIN ref' /\ ref'[Min(rest)] = "saving"
      BY <1>1, <1>2, <1>5, <1>9, <2>5, <2>6, <3>1
    <3>3. AtWork(k)'
      BY <2>5, <3>1, <3>2 DEF AtWork, Arrived
    <3>4. UNCHANGED <<seen, reports>> /\ \A u \in Transfers : got[u] = Files(u) => got'[u] = Files(u)
      BY <1>1, <1>7, <1>9
    <3> HIDE DEF s, marked, more, x
    <3> QED
      BY <2>6, <3>3, <3>4 DEF PageInv, DeliveredIsWhole
  <2> HIDE DEF x, s, rest, more, marked
  <2> QED
    BY <1>0, <1>6, <1>8, <2>3, <2>4, <2>6, SaveMoves
<1>10. CASE ~more
  <2>1. ASSUME PageInv PROVE DeliveredIsWhole'
    <3>1. AllArrived(marked) => ok /\ OnPage(k)
      BY <1>2, <1>3, <1>4, <1>5, <2>1 DEF AllArrived
    <3>2. AllArrived(marked) => got'[s.drop] = Files(s.drop)
      <4>1. SUFFICES ASSUME AllArrived(marked), NEW i \in Files(s.drop)
                     PROVE  i \in got'[s.drop]
        BY <1>2, <1>7
      <4>2. i \in DOMAIN marked /\ Arrived(marked[i])
        BY <1>2, <1>5, <2>1, <3>1, <4>1 DEF AllArrived
      <4>3. Listed' /\ rpage'.stage = "files" /\ rpage'.drop = s.drop
        BY <1>6, <1>8, <2>1, <3>1, <4>1 DEF OnPage
      <4> QED
        BY <1>1, <4>1, <4>2, <4>3 DEF Listed
    <3>3. \A t \in reports' : t \in reports \/ (t = s.drop /\ got'[t] = Files(t))
      BY <1>1, <1>10, <3>2
    <3>4. UNCHANGED <<seen, adrift>>
      OBVIOUS
    <3>5. \A u \in Transfers : got[u] = Files(u) => got'[u] = Files(u)
      BY <1>7
    <3> HIDE DEF s, marked, more
    <3> QED
      BY <2>1, <3>3, <3>4, <3>5 DEF PageInv, DeliveredIsWhole
  <2>2. save' = [save EXCEPT ![k] = OverSave] /\ cancel' = "null"
    BY <1>1, <1>10
  <2> HIDE DEF s, rest, more, marked
  <2> QED
    BY <1>0, <1>6, <1>7, <1>8, <2>1, <2>2, SaveIsOver
<1> QED
  BY <1>9, <1>10

LEMMA ReportKeeps ==
    ASSUME ReceiveInv, NEW t \in Transfers, Report(t)
    PROVE  ReceiveInv'
<1>1. /\ t \in reports /\ reports' \subseteq reports
      /\ UNCHANGED <<rpage, ref, cancel, save, got, adrift>>
  BY DEF Report
<1>2. /\ seen' \in [Transfers -> Said]
      /\ \A u \in Transfers : seen'[u] = seen[u] \/ u = t
  BY CountKeeps DEF Report, ReceiveInv, ReceiveTypes, Said
<1> QED
  BY <1>1, <1>2, TellingKeeps

LEMMA SenderKeeps ==
    ASSUME ReceiveInv, NEW t \in Transfers, SenderActs(t)
    PROVE  ReceiveInv'
<1>1. UNCHANGED <<seen, rpage, ref, cancel, save, reports, got, adrift>>
  BY DEF SenderActs, receiveOwn, Sends, Closes
<1> QED
  BY <1>1, TellingKeeps DEF ReceiveInv, ReceiveTypes

LEMMA InitReceives == ReceiveInit => ReceiveInv
<1> SUFFICES ASSUME ReceiveInit PROVE ReceiveInv
  OBVIOUS
<1>1. Underway = {}
  BY DEF ReceiveInit, NoSave, Underway
<1>2. ReceiveTypes /\ Listed
  BY <1>1 DEF ReceiveInit, ServiceInit, Arrival, NoSave,
              ReceiveTypes, HasFiles, Listed, SaveRecords, Said
<1>3. \A k \in Saves : AtWork(k)
  BY <1>1 DEF AtWork
<1>4. DeliveredIsWhole
  BY DEF ReceiveInit, ServiceInit, DeliveredIsWhole
<1> QED
  BY <1>2, <1>3, <1>4 DEF ReceiveInv, PageInv

LEMMA NextReceives ==
    ReceiveInv /\ [ReceiveNext]_receiveVars => ReceiveInv'
<1> SUFFICES ASSUME ReceiveInv, [ReceiveNext]_receiveVars
             PROVE  ReceiveInv'
  OBVIOUS
<1>1. ASSUME NEW t \in Transfers,
             Open(t) \/ Report(t) \/ SenderActs(t)
      PROVE  ReceiveInv'
  BY <1>1, OpenKeeps, ReportKeeps, SenderKeeps
<1>2. CASE Opened \/ CancelSave \/ ReceiveAnother
  BY <1>2, OpenedKeeps, CancelKeeps, AnotherKeeps
<1>3. ASSUME NEW k \in Saves, SaveOrShare(k) \/ SaveRemaining(k)
      PROVE  ReceiveInv'
  BY <1>3, BeginKeeps
<1>4. ASSUME NEW k \in Saves, Wake(k) \/ Fetch(k) \/ Progress(k) \/ Dismissed(k)
      PROVE  ReceiveInv'
  BY <1>4, WakeKeeps, FetchKeeps, ProgressKeeps, DismissedKeeps
<1>5. ASSUME NEW k \in Saves, Written(k) PROVE ReceiveInv'
  BY <1>5, ContinueKeeps DEF Written
<1>6. ASSUME NEW k \in Saves, SaveFails(k) PROVE ReceiveInv'
  BY <1>6, ContinueKeeps DEF SaveFails
<1>7. CASE UNCHANGED receiveVars
  BY <1>7, TellingKeeps DEF receiveVars, service, receiveOwn, ReceiveInv, ReceiveTypes
<1> QED
  BY <1>1, <1>2, <1>3, <1>4, <1>5, <1>6, <1>7 DEF ReceiveNext, ReceiveStep, SaveStep

(* The invariant of the receiver's page: until a save is adrift, each save *)
(* is at work on the files on the page or was told to stop, the states of  *)
(* the files are those of the transfer shown, and receipts are for         *)
(* transfers that have all arrived.  (runSave, updateFile, restart)        *)
THEOREM ReceivePageInvariant == ReceiveSpec => []ReceiveInv
BY InitReceives, NextReceives, PTL DEF ReceiveSpec

(* DeliveredIsWhole of ReceivePage: the service is only told that a        *)
(* transfer was delivered when the visitor has every file of it, whatever  *)
(* transfers, cancels and failures follow each other on the page and       *)
(* however many saves overlap, until one is adrift.  (reportIfComplete)    *)
THEOREM DeliveriesAreWhole == ReceiveSpec => []DeliveredIsWhole
<1>1. ReceiveInv => DeliveredIsWhole
  BY DEF ReceiveInv, PageInv, DeliveredIsWhole
<1> QED
  BY <1>1, ReceivePageInvariant, PTL

(* ShownFilesArrived of ReceivePage: a file shown as saved or shared is    *)
(* one the visitor has of the transfer on the page, with the same          *)
(* exception.  (updateFile, restart)                                       *)
THEOREM ShownFilesAreThere == ReceiveSpec => []ShownFilesArrived
<1>1. ReceiveInv => ShownFilesArrived
  BY DEF ReceiveInv, PageInv, Listed, ShownFilesArrived
<1> QED
  BY <1>1, ReceivePageInvariant, PTL

---------------------------------------------------------------------------
(* The two pages over one service *)

Lives == {"none", "collecting", "ready", "gone"}

Made == {t \in Transfers : svc[t] # "none"}

(* The sender's page only names transfers that were made, and one that is  *)
(* still to be made is not.                                                *)
MadeBefore(t, x) ==
    /\ x.at \in {"none", "creating"} => t \notin Made
    /\ x.at \in {"uploading", "sealing", "sealed"} => t \in Made
    /\ x.at = "revoking" => x.revokes \in Made

NamesMade ==
    /\ svc \in [Transfers -> Lives]
    /\ \A t \in Transfers : MadeBefore(t, send[t])
    /\ created \in Made \cup {0}
    /\ erasing \subseteq Made
    /\ spage.stage = "ready" => spage.result \in Made

(* The receiver's page and its saves are about transfers. *)
Aimed ==
    /\ seen \in [Transfers -> Said] /\ svc \in [Transfers -> Lives]
    /\ DOMAIN rpage = {"stage", "opening", "drop", "states"}
    /\ rpage.opening \in Transfers \cup {0}
    /\ rpage.stage = "files" => rpage.drop \in Transfers
    /\ save \in [Saves -> SaveRecords]
    /\ \A k \in Saves : k \in Underway => save[k].drop \in Transfers

(* What the service sees of a step of either page. *)
SenderSeen == UNCHANGED service \/ \E t \in Transfers : Sends(t) \/ Closes(t)
ReceiverSeen == UNCHANGED service \/ \E t \in Transfers : PicksUp(t)

(* The receiver counts nothing of a transfer that is not ready, and an     *)
(* event that comes behind a later one changes nothing.                    *)
LEMMA CountIsSeen ==
    ASSUME Aimed, NEW t \in Transfers, NEW event \in {"opened", "downloading", "delivered"},
           svc[t] = "ready", Count(t, event), UNCHANGED svc
    PROVE  ReceiverSeen /\ seen' \in [Transfers -> Said]
<1>1. event \in Said /\ seen' \in [Transfers -> Said]
  BY DEF Aimed, Count, Said
<1>2. CASE Rank[event] > Rank[seen[t]]
  BY <1>2, <1>1 DEF ReceiverSeen, PicksUp
<1>3. CASE ~(Rank[event] > Rank[seen[t]])
  BY <1>3, <1>1 DEF ReceiverSeen, Aimed, Count, service
<1> QED
  BY <1>1, <1>2, <1>3

LEMMA InitAims == ReceiveInit => Aimed
BY DEF ReceiveInit, ServiceInit, Arrival, NoSave, Aimed, Underway, SaveRecords, Said, Lives

(* A save that only changes its place, its list or its signal. *)
LEMMA SaveStaysAimed ==
    ASSUME Aimed, NEW k \in Saves, NEW x \in SaveRecords,
           x.at \in {"none", "over"} \/ x.drop \in Transfers, save' = [save EXCEPT ![k] = x],
           UNCHANGED svc, seen' \in [Transfers -> Said],
           DOMAIN rpage' = DOMAIN rpage, UNCHANGED <<rpage.stage, rpage.opening, rpage.drop>>
    PROVE  Aimed'
BY DEF Aimed, Underway

LEMMA MarkAims ==
    ASSUME Aimed, NEW states, rpage' = [rpage EXCEPT !.states = states]
    PROVE  /\ DOMAIN rpage' = DOMAIN rpage
           /\ UNCHANGED <<rpage.stage, rpage.opening, rpage.drop>>
BY DEF Aimed

LEMMA BeginAims ==
    ASSUME Aimed, NEW k \in Saves, SaveOrShare(k) \/ SaveRemaining(k)
    PROVE  Aimed' /\ ReceiverSeen
<1>1. PICK kind \in {"one", "share", "all"}, todo \in SUBSET Files(rpage.drop) :
          Begin(k, kind, todo)
  <2>1. CASE SaveOrShare(k)
    <3>1. PICK i \in Files(rpage.drop), kind \in {"one", "share"} : Begin(k, kind, {i})
      BY <2>1 DEF SaveOrShare
    <3> QED
      BY <3>1
  <2>2. CASE SaveRemaining(k)
    BY <2>2 DEF SaveRemaining
  <2> QED
    BY <2>1, <2>2
<1>2. rpage.drop \in Transfers
  BY DEF SaveOrShare, SaveRemaining, Aimed
<1> DEFINE x == [at |-> "waking", kind |-> kind, drop |-> rpage.drop, todo |-> todo,
                 aborted |-> FALSE]
<1>3. x \in SaveRecords
  <2>1. todo \in SUBSET Nat
    BY <1>1, <1>2, SomeFile
  <2> QED
    BY <1>2, <2>1 DEF SaveRecords
<1>4. save' = [save EXCEPT ![k] = x] /\ UNCHANGED <<svc, seen, rpage>>
  BY <1>1 DEF Begin
<1>5. x.drop \in Transfers
  BY <1>2
<1> HIDE DEF x
<1> QED
  BY <1>3, <1>4, <1>5, SaveStaysAimed DEF Aimed, ReceiverSeen, service

LEMMA AbortAims ==
    ASSUME Aimed, save' = AbortedSave, UNCHANGED service,
           rpage' = rpage \/ rpage' = Arrival
    PROVE  Aimed' /\ ReceiverSeen
<1>1. /\ save' \in [Saves -> SaveRecords]
      /\ \A k \in Saves : save'[k].at = save[k].at /\ save'[k].drop = save[k].drop
  <2>1. ASSUME NEW x \in SaveRecords
        PROVE  /\ [x EXCEPT !.aborted = TRUE] \in SaveRecords
               /\ [x EXCEPT !.aborted = TRUE].at = x.at
               /\ [x EXCEPT !.aborted = TRUE].drop = x.drop
    BY DEF SaveRecords
  <2>2. CASE save' = save
    BY <2>2 DEF Aimed
  <2>3. CASE save' # save
    <3> DEFINE y == [save[cancel] EXCEPT !.aborted = TRUE]
    <3>1. cancel \in Saves /\ save' = [save EXCEPT ![cancel] = y]
      BY <2>3 DEF AbortedSave, Aimed
    <3>2. y \in SaveRecords /\ y.at = save[cancel].at /\ y.drop = save[cancel].drop
      BY <2>1, <3>1 DEF Aimed
    <3> HIDE DEF y
    <3> QED
      BY <3>1, <3>2 DEF Aimed
  <2> QED
    BY <2>2, <2>3
<1>2. /\ DOMAIN rpage' = {"stage", "opening", "drop", "states"}
      /\ rpage'.opening \in Transfers \cup {0}
      /\ rpage'.stage = "files" => rpage'.drop \in Transfers
  BY DEF Aimed, Arrival
<1> QED
  BY <1>1, <1>2 DEF Aimed, Underway, ReceiverSeen, service

LEMMA OpenedAims ==
    ASSUME Aimed, Opened
    PROVE  Aimed' /\ ReceiverSeen
<1> DEFINE t == rpage.opening
<1>1. t \in Transfers /\ UNCHANGED <<svc, save>>
  BY DEF Aimed, Opened
<1>2. ReceiverSeen /\ seen' \in [Transfers -> Said]
  <2>1. CASE svc[t] = "ready" /\ Count(t, "opened")
    BY <1>1, <2>1, CountIsSeen
  <2>2. CASE UNCHANGED seen
    BY <1>1, <2>2 DEF ReceiverSeen, service, Aimed
  <2> QED
    BY <2>1, <2>2 DEF Opened
<1>3. /\ DOMAIN rpage' = DOMAIN rpage
      /\ rpage'.opening \in {t, 0}
      /\ rpage'.stage = "files" => rpage'.drop \in Transfers
  <2>1. \/ rpage' = [rpage EXCEPT !.stage = "pending"]
        \/ rpage' = [rpage EXCEPT !.stage = "files", !.opening = 0, !.drop = t,
                                  !.states = Waiting(t)]
        \/ rpage' = [rpage EXCEPT !.stage = "error", !.opening = 0]
    BY DEF Opened
  <2> QED
    BY <1>1, <2>1 DEF Aimed
<1> QED
  BY <1>1, <1>2, <1>3 DEF Aimed, Underway

LEMMA SaveStepAims ==
    ASSUME Aimed, NEW k \in Saves,
           Wake(k) \/ Fetch(k) \/ Progress(k) \/ Written(k) \/ SaveFails(k) \/ Dismissed(k)
    PROVE  Aimed' /\ ReceiverSeen
<1>1. save[k] \in SaveRecords /\ save[k].drop \in Transfers
  BY DEF Aimed, Underway, Wake, Fetch, Progress, Written, SaveFails, Dismissed
<1>2. UNCHANGED svc /\ ReceiverSeen /\ seen' \in [Transfers -> Said]
  <2>1. CASE Fetch(k)
    BY <1>1, <2>1, CountIsSeen DEF Fetch
  <2>2. CASE ~Fetch(k)
    BY <2>2 DEF Wake, Progress, Written, SaveFails, Dismissed, ReceiverSeen, service, Aimed
  <2> QED
    BY <2>1, <2>2 DEF Fetch
<1>3. /\ DOMAIN rpage' = DOMAIN rpage
      /\ UNCHANGED <<rpage.stage, rpage.opening, rpage.drop>>
  <2>1. rpage' = rpage \/ \E states : rpage' = [rpage EXCEPT !.states = states]
    BY DEF Wake, Fetch, Progress, Written, SaveFails, Dismissed, Mark, Continue
  <2> QED
    BY <2>1, MarkAims
<1>4. \E x \in SaveRecords :
          (x.at \in {"none", "over"} \/ x.drop \in Transfers) /\ save' = [save EXCEPT ![k] = x]
  <2>1. CASE save' = [save EXCEPT ![k] = OverSave]
    <3>1. OverSave \in SaveRecords /\ OverSave.at = "over"
      BY DEF OverSave, NoSave, SaveRecords
    <3> QED
      BY <2>1, <3>1
  <2>2. ASSUME NEW at \in {"asking", "writing"}, NEW todo \in SUBSET Nat,
               save' = [save EXCEPT ![k].at = at, ![k].todo = todo]
        PROVE  <1>4
    <3> DEFINE x == [save[k] EXCEPT !.at = at, !.todo = todo]
    <3>1. x \in SaveRecords /\ x.drop = save[k].drop
      BY <1>1 DEF SaveRecords
    <3>2. save' = [save EXCEPT ![k] = x]
      BY <2>2 DEF Aimed
    <3> QED
      BY <1>1, <3>1, <3>2
  <2>3. ASSUME NEW at \in {"asking", "writing"}, save' = [save EXCEPT ![k].at = at]
        PROVE  <1>4
    <3> DEFINE x == [save[k] EXCEPT !.at = at]
    <3>1. x \in SaveRecords /\ x.drop = save[k].drop
      BY <1>1 DEF SaveRecords
    <3>2. save' = [save EXCEPT ![k] = x]
      BY <2>3 DEF Aimed
    <3> QED
      BY <1>1, <3>1, <3>2
  <2>4. CASE Wake(k) \/ Fetch(k) \/ Progress(k)
    <3>1. save = [save EXCEPT ![k] = save[k]]
      BY DEF Aimed
    <3> QED
      BY <1>1, <2>3, <2>4, <3>1 DEF Wake, Fetch, Progress
  <2>5. CASE Dismissed(k)
    BY <2>1, <2>5 DEF Dismissed
  <2>6. ASSUME NEW ok \in BOOLEAN, Continue(k, ok) PROVE <1>4
    <3>1. save[k].todo \ {First(k)} \in SUBSET Nat
      BY <1>1 DEF SaveRecords
    <3> QED
      BY <2>1, <2>2, <2>6, <3>1 DEF Continue
  <2> QED
    BY <2>4, <2>5, <2>6 DEF Written, SaveFails
<1> QED
  BY <1>2, <1>3, <1>4, SaveStaysAimed

(* A step of the receiver's page is one that the sender's page knows. *)
LEMMA ReceiverStepAims ==
    ASSUME Aimed, ReceiveStep
    PROVE  Aimed' /\ ReceiverSeen
<1>1. ASSUME NEW t \in Transfers, Open(t) PROVE Aimed' /\ ReceiverSeen
  <2>1. /\ rpage' = [rpage EXCEPT !.stage = "checking", !.opening = t]
        /\ UNCHANGED <<svc, seen, save>>
    BY <1>1 DEF Open
  <2>2. /\ DOMAIN rpage' = DOMAIN rpage
        /\ rpage'.opening = t /\ rpage'.stage = "checking"
    BY <2>1 DEF Aimed
  <2> QED
    BY <2>1, <2>2 DEF Aimed, Underway, ReceiverSeen, service
<1>2. ASSUME NEW t \in Transfers, Report(t) PROVE Aimed' /\ ReceiverSeen
  <2>1. UNCHANGED <<svc, rpage, save>>
    BY <1>2 DEF Report
  <2>2. ReceiverSeen /\ seen' \in [Transfers -> Said]
    <3>1. CASE svc[t] = "ready" /\ Count(t, "delivered")
      BY <2>1, <3>1, CountIsSeen
    <3>2. CASE UNCHANGED seen
      BY <2>1, <3>2 DEF ReceiverSeen, service, Aimed
    <3> QED
      BY <1>2, <3>1, <3>2 DEF Report
  <2> QED
    BY <2>1, <2>2 DEF Aimed, Underway
<1>3. CASE CancelSave \/ ReceiveAnother
  BY <1>3, AbortAims DEF CancelSave, ReceiveAnother, service
<1> QED
  BY <1>1, <1>2, <1>3, OpenedAims, BeginAims, SaveStepAims DEF ReceiveStep, SaveStep

LEMMA InitNames == SendInit => NamesMade
BY DEF SendInit, ServiceInit, Idle, FreshPage, NamesMade, MadeBefore, Made, Lives

(* A send goes on and nothing else is made. *)
LEMMA SendNames ==
    ASSUME SendInv, NamesMade, NEW t \in Transfers, NEW x, MadeBefore(t, x),
           send' = [send EXCEPT ![t] = x], svc' \in [Transfers -> Lives], Made' = Made,
           created' \in Made \cup {0}, erasing' \subseteq Made,
           spage'.stage = "ready" => spage'.result \in Made
    PROVE  NamesMade'
<1>1. \A u \in Transfers : send'[u] = send[u] \/ (u = t /\ send'[u] = x)
  BY DEF SendInv, SendTypes
<1> QED
  BY <1>1 DEF NamesMade, MadeBefore

(* Every send stays where it is. *)
LEMMA PageNames ==
    ASSUME SendInv, NamesMade, svc' \in [Transfers -> Lives], Made' = Made,
           \A t \in Transfers : send'[t].at = send[t].at /\ send'[t].revokes = send[t].revokes,
           created' \in Made \cup {0}, erasing' \subseteq Made,
           spage'.stage = "ready" => spage'.result \in Made
    PROVE  NamesMade'
BY DEF NamesMade, MadeBefore

LEMMA ServiceStays ==
    ASSUME NamesMade, UNCHANGED service
    PROVE  svc' \in [Transfers -> Lives] /\ Made' = Made /\ SenderSeen
BY DEF NamesMade, Made, SenderSeen, service

(* A transfer is deleted, or the request is lost. *)
LEMMA DeleteIsSeen ==
    ASSUME NamesMade, NEW t \in Made, Delete(t), UNCHANGED seen
    PROVE  svc' \in [Transfers -> Lives] /\ Made' = Made /\ SenderSeen
<1>1. t \in Transfers /\ svc[t] \in {"collecting", "ready", "gone"}
  BY DEF NamesMade, Made, Lives
<1>2. CASE UNCHANGED svc
  BY <1>2, ServiceStays DEF service
<1>3. CASE svc' = [svc EXCEPT ![t] = "gone"]
  <2>1. svc' \in [Transfers -> Lives] /\ Made' = Made
    BY <1>1, <1>3 DEF NamesMade, Made, Lives
  <2>2. CASE svc[t] = "gone"
    <3>1. UNCHANGED service
      BY <1>3, <2>2 DEF NamesMade, service
    <3> QED
      BY <3>1, ServiceStays
  <2>3. CASE svc[t] # "gone"
    BY <1>1, <1>3, <2>1, <2>3 DEF SenderSeen, Closes
  <2> QED
    BY <2>2, <2>3
<1> QED
  BY <1>2, <1>3 DEF Delete

LEMMA FailNames ==
    ASSUME SendInv, NamesMade, NEW t \in Transfers, Fail(t),
           UNCHANGED <<svc, seen, created, erasing>>
    PROVE  NamesMade' /\ SenderSeen
<1>1. svc' \in [Transfers -> Lives] /\ Made' = Made /\ SenderSeen
  BY ServiceStays DEF service
<1>2. send[t] \in SendRecords /\ spage \in SendPages
  BY DEF SendInv, SendTypes
<1>3. CASE created = 0
  <2> DEFINE x == [send[t] EXCEPT !.at = "over"]
  <2>1. send' = [send EXCEPT ![t] = x]
    BY <1>3 DEF Fail, Over, SendInv, SendTypes
  <2>2. x.at = "over"
    BY <1>2 DEF SendRecords
  <2>3. spage'.stage = "error"
    <3>1. spage' = [spage EXCEPT !.stage = "error"]
      BY <1>3, ShowKeeps DEF Fail
    <3> QED
      BY <1>2, <3>1 DEF SendPages
  <2>4. MadeBefore(t, x)
    BY <2>2 DEF MadeBefore
  <2> HIDE DEF x
  <2> QED
    BY <1>1, <2>1, <2>3, <2>4, SendNames DEF NamesMade
<1>4. CASE created # 0
  <2> DEFINE x == [send[t] EXCEPT !.at = "revoking", !.revokes = created]
  <2>1. send' = [send EXCEPT ![t] = x] /\ UNCHANGED spage
    BY <1>4 DEF Fail, SendInv, SendTypes
  <2>2. x.at = "revoking" /\ x.revokes = created
    BY <1>2 DEF SendRecords
  <2>3. MadeBefore(t, x)
    BY <1>4, <2>2 DEF MadeBefore, NamesMade
  <2> HIDE DEF x
  <2> QED
    BY <1>1, <2>1, <2>3, SendNames DEF NamesMade
<1> QED
  BY <1>3, <1>4

LEMMA StartNames ==
    ASSUME SendInv, NamesMade, NEW t \in Transfers, Start(t)
    PROVE  NamesMade' /\ SenderSeen
<1> DEFINE x == [send[t] EXCEPT !.at = "creating"]
<1>1. send[t] \in SendRecords /\ spage \in SendPages
  BY DEF SendInv, SendTypes
<1>2. send' = [send EXCEPT ![t] = x]
  BY DEF Start, SendInv, SendTypes
<1>3. x.at = "creating" /\ t \notin Made
  BY <1>1 DEF Start, Idle, SendRecords, NamesMade, MadeBefore
<1>4. MadeBefore(t, x)
  BY <1>3 DEF MadeBefore
<1>5. spage'.stage = "sending"
  <2>1. spage' = [spage EXCEPT !.stage = "sending", !.sealed = FALSE, !.receiver = "waiting"]
    BY ShowKeeps DEF Start
  <2> QED
    BY <1>1, <2>1 DEF SendPages
<1>6. svc' \in [Transfers -> Lives] /\ Made' = Made /\ SenderSeen
  BY ServiceStays DEF service, Start
<1> HIDE DEF x
<1> QED
  BY <1>2, <1>4, <1>5, <1>6, SendNames DEF NamesMade, Start

LEMMA CreatedNames ==
    ASSUME SendInv, NamesMade, NEW t \in Transfers, Created(t)
    PROVE  NamesMade' /\ SenderSeen
<1>1. CASE Fail(t) /\ UNCHANGED <<svc, created>>
  BY <1>1, FailNames DEF Created
<1>2. CASE /\ svc' = [svc EXCEPT ![t] = "collecting"]
           /\ send' = [send EXCEPT ![t].at = "uploading",
                                   ![t].late = spage.stage # "sending"]
           /\ created' = t
           /\ Show([spage EXCEPT !.stage = "ready", !.result = t])
  <2> DEFINE x == [send[t] EXCEPT !.at = "uploading", !.late = spage.stage # "sending"]
  <2>1. send[t] \in SendRecords /\ spage \in SendPages
    BY DEF SendInv, SendTypes
  <2>2. x.at = "uploading"
    BY <2>1 DEF SendRecords
  <2>3. \A u \in Transfers : send'[u] = send[u] \/ (u = t /\ send'[u] = x)
    BY <1>2 DEF SendInv, SendTypes
  <2>4. send'[t] = x
    BY <1>2 DEF SendInv, SendTypes
  <2>5. t \notin Made
    BY DEF NamesMade, MadeBefore, Created
  <2>6. svc' \in [Transfers -> Lives] /\ Made' = Made \cup {t}
    BY <1>2 DEF NamesMade, Made, Lives
  <2>7. spage'.result = t
    <3>1. spage' = [spage EXCEPT !.stage = "ready", !.result = t]
      BY <1>2, ShowKeeps
    <3> QED
      BY <2>1, <3>1 DEF SendPages
  <2>8. SenderSeen
    BY <1>2, <2>5 DEF SenderSeen, Sends, Made, NamesMade, Created
  <2>9. ASSUME NEW u \in Transfers, u # t PROVE MadeBefore(u, send[u])'
    <3>1. send'[u] = send[u] /\ MadeBefore(u, send[u])
      BY <2>3, <2>9 DEF NamesMade
    <3> QED
      BY <2>6, <2>9, <3>1 DEF MadeBefore
  <2>10. MadeBefore(t, send[t])'
    BY <2>2, <2>4, <2>6 DEF MadeBefore
  <2> HIDE DEF x
  <2> QED
    <3>1. \A u \in Transfers : MadeBefore(u, send[u])'
      BY <2>9, <2>10
    <3>2. created' \in Made' \cup {0} /\ erasing' \subseteq Made'
      BY <1>2, <2>6 DEF NamesMade, Created
    <3> QED
      BY <2>6, <2>7, <2>8, <3>1, <3>2 DEF NamesMade
<1> QED
  BY <1>1, <1>2 DEF Created

LEMMA UploadNames ==
    ASSUME SendInv, NamesMade, NEW t \in Transfers, Upload(t)
    PROVE  NamesMade' /\ SenderSeen
<1>1. CASE Fail(t)
  BY <1>1, FailNames DEF Upload
<1>2. CASE ~Fail(t)
  <2> DEFINE x == [send[t] EXCEPT !.at = "sealing"]
  <2>1. send' = [send EXCEPT ![t] = x] /\ UNCHANGED spage
    BY <1>2 DEF Upload, SendInv, SendTypes
  <2>2. x.at = "sealing"
    BY DEF SendInv, SendTypes, SendRecords
  <2>3. MadeBefore(t, x)
    BY <2>2 DEF MadeBefore, NamesMade, Upload
  <2>4. svc' \in [Transfers -> Lives] /\ Made' = Made /\ SenderSeen
    BY ServiceStays DEF service, Upload
  <2> HIDE DEF x
  <2> QED
    BY <2>1, <2>3, <2>4, SendNames DEF NamesMade, Upload
<1> QED
  BY <1>1, <1>2

LEMMA SealNames ==
    ASSUME SendInv, NamesMade, NEW t \in Transfers, ServeSeal(t)
    PROVE  NamesMade' /\ SenderSeen
<1> DEFINE x == [send[t] EXCEPT !.at = "sealed"]
<1>1. send' = [send EXCEPT ![t] = x] /\ UNCHANGED <<spage, created, erasing>>
  BY DEF ServeSeal, SendInv, SendTypes
<1>2. x.at = "sealed"
  BY DEF SendInv, SendTypes, SendRecords
<1>3. t \in Made /\ svc[t] \in {"collecting", "ready"}
  BY DEF ServeSeal, NamesMade, MadeBefore, Made, Lives
<1>4. MadeBefore(t, x)
  BY <1>2, <1>3 DEF MadeBefore
<1>5. svc' \in [Transfers -> Lives] /\ Made' = Made
  BY <1>3 DEF ServeSeal, NamesMade, Made, Lives
<1>6. SenderSeen
  <2>1. CASE svc[t] = "collecting"
    BY <2>1 DEF SenderSeen, Sends, ServeSeal
  <2>2. CASE svc[t] = "ready"
    BY <2>2 DEF SenderSeen, service, ServeSeal, NamesMade
  <2> QED
    BY <1>3, <2>1, <2>2
<1> HIDE DEF x
<1> QED
  BY <1>1, <1>4, <1>5, <1>6, SendNames DEF NamesMade

LEMMA SealLostNames ==
    ASSUME SendInv, NamesMade, NEW t \in Transfers, SealLost(t)
    PROVE  NamesMade' /\ SenderSeen
<1>1. CASE Fail(t)
  BY <1>1, FailNames DEF SealLost
<1>2. CASE ~Fail(t)
  <2> DEFINE x == [send[t] EXCEPT !.at = "sealing", !.tries = send[t].tries + 1]
  <2>1. send' = [send EXCEPT ![t] = x] /\ UNCHANGED spage
    BY <1>2 DEF SealLost, SendInv, SendTypes
  <2>2. x.at = "sealing"
    BY DEF SendInv, SendTypes, SendRecords
  <2>3. MadeBefore(t, x)
    BY <2>2 DEF MadeBefore, NamesMade, SealLost
  <2>4. svc' \in [Transfers -> Lives] /\ Made' = Made /\ SenderSeen
    BY ServiceStays DEF service, SealLost
  <2> HIDE DEF x
  <2> QED
    BY <2>1, <2>3, <2>4, SendNames DEF NamesMade, SealLost
<1> QED
  BY <1>1, <1>2

LEMMA SentNames ==
    ASSUME SendInv, NamesMade, NEW t \in Transfers, Sent(t) \/ Revoked(t)
    PROVE  NamesMade' /\ SenderSeen
<1> DEFINE x == [send[t] EXCEPT !.at = "over"]
<1>1. send[t] \in SendRecords /\ spage \in SendPages
  BY DEF SendInv, SendTypes
<1>2. send' = [send EXCEPT ![t] = x] /\ created' = 0 /\ UNCHANGED erasing
  BY DEF Sent, Revoked, Over, SendInv, SendTypes
<1>3. x.at = "over"
  BY <1>1 DEF SendRecords
<1>4. MadeBefore(t, x)
  BY <1>3 DEF MadeBefore
<1>5. spage'.stage = "ready" => spage'.result \in Made
  <2>1. \/ spage' = [spage EXCEPT !.sealed = TRUE]
        \/ spage' = [spage EXCEPT !.stage = "error"]
    BY ShowKeeps DEF Sent, Revoked
  <2> QED
    BY <1>1, <2>1 DEF SendPages, NamesMade
<1>6. svc' \in [Transfers -> Lives] /\ Made' = Made /\ SenderSeen
  <2>1. CASE Sent(t)
    BY <2>1, ServiceStays DEF service, Sent
  <2>2. CASE Revoked(t)
    <3>1. send[t].revokes \in Made
      BY <2>2 DEF Revoked, NamesMade, MadeBefore
    <3> QED
      BY <2>2, <3>1, DeleteIsSeen DEF Revoked
  <2> QED
    BY <2>1, <2>2
<1> HIDE DEF x
<1> QED
  BY <1>2, <1>4, <1>5, <1>6, SendNames DEF NamesMade

LEMMA ErasedNames ==
    ASSUME SendInv, NamesMade, NEW t \in Transfers, Erased(t)
    PROVE  NamesMade' /\ SenderSeen
<1>1. t \in Made /\ UNCHANGED <<send, created, seen>> /\ erasing' \subseteq Made
  BY DEF Erased, NamesMade
<1>2. svc' \in [Transfers -> Lives] /\ Made' = Made /\ SenderSeen
  BY <1>1, DeleteIsSeen DEF Erased
<1>3. spage'.stage = "ready" => spage'.result \in Made
  <2>1. spage' = [spage EXCEPT !.deleted = TRUE] /\ spage \in SendPages
    BY ShowKeeps DEF Erased, SendInv, SendTypes
  <2> QED
    BY <2>1 DEF SendPages, NamesMade
<1> QED
  BY <1>1, <1>2, <1>3, PageNames DEF NamesMade

LEMMA PageStepNames ==
    ASSUME SendInv, NamesMade, Stop \/ Erase \/ Restart \/ PollStatus \/ PollAnswered
    PROVE  NamesMade' /\ SenderSeen
<1>1. svc' \in [Transfers -> Lives] /\ Made' = Made /\ SenderSeen
  BY ServiceStays DEF service, Stop, Erase, Restart, PollStatus, PollAnswered
<1>2. created' \in Made \cup {0} /\ erasing' \subseteq Made
  BY DEF Stop, Erase, Restart, PollStatus, PollAnswered, NamesMade
<1>3. \A t \in Transfers : send'[t].at = send[t].at /\ send'[t].revokes = send[t].revokes
  <2>1. CASE UNCHANGED send
    BY <2>1
  <2>2. CASE send' = Aborted(send)
    BY <2>2 DEF Aborted, SendInv, SendTypes, SendRecords
  <2> QED
    BY <2>1, <2>2 DEF Stop, Erase, Restart, PollStatus, PollAnswered
<1>4. spage'.stage = "ready" => spage'.result \in Made
  <2>1. CASE UNCHANGED spage
    BY <2>1 DEF NamesMade
  <2>2. CASE Restart
    BY <2>2, ShowKeeps DEF Restart, FreshPage
  <2>3. CASE PollAnswered
    <3>1. PICK said \in polls : spage' = [spage EXCEPT !.receiver = said]
      BY <2>3, ShowKeeps DEF PollAnswered
    <3> QED
      BY <3>1 DEF SendInv, SendTypes, SendPages, NamesMade
  <2> QED
    BY <2>1, <2>2, <2>3 DEF Stop, Erase, PollStatus
<1> QED
  BY <1>1, <1>2, <1>3, <1>4, PageNames

(* A step of the sender's page is one that the receiver's page knows. *)
LEMMA SenderStepNames ==
    ASSUME SendInv, NamesMade, SendStep
    PROVE  NamesMade' /\ SenderSeen
<1>1. ASSUME NEW t \in Transfers, SealRefused(t) PROVE NamesMade' /\ SenderSeen
  BY <1>1, FailNames DEF SealRefused
<1> QED
  BY <1>1, StartNames, CreatedNames, UploadNames, SealNames, SealLostNames, SentNames,
     ErasedNames, PageStepNames DEF SendStep, Steps

LEMMA NextNames == SendInv /\ NamesMade /\ [SendNext]_sendVars => NamesMade'
<1> SUFFICES ASSUME SendInv, NamesMade, [SendNext]_sendVars PROVE NamesMade'
  OBVIOUS
<1>1. ASSUME NEW t \in Transfers, ReceiverActs(t) PROVE NamesMade'
  <2>1. UNCHANGED <<send, spage, created, erasing>>
    BY <1>1 DEF ReceiverActs, sendOwn
  <2>2. svc' \in [Transfers -> Lives] /\ Made' = Made
    BY <1>1 DEF ReceiverActs, Closes, PicksUp, NamesMade, Made, Lives
  <2> QED
    BY <2>1, <2>2, PageNames DEF NamesMade
<1>2. CASE UNCHANGED sendVars
  <2>1. UNCHANGED <<svc, send, spage, created, erasing>>
    BY <1>2 DEF sendVars, service, sendOwn
  <2>2. svc' \in [Transfers -> Lives] /\ Made' = Made
    BY <2>1 DEF NamesMade, Made
  <2> QED
    BY <2>1, <2>2, PageNames DEF NamesMade
<1> QED
  BY <1>1, <1>2, SenderStepNames DEF SendNext

PagesInv == SendInv /\ NamesMade /\ Aimed

LEMMA InitComposes == PagesInit => PagesInv
BY InitSends, InitNames, InitAims DEF PagesInit, PagesInv

(* A step of the composition is a step of the sender's page, of the        *)
(* receiver's page and of the service, or changes nothing of it.           *)
LEMMA StepComposes ==
    PagesInv /\ [PagesNext]_pagesVars =>
        PagesInv' /\ [SendNext]_sendVars /\ [ReceiveNext]_receiveVars /\ [ServiceNext]_service
<1> SUFFICES ASSUME PagesInv, [PagesNext]_pagesVars
             PROVE  /\ PagesInv' /\ [SendNext]_sendVars
                    /\ [ReceiveNext]_receiveVars /\ [ServiceNext]_service
  OBVIOUS
<1>1. CASE SenderMoves
  <2>1. SendNext /\ SenderSeen /\ NamesMade' /\ UNCHANGED receiveOwn
    BY <1>1, SenderStepNames DEF SenderMoves, SendNext, PagesInv
  <2>2. SendInv'
    BY <2>1, NextSends DEF PagesInv
  <2>3. Aimed'
    <3>1. UNCHANGED seen /\ svc' \in [Transfers -> Lives]
      BY <2>1 DEF SenderSeen, Sends, Closes, service, NamesMade
    <3> QED
      BY <2>1, <3>1 DEF PagesInv, Aimed, Underway, receiveOwn
  <2>4. [ReceiveNext]_receiveVars
    BY <2>1 DEF SenderSeen, ReceiveNext, SenderActs, receiveVars
  <2>5. [ServiceNext]_service
    BY <2>1 DEF SenderSeen, ServiceNext
  <2> QED
    BY <2>1, <2>2, <2>3, <2>4, <2>5 DEF PagesInv
<1>2. CASE ReceiverMoves
  <2>1. ReceiveNext /\ ReceiverSeen /\ Aimed' /\ UNCHANGED sendOwn
    BY <1>2, ReceiverStepAims DEF ReceiverMoves, ReceiveNext, PagesInv
  <2>2. [SendNext]_sendVars
    BY <2>1 DEF ReceiverSeen, SendNext, ReceiverActs, sendVars
  <2>3. [ServiceNext]_service
    BY <2>1 DEF ReceiverSeen, ServiceNext
  <2> QED
    BY <2>1, <2>2, <2>3, NextSends, NextNames DEF PagesInv
<1>3. CASE Expires
  <2>1. PICK t \in Transfers : Closes(t) /\ UNCHANGED <<sendOwn, receiveOwn>>
    BY <1>3 DEF Expires
  <2>2. SendNext /\ ReceiveNext /\ ServiceNext
    BY <2>1 DEF SendNext, ReceiverActs, ReceiveNext, SenderActs, ServiceNext
  <2>3. SendInv' /\ NamesMade'
    BY <2>2, NextSends, NextNames DEF PagesInv
  <2>4. Aimed'
    BY <2>1, <2>3 DEF PagesInv, Aimed, Underway, NamesMade, receiveOwn, Closes
  <2> QED
    BY <2>2, <2>3, <2>4 DEF PagesInv
<1>4. CASE UNCHANGED pagesVars
  <2>1. UNCHANGED <<service, sendOwn, receiveOwn>>
    BY <1>4 DEF pagesVars
  <2>2. UNCHANGED sendVars /\ UNCHANGED receiveVars
    BY <2>1 DEF sendVars, receiveVars
  <2>3. SendInv' /\ NamesMade'
    BY <2>2, NextSends, NextNames DEF PagesInv
  <2>4. Aimed'
    BY <2>1 DEF PagesInv, Aimed, Underway, service, receiveOwn
  <2> QED
    BY <2>1, <2>2, <2>3, <2>4 DEF PagesInv
<1> QED
  BY <1>1, <1>2, <1>3, <1>4 DEF PagesNext

(* Each page alone, with an environment that sends, picks up or lets end   *)
(* as the service allows, is all that the two pages do together: every     *)
(* property of the one page, in whatever environment, is one of the        *)
(* composition.  And what they do to the service is what DropService       *)
(* promises: a transfer is sent, sealed and gone, in this order, and       *)
(* counts its receivers' events while it is ready, never backwards.        *)
THEOREM PagesCompose == PagesSpec => SendSpec /\ ReceiveSpec /\ ServiceSpec
<1>1. PagesInit => SendInit /\ ReceiveInit /\ ServiceInit
  BY DEF PagesInit, SendInit
<1> QED
  BY <1>1, InitComposes, StepComposes, PTL DEF PagesSpec, SendSpec, ReceiveSpec, ServiceSpec

(* DeliveredIsThere of DropPages: the sending phone only says delivered    *)
(* when the receiving phone has every file, for any number of transfers,   *)
(* of saves that overlap and of faults on either side, unless the record   *)
(* was late or a save adrift.  (the polling effect, reportIfComplete)      *)
THEOREM WhatIsDeliveredIsThere == PagesSpec => []DeliveredIsThere
<1>1. SendInv /\ ReceiverNotAhead /\ DeliveredIsWhole => DeliveredIsThere
  <2> SUFFICES ASSUME SendInv, ReceiverNotAhead, DeliveredIsWhole, spage.stage = "ready",
                      spage.receiver = "delivered", ~send[spage.result].late, ~adrift
               PROVE  got[spage.result] = Files(spage.result)
    BY DEF DeliveredIsThere
  <2>1. spage.result \in Transfers
    BY DEF SendInv, Silent
  <2>2. seen[spage.result] \in Said /\ Rank["delivered"] <= Rank[seen[spage.result]]
    BY <2>1 DEF ReceiverNotAhead, SendInv, SendTypes
  <2>3. seen[spage.result] = "delivered"
    BY <2>2, Ranks DEF Said
  <2> QED
    BY <2>1, <2>3 DEF DeliveredIsWhole
<1>2. SendSpec => []SendInv
  BY InitSends, NextSends, PTL DEF SendSpec
<1> QED
  BY <1>1, <1>2, PagesCompose, ReceiverIsNotAhead, DeliveriesAreWhole, PTL
===========================================================================
