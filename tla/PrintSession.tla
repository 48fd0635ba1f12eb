--------------------------- MODULE PrintSession ---------------------------
(***************************************************************************)
(* What the server promises of one print session, with no store, no clock *)
(* and no concurrency: a status that moves along the published table, one *)
(* phone that ever claims it, one kiosk read that ever consumes it, and   *)
(* one committed ciphertext.  docs/ARCHITECTURE.md, "State machine".       *)
(* Specifications of the stores are shown to implement this one.           *)
(***************************************************************************)
EXTENDS PrintSessionStatus

CONSTANTS Phones,    \* the phones that opened the QR link
          Readers,   \* the consume identifiers a kiosk may present
          Etags,     \* the ciphertexts a phone may have uploaded
          None       \* no phone, no reader, no ciphertext

VARIABLES status, phone, etag, reader

vars == <<status, phone, etag, reader>>

Init ==
    /\ status = "waiting"
    /\ phone = None
    /\ etag = None
    /\ reader = None

(* The first phone to claim owns the session. *)
Claim(p) ==
    /\ CanTransition(status, "claimed")
    /\ status' = "claimed"
    /\ phone' = p
    /\ UNCHANGED <<etag, reader>>

(* The ciphertext is committed once. *)
CommitUpload(e) ==
    /\ CanTransition(status, "uploaded")
    /\ status' = "uploaded"
    /\ etag' = e
    /\ UNCHANGED <<phone, reader>>

(* The document is handed to one reader. *)
Consume(c) ==
    /\ CanTransition(status, "consumed")
    /\ status' = "consumed"
    /\ reader' = c
    /\ UNCHANGED <<phone, etag>>

(* Every other transition only moves the status. *)
Advance(to) ==
    /\ CanTransition(status, to)
    /\ to \notin {"claimed", "uploaded", "consumed"}
    /\ status' = to
    /\ UNCHANGED <<phone, etag, reader>>

Next ==
    \/ \E p \in Phones : Claim(p)
    \/ \E e \in Etags : CommitUpload(e)
    \/ \E c \in Readers : Consume(c)
    \/ \E to \in Statuses : Advance(to)

Spec == Init /\ [][Next]_vars

TypeOK ==
    /\ status \in Statuses
    /\ phone \in Phones \cup {None}
    /\ etag \in Etags \cup {None}
    /\ reader \in Readers \cup {None}

(* A document is only ever in a kiosk's hands after one phone claimed the *)
(* session and committed the ciphertext, and a session that was cancelled *)
(* was never read: "Cancellation is not permitted after consume"          *)
(* (docs/ARCHITECTURE.md:159).                                            *)
Custody ==
    /\ status \in {"uploaded"} \cup Processing \cup {"completed"} =>
          phone # None /\ etag # None
    /\ status \in Processing \cup {"completed"} => reader # None
    /\ status = "cancelled" => reader = None

(* "Terminal states cannot be reactivated" (docs/ARCHITECTURE.md:142), and *)
(* who claimed, what was committed and who read it are settled once.       *)
SettledOnce ==
    [][ /\ status \in Terminal => status' = status
        /\ phone # None => phone' = phone
        /\ etag # None => etag' = etag
        /\ reader # None => reader' = reader ]_vars
============================================================================
