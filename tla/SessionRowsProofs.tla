------------------------- MODULE SessionRowsProofs ------------------------
(***************************************************************************)
(* Theorems about SessionRows, for every set of sessions and cleaners and  *)
(* all lifetimes.  Each row implements PrintSession, and no session is     *)
(* taken before its time.                                                  *)
(***************************************************************************)
EXTENDS SessionRows, SequenceTheorems, TLAPS

RowRecord ==
    [status : Statuses \cup {"none"}, expiresAt : Nat, lease : Nat, retain : Nat,
     path : BOOLEAN, phone : Phones \cup {None}, etag : {Cipher, None},
     reader : Readers \cup {None}]

CleanerRecord ==
    [at : {"idle", "prepare", "delete", "finalize"}, session : Sessions \cup {0},
     now : Nat, sealed : Terminal \cup {"none"}, path : BOOLEAN,
     todo : Seq(Sessions)]

TypeOK ==
    /\ clock \in Nat
    /\ row \in [Sessions -> RowRecord]
    /\ kept \subseteq Sessions
    /\ ledger \in [Sessions -> Nat]
    /\ files \subseteq Sessions /\ seen \subseteq Sessions
    /\ cleaner \in [Cleaners -> CleanerRecord]
    /\ \A c \in Cleaners : cleaner[c].at # "idle" => cleaner[c].session \in Sessions

Active(s) == row[s].status \notin Terminal \cup {"none"}

(* Nothing is written to such a row any more. *)
Over(s) == row[s].status # "none" /\ (row[s].status \in Terminal \/ s \notin kept)

(* A session that has not begun has left no trace. *)
Fresh ==
    \A s \in Sessions :
        row[s].status = "none" => row[s] = NoRow /\ ledger[s] = 0 /\ s \notin seen

(* Only a forced cleanup goes by a clock ahead of time. *)
OnTime ==
    \A c \in Cleaners :
        cleaner[c].at # "idle" /\ cleaner[c].now > clock =>
            cleaner[c].session \in Condemned /\ cleaner[c].todo = <<>>

(* A cleanup that was told to delete deletes what is over. *)
Cleaning ==
    \A c \in Cleaners :
        cleaner[c].at \in {"delete", "finalize"} => Over(cleaner[c].session)

(* So does what is gone from the store. *)
Deleted == \A s \in Sessions : s \in seen \ files => Over(s)

(* What was committed had been found in the store. *)
Committed ==
    \A s \in Sessions : row[s].status \in {"uploaded"} \cup Processing => s \in seen

(* In memory, a forced cleanup prunes the sessions of all by its clock.    *)
Tame == ~Shared \/ Condemned = {}

(* A row is retained beyond deadline and lease, and until then kept. *)
Retained ==
    \A s \in Sessions :
        Active(s) => row[s].retain = Later(row[s].expiresAt, row[s].lease) + Retention
Held ==
    Tame => \A s \in Sessions \ Condemned :
                Active(s) /\ clock < row[s].retain => s \in kept

IInv ==
    /\ TypeOK /\ Fresh /\ OnTime /\ Cleaning /\ Deleted /\ Committed
    /\ Retained /\ Held

---------------------------------------------------------------------------
(* Records *)

LEMMA Fields ==
    ASSUME NEW r \in RowRecord
    PROVE  /\ r.status \in Statuses \cup {"none"}
           /\ r.expiresAt \in Nat /\ r.lease \in Nat /\ r.retain \in Nat
           /\ r.path \in BOOLEAN
           /\ r.phone \in Phones \cup {None} /\ r.etag \in {Cipher, None}
           /\ r.reader \in Readers \cup {None}
  BY DEF RowRecord

LEMMA CleanerFields ==
    ASSUME NEW r \in CleanerRecord
    PROVE  /\ r.at \in {"idle", "prepare", "delete", "finalize"}
           /\ r.session \in Sessions \cup {0} /\ r.now \in Nat
           /\ r.sealed \in Terminal \cup {"none"} /\ r.path \in BOOLEAN
           /\ r.todo \in Seq(Sessions)
  BY DEF CleanerRecord

LEMMA Retaining ==
    ASSUME NEW next \in RowRecord
    PROVE  /\ RetentionDeadline(next) \in Nat
           /\ [next EXCEPT !.retain = RetentionDeadline(next)] \in RowRecord
           /\ [next EXCEPT !.retain = RetentionDeadline(next)].status = next.status
           /\ [next EXCEPT !.retain = RetentionDeadline(next)].retain
                 = Later(next.expiresAt, next.lease) + Retention
           /\ [next EXCEPT !.retain = RetentionDeadline(next)].expiresAt = next.expiresAt
           /\ [next EXCEPT !.retain = RetentionDeadline(next)].lease = next.lease
<1>1. RetentionDeadline(next) \in Nat
  BY Fields, RowsAssumption DEF RetentionDeadline, Later
<1>2. RetentionDeadline(next) = Later(next.expiresAt, next.lease) + Retention
  BY DEF RetentionDeadline
<1> DEFINE deadline == RetentionDeadline(next)
<1> HIDE DEF deadline
<1>3. deadline \in Nat => [next EXCEPT !.retain = deadline] \in RowRecord
  BY DEF RowRecord
<1>4. /\ [next EXCEPT !.retain = deadline].status = next.status
      /\ [next EXCEPT !.retain = deadline].retain = deadline
      /\ [next EXCEPT !.retain = deadline].expiresAt = next.expiresAt
      /\ [next EXCEPT !.retain = deadline].lease = next.lease
  BY DEF RowRecord
<1> QED
  BY <1>1, <1>2, <1>3, <1>4 DEF deadline

(* What has ended, or not begun, moves no further. *)
LEMMA Dead ==
    ASSUME NEW from \in Terminal \cup {"none"}, NEW to
    PROVE  ~CanTransition(from, to)
  BY DEF CanTransition, Successors, Terminal

LEMMA Alive ==
    ASSUME NEW from \in Statuses \cup {"none"}, NEW to, CanTransition(from, to)
    PROVE  to \in Statuses /\ to # "none" /\ from \notin Terminal \cup {"none"}
  BY DEF CanTransition, Successors, Statuses, Terminal

---------------------------------------------------------------------------
(* The invariant, one kind of step after another *)

LEMMA InitInvariant == Init => IInv
<1> SUFFICES ASSUME Init PROVE IInv
  OBVIOUS
<1>1. NoRow \in RowRecord
  BY DEF NoRow, RowRecord, Statuses
<1>2. Idle \in CleanerRecord
  BY EmptySeq DEF Idle, CleanerRecord
<1>3. TypeOK
  BY <1>1, <1>2 DEF Init, TypeOK, Idle
<1>4. \A s \in Sessions : row[s] = NoRow /\ NoRow.status = "none"
  BY DEF Init, NoRow
<1>5. \A c \in Cleaners : cleaner[c].at = "idle"
  BY DEF Init, Idle
<1>6. Fresh
  BY <1>4 DEF Init, Fresh
<1>7. OnTime /\ Cleaning
  BY <1>5 DEF OnTime, Cleaning
<1>8. Deleted /\ Committed /\ Retained /\ Held
  BY <1>4 DEF Deleted, Committed, Retained, Held, Active, Init, Processing
<1> QED
  BY <1>3, <1>6, <1>7, <1>8 DEF IInv

(* What an operation prunes was over its retention, or condemned. *)
LEMMA PrunedLate ==
    ASSUME NEW s \in Sessions, NEW t \in Nat, TypeOK,
           t <= clock \/ s \in Condemned
    PROVE  /\ Pruned(s, t) \subseteq kept
           /\ \A x \in Pruned(s, t) \ Condemned : ~Tame \/ row[x].retain <= clock
           /\ \A x \in Pruned(s, t) : row[x].retain <= t
<1>1. \A x \in Sessions : row[x].retain \in Nat
  BY Fields DEF TypeOK
<1> QED
  BY <1>1 DEF Pruned, Tame, TypeOK

LEMMA WriteKeeps ==
    ASSUME IInv, NEW s \in Sessions, NEW t \in Nat, t <= clock,
           NEW next \in RowRecord, Write(s, t, next),
           next.status \in {"uploaded"} \cup Processing => s \in seen,
           ledger' \in [Sessions -> Nat],
           \A x \in Sessions \ {s} : ledger'[x] = ledger[x],
           UNCHANGED <<clock, blobs, cleaner, faults>>
    PROVE  IInv'
<1> DEFINE new == [next EXCEPT !.retain = RetentionDeadline(next)]
<1>1. /\ new \in RowRecord /\ new.status = next.status
      /\ new.retain = Later(new.expiresAt, new.lease) + Retention
  BY Retaining
<1>2. row' = [row EXCEPT ![s] = new]
  BY DEF Write
<1>3. /\ kept' = kept \ Pruned(s, t)
      /\ s \in kept /\ row[s].retain > t
      /\ CanTransition(row[s].status, next.status)
  BY DEF Write, Found
<1> HIDE DEF new
<1> USE DEF IInv
<1>4. /\ row[s].status \notin Terminal \cup {"none"}
      /\ new.status \in Statuses /\ new.status # "none"
  BY <1>1, <1>3, Alive, Fields DEF TypeOK
<1>5. /\ row'[s] = new
      /\ \A x \in Sessions \ {s} : row'[x] = row[x]
      /\ row' \in [Sessions -> RowRecord]
  BY <1>1, <1>2 DEF TypeOK
<1>6. /\ kept' \subseteq kept /\ s \in kept'
      /\ \A x \in kept \ kept' : ~Tame \/ x \in Condemned \/ row[x].retain <= clock
<2>1. s \notin Pruned(s, t)
  BY <1>3, Fields DEF Pruned, TypeOK
<2> QED
  BY <1>3, <2>1, PrunedLate
<1>7. /\ clock' = clock /\ files' = files /\ seen' = seen
      /\ cleaner' = cleaner /\ faults' = faults
  BY DEF blobs
<1>8. \A x \in Sessions : Over(x) => x # s /\ Over(x)'
  BY <1>3, <1>4, <1>5, <1>6 DEF Over
<1>9. TypeOK'
  BY <1>5, <1>6, <1>7 DEF TypeOK
<1>10. Fresh'
  BY <1>4, <1>5, <1>7 DEF Fresh
<1>11. OnTime'
  BY <1>7 DEF OnTime
<1>12. Cleaning'
  BY <1>7, <1>8 DEF Cleaning, TypeOK
<1>13. Deleted'
  BY <1>7, <1>8 DEF Deleted
<1>14. Committed'
  BY <1>1, <1>5, <1>7 DEF Committed
<1>15. Retained'
  BY <1>1, <1>5 DEF Retained, Active
<1>16. Held'
<2> SUFFICES ASSUME Tame, NEW x \in Sessions \ Condemned, Active(x)',
                    clock' < row'[x].retain
             PROVE  x \in kept'
  BY DEF Held
<2>1. CASE x = s
  BY <2>1, <1>6
<2>2. CASE x # s
<3>1. x \in kept
  BY <2>2, <1>5, <1>7 DEF Held, Active
<3>2. ~(row[x].retain <= clock)
  BY <2>2, <1>5, <1>7, Fields DEF TypeOK
<3> QED
  BY <3>1, <3>2, <1>6
<2> QED
  BY <2>1, <2>2
<1> QED
  BY <1>9, <1>10, <1>11, <1>12, <1>13, <1>14, <1>15, <1>16

(* The rows that the requests write *)
LEMMA NextRows ==
    ASSUME NEW r \in RowRecord, NEW t \in Nat
    PROVE  /\ \A p \in Phones :
                 [r EXCEPT !.status = "claimed", !.phone = p,
                           !.expiresAt = t + SessionTtl] \in RowRecord
           /\ [r EXCEPT !.status = "upload_authorized", !.path = TRUE] \in RowRecord
           /\ [r EXCEPT !.status = "uploaded", !.etag = Cipher] \in RowRecord
           /\ \A c \in Readers :
                 [r EXCEPT !.status = "consumed", !.reader = c,
                           !.lease = t + Lease] \in RowRecord
<1>1. t + SessionTtl \in Nat /\ t + Lease \in Nat
  BY RowsAssumption
<1>2. /\ "claimed" \in Statuses /\ "upload_authorized" \in Statuses
      /\ "uploaded" \in Statuses /\ "consumed" \in Statuses
  BY DEF Statuses
<1> DEFINE until == t + SessionTtl
           lease == t + Lease
<1> HIDE DEF until, lease
<1>3. until \in Nat /\ lease \in Nat
  BY <1>1 DEF until, lease
<1>4. \A p \in Phones :
         [r EXCEPT !.status = "claimed", !.phone = p, !.expiresAt = until] \in RowRecord
  BY <1>2, <1>3 DEF RowRecord
<1>6. [r EXCEPT !.status = "upload_authorized", !.path = TRUE] \in RowRecord
  BY <1>2 DEF RowRecord
<1>7. [r EXCEPT !.status = "uploaded", !.etag = Cipher] \in RowRecord
  BY <1>2 DEF RowRecord
<1>8. \A c \in Readers :
         [r EXCEPT !.status = "consumed", !.reader = c, !.lease = lease] \in RowRecord
  BY <1>2, <1>3 DEF RowRecord
<1> QED
  BY <1>4, <1>6, <1>7, <1>8 DEF until, lease

LEMMA NextStatus ==
    ASSUME NEW r \in RowRecord, NEW t \in Nat
    PROVE  /\ \A p \in Phones :
                 [r EXCEPT !.status = "claimed", !.phone = p,
                           !.expiresAt = t + SessionTtl].status = "claimed"
           /\ [r EXCEPT !.status = "upload_authorized", !.path = TRUE].status
                 = "upload_authorized"
           /\ [r EXCEPT !.status = "uploaded", !.etag = Cipher].status = "uploaded"
           /\ \A c \in Readers :
                 [r EXCEPT !.status = "consumed", !.reader = c,
                           !.lease = t + Lease].status = "consumed"
  BY DEF RowRecord

(* A document is read only after it was committed. *)
LEMMA ReadAfterCommit ==
    ASSUME NEW from \in Statuses \cup {"none"}, NEW to \in Processing,
           CanTransition(from, to)
    PROVE  from \in {"uploaded"} \cup Processing
  BY DEF CanTransition, Successors, Processing

LEMMA RequestKeeps ==
    ASSUME IInv, NEW s \in Sessions, Request(s)
    PROVE  IInv'
<1>1. UNCHANGED <<clock, blobs, cleaner, faults>>
  BY DEF Request
<1>2. PICK t \in Recent :
          \/ \E p \in Phones : Claim(s, t, p)
          \/ AuthorizeUpload(s, t) \/ MarkUploading(s, t) \/ MarkUploaded(s, t)
          \/ \E c \in Readers : Consume(s, t, c)
          \/ Cancel(s, t)
          \/ \E to \in {"validating", "printing", "completed", "failed"} :
                Transition(s, t, to)
  BY DEF Request
<1>3. clock \in Nat
  BY DEF IInv, TypeOK
<1>4. t \in Nat /\ t <= clock
  BY <1>3 DEF Recent
<1>5. row[s] \in RowRecord /\ ledger \in [Sessions -> Nat]
  BY DEF IInv, TypeOK
<1>6. row[s].status \in Statuses \cup {"none"} /\ row[s].expiresAt \in Nat
      /\ row[s].lease \in Nat
  BY <1>5, Fields
<1>7. row[s].status \in {"uploaded"} \cup Processing => s \in seen
  BY DEF IInv, Committed
<1> DEFINE Quiet(next) ==
        /\ next \in RowRecord
        /\ next.status \in {"uploaded"} \cup Processing => s \in seen
        /\ Write(s, t, next)
        /\ ledger' \in [Sessions -> Nat]
        /\ \A x \in Sessions \ {s} : ledger'[x] = ledger[x]
<1>8. ASSUME NEW next, Quiet(next) PROVE IInv'
  BY <1>1, <1>4, <1>8, WriteKeeps
<1>9. /\ "claimed" \notin {"uploaded"} \cup Processing
      /\ "upload_authorized" \notin {"uploaded"} \cup Processing
      /\ "uploading" \notin {"uploaded"} \cup Processing
      /\ "cancelled" \notin {"uploaded"} \cup Processing
      /\ "completed" \notin {"uploaded"} \cup Processing
      /\ "failed" \notin {"uploaded"} \cup Processing
      /\ {"consumed", "validating", "printing"} = Processing
      /\ {"uploading", "cancelled", "validating", "printing", "completed", "failed"}
            \subseteq Statuses
  BY DEF Processing, Statuses
<1>20. \A to \in Statuses : /\ [row[s] EXCEPT !.status = to] \in RowRecord
                            /\ [row[s] EXCEPT !.status = to].status = to
  BY <1>5 DEF RowRecord
<1>21. \A to \in Statuses, n \in Nat :
          /\ [row[s] EXCEPT !.status = to, !.lease = n] \in RowRecord
          /\ [row[s] EXCEPT !.status = to, !.lease = n].status = to
  BY <1>5 DEF RowRecord
<1>10. ASSUME NEW p \in Phones, Claim(s, t, p)
      PROVE  IInv'
<2> DEFINE next == [row[s] EXCEPT !.status = "claimed", !.phone = p,
                                  !.expiresAt = t + SessionTtl]
<2>1. next \in RowRecord /\ next.status = "claimed"
<3>1. next \in RowRecord
  BY <1>4, <1>5, <1>10, NextRows
<3>2. next.status = "claimed"
  BY <1>4, <1>5, <1>10, NextStatus
<3> QED
  BY <3>1, <3>2
<2>2. Write(s, t, next) /\ ledger' = ledger
  BY <1>10 DEF Claim
<2> HIDE DEF next
<2> QED
  BY <2>1, <2>2, <1>5, <1>8, <1>9
<1>11. CASE AuthorizeUpload(s, t)
<2> DEFINE next == [row[s] EXCEPT !.status = "upload_authorized", !.path = TRUE]
<2>1. next \in RowRecord /\ next.status = "upload_authorized"
  BY <1>4, <1>5, NextRows, NextStatus
<2>2. Write(s, t, next) /\ ledger' = [ledger EXCEPT ![s] = row[s].expiresAt]
  BY <1>11 DEF AuthorizeUpload
<2> QED
  BY <2>1, <2>2, <1>5, <1>6, <1>8, <1>9
<1>12. CASE MarkUploading(s, t)
<2> DEFINE next == [row[s] EXCEPT !.status = "uploading"]
<2>1. next \in RowRecord /\ next.status = "uploading"
  BY <1>9, <1>20
<2>2. Write(s, t, next) /\ ledger' = ledger
  BY <1>12 DEF MarkUploading
<2> QED
  BY <2>1, <2>2, <1>5, <1>8, <1>9
<1>13. CASE MarkUploaded(s, t)
<2> DEFINE next == [row[s] EXCEPT !.status = "uploaded", !.etag = Cipher]
<2>1. next \in RowRecord /\ next.status = "uploaded"
  BY <1>4, <1>5, NextRows, NextStatus
<2>2. Write(s, t, next) /\ ledger' = ledger /\ s \in seen
  BY <1>13 DEF MarkUploaded
<2> QED
  BY <2>1, <2>2, <1>5, <1>8
<1>14. ASSUME NEW c \in Readers, Consume(s, t, c)
      PROVE  IInv'
<2> DEFINE next == [row[s] EXCEPT !.status = "consumed", !.reader = c,
                                  !.lease = t + Lease]
<2>1. next \in RowRecord /\ next.status = "consumed"
<3>1. next \in RowRecord
  BY <1>4, <1>5, <1>14, NextRows
<3>2. next.status = "consumed"
  BY <1>4, <1>5, <1>14, NextStatus
<3> QED
  BY <3>1, <3>2
<2>2. Write(s, t, next) /\ ledger' = ledger
  BY <1>14 DEF Consume
<2>3. CanTransition(row[s].status, next.status)
  BY <2>2 DEF Write
<2>4. s \in seen
  BY <2>1, <2>3, <1>6, <1>7, <1>9, ReadAfterCommit
<2> HIDE DEF next
<2> QED
  BY <2>1, <2>2, <2>4, <1>5, <1>8
<1>15. CASE Cancel(s, t)
<2> DEFINE next == [row[s] EXCEPT !.status = "cancelled"]
<2>1. next \in RowRecord /\ next.status = "cancelled"
  BY <1>9, <1>20
<2>2. Write(s, t, next) /\ ledger' = ledger
  BY <1>15 DEF Cancel
<2> QED
  BY <2>1, <2>2, <1>5, <1>8, <1>9
<1>16. ASSUME NEW to \in {"validating", "printing", "completed", "failed"},
              Transition(s, t, to)
       PROVE  IInv'
<2> DEFINE lease == IF to \in Processing THEN t + Lease ELSE row[s].lease
           next == [row[s] EXCEPT !.status = to, !.lease = lease]
<2>1. Write(s, t, next) /\ ledger' = ledger
  BY <1>16 DEF Transition
<2>2. lease \in Nat
  BY <1>4, <1>6, RowsAssumption
<2> HIDE DEF lease
<2>3. next \in RowRecord /\ next.status = to
  BY <2>2, <1>9, <1>21
<2>4. CanTransition(row[s].status, to)
  BY <2>1, <2>3 DEF Write
<2>5. next.status \in {"uploaded"} \cup Processing => s \in seen
  BY <2>3, <2>4, <1>6, <1>7, <1>9, ReadAfterCommit
<2> HIDE DEF next
<2> QED
  BY <2>1, <2>3, <2>5, <1>5, <1>8
<1> QED
  BY <1>2, <1>10, <1>11, <1>12, <1>13, <1>14, <1>15, <1>16

LEMMA CreateKeeps ==
    ASSUME IInv, NEW s \in Sessions, Create(s)
    PROVE  IInv'
<1> DEFINE until == clock + Ttl[s]
           new == [NoRow EXCEPT !.status = "waiting", !.expiresAt = until,
                                !.retain = until + Retention]
<1>1. row' = [row EXCEPT ![s] = new] /\ kept' = kept \cup {s}
      /\ UNCHANGED <<clock, ledger, blobs, cleaner, faults>>
  BY DEF Create
<1>2. until \in Nat /\ until + Retention \in Nat
  BY RowsAssumption DEF IInv, TypeOK
<1> HIDE DEF until
<1>3. new \in RowRecord /\ new.status = "waiting"
  BY <1>2 DEF NoRow, RowRecord, Statuses
<1>4. new.expiresAt = until /\ new.lease = 0 /\ new.retain = until + Retention
  BY DEF NoRow
<1>5. new.retain = Later(new.expiresAt, new.lease) + Retention
  BY <1>2, <1>4 DEF Later
<1> HIDE DEF new
<1> USE DEF IInv
<1>6. /\ row'[s] = new
      /\ \A x \in Sessions \ {s} : row'[x] = row[x]
      /\ row' \in [Sessions -> RowRecord]
  BY <1>1, <1>3 DEF TypeOK
<1>7. /\ clock' = clock /\ files' = files /\ seen' = seen
      /\ cleaner' = cleaner /\ ledger' = ledger
  BY <1>1 DEF blobs
<1>8. \A x \in Sessions : Over(x) => x # s /\ Over(x)'
  BY <1>1, <1>6 DEF Over, Create
<1>9. TypeOK'
  BY <1>1, <1>6, <1>7 DEF TypeOK
<1>10. Fresh'
  BY <1>3, <1>6, <1>7 DEF Fresh
<1>11. OnTime'
  BY <1>7 DEF OnTime
<1>12. Cleaning'
  BY <1>7, <1>8 DEF Cleaning, TypeOK
<1>13. Deleted'
  BY <1>7, <1>8 DEF Deleted
<1>14. Committed'
  BY <1>3, <1>6, <1>7 DEF Committed, Processing
<1>15. Retained'
  BY <1>5, <1>6 DEF Retained, Active
<1>16. Held'
  BY <1>1, <1>6, <1>7 DEF Held, Active
<1> QED
  BY <1>9, <1>10, <1>11, <1>12, <1>13, <1>14, <1>15, <1>16

(* A step that only prunes, and only what is past its retention *)
LEMMA PruningKeeps ==
    ASSUME IInv, UNCHANGED <<clock, row, ledger, blobs, cleaner, faults>>,
           kept' \subseteq kept,
           \A x \in kept \ kept' : ~Tame \/ x \in Condemned \/ row[x].retain <= clock
    PROVE  IInv'
<1> USE DEF IInv
<1>1. /\ clock' = clock /\ files' = files /\ seen' = seen
      /\ cleaner' = cleaner /\ ledger' = ledger /\ row' = row
  BY DEF blobs
<1>2. \A x \in Sessions : Over(x) => Over(x)'
  BY <1>1 DEF Over
<1>3. TypeOK'
  BY <1>1 DEF TypeOK
<1>4. Fresh' /\ OnTime'
  BY <1>1 DEF Fresh, OnTime
<1>5. Cleaning'
  BY <1>1, <1>2 DEF Cleaning, TypeOK
<1>6. Deleted' /\ Committed'
  BY <1>1, <1>2 DEF Deleted, Committed
<1>7. Retained'
  BY <1>1 DEF Retained, Active
<1>8. \A x \in Sessions : row[x].retain \in Nat
  BY Fields DEF TypeOK
<1>9. Held'
  BY <1>1, <1>8 DEF Held, Active, TypeOK
<1> QED
  BY <1>3, <1>4, <1>5, <1>6, <1>7, <1>9

LEMMA GetKeeps ==
    ASSUME IInv, NEW s \in Sessions, Get(s)
    PROVE  IInv'
<1>1. clock \in Nat /\ TypeOK
  BY DEF IInv, TypeOK
<1>2. kept' = kept \ Pruned(s, clock)
      /\ UNCHANGED <<clock, row, ledger, blobs, cleaner, faults>>
  BY DEF Get
<1>3. \A x \in kept \ kept' : ~Tame \/ x \in Condemned \/ row[x].retain <= clock
  BY <1>1, <1>2, PrunedLate
<1> QED
  BY <1>2, <1>3, PruningKeeps

LEMMA PutKeeps ==
    ASSUME IInv, NEW s \in Sessions, Put(s)
    PROVE  IInv'
<1> USE DEF IInv
<1>1. /\ clock' = clock /\ cleaner' = cleaner /\ row' = row /\ kept' = kept
      /\ ledger' = ledger /\ files' = files \cup {s} /\ seen' = seen \cup {s}
  BY DEF Put, store
<1>2. row[s].status # "none"
  BY DEF Put, Fresh, NoRow
<1>3. \A x \in Sessions : Over(x)' <=> Over(x)
  BY <1>1 DEF Over
<1>4. TypeOK'
  BY <1>1 DEF TypeOK
<1>5. Fresh' /\ OnTime'
  BY <1>1, <1>2 DEF Fresh, OnTime
<1>6. Cleaning'
  BY <1>1, <1>3 DEF Cleaning, TypeOK
<1>7. Deleted' /\ Committed'
  BY <1>1, <1>3 DEF Deleted, Committed
<1>8. Retained' /\ Held'
  BY <1>1 DEF Retained, Held, Active
<1> QED
  BY <1>4, <1>5, <1>6, <1>7, <1>8

LEMMA TickKeeps ==
    ASSUME IInv, Tick
    PROVE  IInv'
<1> USE DEF IInv
<1>1. /\ clock' = clock + 1 /\ cleaner' = cleaner /\ row' = row /\ kept' = kept
      /\ ledger' = ledger /\ files' = files /\ seen' = seen
  BY DEF Tick, store, blobs
<1>2. clock \in Nat /\ clock' \in Nat
  BY <1>1 DEF TypeOK
<1>3. \A x \in Sessions : Over(x)' <=> Over(x)
  BY <1>1 DEF Over
<1>4. TypeOK'
  BY <1>1, <1>2 DEF TypeOK
<1>5. Fresh'
  BY <1>1 DEF Fresh
<1>6. OnTime'
<2>1. \A c \in Cleaners : cleaner[c].now \in Nat
  BY CleanerFields DEF TypeOK
<2> QED
  BY <1>1, <1>2, <2>1 DEF OnTime
<1>7. Cleaning'
  BY <1>1, <1>3 DEF Cleaning, TypeOK
<1>8. Deleted' /\ Committed'
  BY <1>1, <1>3 DEF Deleted, Committed
<1>9. Retained'
  BY <1>1 DEF Retained, Active
<1>10. Held'
<2>1. \A x \in Sessions : row[x].retain \in Nat
  BY Fields DEF TypeOK
<2> QED
  BY <1>1, <1>2, <2>1 DEF Held, Active
<1> QED
  BY <1>4, <1>5, <1>7, <1>8, <1>9, <1>6, <1>10

---------------------------------------------------------------------------
(* Cleanups *)

(* What the invariant asks of the record of a cleanup *)
Sound(r) ==
    /\ r \in CleanerRecord
    /\ r.at # "idle" => r.session \in Sessions
    /\ r.at # "idle" /\ r.now > clock => r.session \in Condemned /\ r.todo = <<>>

LEMMA SoundNow ==
    ASSUME IInv, NEW c \in Cleaners
    PROVE  Sound(cleaner[c]) /\ clock \in Nat
  BY DEF IInv, TypeOK, OnTime, Sound

LEMMA IdleSound == Sound(Idle) /\ Idle.at = "idle"
<1>1. Idle \in CleanerRecord
  BY EmptySeq DEF Idle, CleanerRecord
<1>2. Idle.at = "idle"
  BY DEF Idle
<1> QED
  BY <1>1, <1>2 DEF Sound

LEMMA OnwardSound ==
    ASSUME IInv, NEW c \in Cleaners, cleaner[c].at # "idle"
    PROVE  /\ Sound(Onward(c))
           /\ Onward(c).at \in {"idle", "prepare"}
<1> DEFINE todo == cleaner[c].todo
<1>1. Sound(cleaner[c]) /\ clock \in Nat
  BY SoundNow
<1>2. todo \in Seq(Sessions) /\ cleaner[c].now \in Nat
  BY <1>1, CleanerFields DEF Sound
<1>3. CASE todo = <<>>
  BY <1>3, IdleSound DEF Onward
<1>4. CASE todo # <<>>
<2> DEFINE head == Head(todo)
           tail == Tail(todo)
           now == cleaner[c].now
           next == [Idle EXCEPT !.at = "prepare", !.session = head, !.now = now,
                                !.todo = tail]
<2>1. head \in Sessions /\ tail \in Seq(Sessions)
  BY <1>2, <1>4, HeadTailProperties
<2>2. now \in Nat /\ ~(now > clock)
  BY <1>1, <1>2, <1>4 DEF Sound
<2>3. Onward(c) = next
  BY <1>4 DEF Onward
<2> HIDE DEF head, tail, now, todo
<2>4. next \in CleanerRecord
  BY <2>1, <2>2 DEF Idle, CleanerRecord
<2>5. next.at = "prepare" /\ next.session = head /\ next.now = now
  BY DEF Idle
<2> QED
  BY <2>1, <2>2, <2>3, <2>4, <2>5 DEF Sound
<1> QED
  BY <1>3, <1>4

(* A cleanup moves on, and nothing that is over comes back. *)
LEMMA CleanerKeeps ==
    ASSUME IInv, NEW c \in Cleaners, NEW next, Sound(next),
           cleaner' = [cleaner EXCEPT ![c] = next], clock' = clock,
           next.at \in {"delete", "finalize"} => Over(next.session)',
           \A x \in Sessions : Over(x) => Over(x)'
    PROVE  /\ cleaner' \in [Cleaners -> CleanerRecord]
           /\ \A d \in Cleaners : cleaner'[d].at # "idle" => cleaner'[d].session \in Sessions
           /\ OnTime' /\ Cleaning'
<1> USE DEF IInv
<1>1. cleaner \in [Cleaners -> CleanerRecord]
  BY DEF TypeOK
<1>2. /\ cleaner'[c] = next
      /\ \A d \in Cleaners \ {c} : cleaner'[d] = cleaner[d]
      /\ cleaner' \in [Cleaners -> CleanerRecord]
  BY <1>1 DEF Sound
<1>3. \A d \in Cleaners : cleaner'[d].at # "idle" => cleaner'[d].session \in Sessions
  BY <1>2 DEF Sound, TypeOK
<1>4. OnTime'
  BY <1>2 DEF Sound, OnTime
<1>5. Cleaning'
<2>1. \A d \in Cleaners \ {c} : cleaner[d].at \in {"delete", "finalize"} =>
         cleaner[d].session \in Sessions /\ Over(cleaner[d].session)
  BY DEF Cleaning, TypeOK
<2> QED
  BY <1>2, <2>1 DEF Cleaning, Over
<1> QED
  BY <1>2, <1>3, <1>4, <1>5

(* What is to be deleted *)
LEMMA DeleteSound ==
    ASSUME IInv, NEW c \in Cleaners, cleaner[c].at # "idle",
           NEW sealed \in Terminal \cup {"none"}, NEW path \in BOOLEAN,
           Delete(c, sealed, path)
    PROVE  \E next : /\ Sound(next) /\ next.session = cleaner[c].session
                     /\ cleaner' = [cleaner EXCEPT ![c] = next]
<1> DEFINE next == [cleaner[c] EXCEPT !.at = "delete", !.sealed = sealed, !.path = path]
<1>1. cleaner[c] \in CleanerRecord /\ Sound(cleaner[c])
  BY SoundNow DEF Sound
<1>2. next \in CleanerRecord
  BY <1>1 DEF CleanerRecord
<1>3. /\ next.session = cleaner[c].session /\ next.now = cleaner[c].now
      /\ next.todo = cleaner[c].todo
  BY <1>1 DEF CleanerRecord
<1>4. Sound(next)
  BY <1>1, <1>2, <1>3 DEF Sound
<1>5. cleaner \in [Cleaners -> CleanerRecord]
  BY DEF IInv, TypeOK
<1>6. cleaner' = [cleaner EXCEPT ![c] = next]
  BY <1>1, <1>5 DEF Delete, CleanerRecord
<1> QED
  BY <1>3, <1>4, <1>6

(* What a cleanup finds had begun, and has a later retention than its clock. *)
LEMMA FoundBegun ==
    ASSUME IInv, NEW s \in Sessions, NEW now \in Nat, Found(s, now)
    PROVE  row[s].status # "none" /\ s \notin Pruned(s, now) /\ s \in kept
<1>1. row[s].retain \in Nat /\ row[s].retain > now /\ s \in kept
  BY Fields DEF IInv, TypeOK, Found
<1>2. row[s] # NoRow
  BY <1>1 DEF NoRow
<1> QED
  BY <1>1, <1>2 DEF IInv, Fresh, Pruned

(* The steps of prepareCleanup that leave the row alone *)
LEMMA PreparedKeeps ==
    ASSUME IInv, NEW c \in Cleaners, NEW s \in Sessions, NEW now \in Nat,
           now <= clock \/ s \in Condemned,
           UNCHANGED <<clock, row, blobs, faults>>,
           kept' = kept \ Pruned(s, now),
           ledger' \in [Sessions -> Nat],
           \A x \in Sessions : row[x].status = "none" => ledger'[x] = ledger[x],
           NEW next, Sound(next), cleaner' = [cleaner EXCEPT ![c] = next],
           next.at \in {"delete", "finalize"} => Over(next.session)'
    PROVE  IInv'
<1>1. /\ clock' = clock /\ files' = files /\ seen' = seen /\ row' = row
  BY DEF blobs
<1>2. TypeOK
  BY DEF IInv
<1>3. /\ kept' \subseteq kept
      /\ \A x \in kept \ kept' : ~Tame \/ x \in Condemned \/ row[x].retain <= clock
  BY <1>2, PrunedLate
<1>4. \A x \in Sessions : Over(x) => Over(x)'
  BY <1>1, <1>3 DEF Over
<1>5. /\ cleaner' \in [Cleaners -> CleanerRecord]
      /\ \A d \in Cleaners : cleaner'[d].at # "idle" => cleaner'[d].session \in Sessions
      /\ OnTime' /\ Cleaning'
  BY <1>1, <1>4, CleanerKeeps
<1> USE DEF IInv
<1>6. TypeOK'
  BY <1>1, <1>3, <1>5 DEF TypeOK
<1>7. Fresh'
  BY <1>1 DEF Fresh
<1>8. Deleted' /\ Committed'
  BY <1>1, <1>4 DEF Deleted, Committed
<1>9. Retained'
  BY <1>1 DEF Retained, Active
<1>10. \A x \in Sessions : row[x].retain \in Nat
  BY Fields DEF TypeOK
<1>11. Held'
  BY <1>1, <1>3, <1>10 DEF Held, Active, TypeOK
<1> QED
  BY <1>5, <1>6, <1>7, <1>8, <1>9, <1>11

LEMMA PrepareKeeps ==
    ASSUME IInv, NEW c \in Cleaners, Prepare(c)
    PROVE  IInv'
<1>4. cleaner[c].at = "prepare" /\ cleaner[c].at # "idle"
  BY DEF Prepare
<1>2. Sound(cleaner[c]) /\ clock \in Nat /\ Sound(Onward(c))
      /\ Onward(c).at \in {"idle", "prepare"}
  BY <1>4, SoundNow, OnwardSound
<1>10. cleaner[c].session \in Sessions /\ cleaner[c].now \in Nat
  BY <1>2, <1>4, CleanerFields DEF Sound
<1>11. PICK s \in Sessions, now \in Nat : s = cleaner[c].session /\ now = cleaner[c].now
  BY <1>10
<1>1. /\ PrepareAbsent(c, s, now) \/ PrepareDefer(c, s, now) \/ PrepareSeal(c, s, now)
      /\ UNCHANGED <<clock, blobs, faults>>
  BY <1>11 DEF Prepare
<1>3. s \in Sessions /\ now \in Nat /\ (now <= clock \/ s \in Condemned)
  BY <1>2, <1>4, <1>11 DEF Sound
<1>5. TypeOK /\ ledger \in [Sessions -> Nat]
  BY DEF IInv, TypeOK
<1>6. row[s] \in RowRecord /\ row[s].expiresAt \in Nat /\ row[s].lease \in Nat
      /\ row[s].retain \in Nat /\ row[s].path \in BOOLEAN
      /\ row[s].status \in Statuses \cup {"none"}
  BY <1>3, <1>5, Fields DEF TypeOK
<1>7. CASE PrepareAbsent(c, s, now)
<2>1. /\ ~Found(s, now) /\ kept' = kept \ Pruned(s, now)
      /\ UNCHANGED <<row, ledger>>
      /\ IF ledger[s] = 0 THEN After(c) ELSE Delete(c, "none", TRUE)
  BY <1>7 DEF PrepareAbsent
<2>2. CASE ledger[s] = 0
<3>1. cleaner' = [cleaner EXCEPT ![c] = Onward(c)]
  BY <2>1, <2>2 DEF After
<3>2. Onward(c).at \notin {"delete", "finalize"}
  BY <1>2
<3> HIDE DEF Onward
<3> QED
  BY <1>1, <1>2, <1>3, <1>5, <2>1, <3>1, <3>2, PreparedKeeps
<2>3. CASE ledger[s] # 0
<3>1. PICK next : /\ Sound(next) /\ next.session = cleaner[c].session
                  /\ cleaner' = [cleaner EXCEPT ![c] = next]
<4>1. Delete(c, "none", TRUE)
  BY <2>1, <2>3
<4> QED
  BY <1>4, <4>1, DeleteSound
<3>2. row[s].status # "none"
  BY <1>3, <2>3 DEF IInv, Fresh
<3>3. s \notin kept'
  BY <1>3, <1>6, <2>1 DEF Pruned, Found
<3>4. Over(s)'
  BY <2>1, <3>2, <3>3 DEF Over
<3>5. next.session = s
  BY <3>1, <1>11
<3>6. Over(next.session)'
  BY <3>4, <3>5
<3> QED
  BY <1>1, <1>2, <1>3, <1>5, <2>1, <3>1, <3>6, PreparedKeeps
<2> QED
  BY <2>2, <2>3
<1>8. CASE PrepareDefer(c, s, now)
<2>1. /\ Found(s, now) /\ kept' = kept \ Pruned(s, now) /\ UNCHANGED row
      /\ ledger' = [ledger EXCEPT ![s] = IF row[s].path THEN RetryAt(row[s]) ELSE @]
      /\ cleaner' = [cleaner EXCEPT ![c] = Onward(c)]
  BY <1>8 DEF PrepareDefer, After
<2>2. RetryAt(row[s]) \in Nat
  BY <1>6 DEF RetryAt, Later
<2>3. ledger' \in [Sessions -> Nat] /\ \A x \in Sessions \ {s} : ledger'[x] = ledger[x]
  BY <1>5, <2>1, <2>2
<2>4. row[s].status # "none"
  BY <1>3, <2>1, FoundBegun
<2>5. \A x \in Sessions : row[x].status = "none" => ledger'[x] = ledger[x]
  BY <2>3, <2>4
<2>6. Onward(c).at \notin {"delete", "finalize"}
  BY <1>2
<2> QED
  BY <1>1, <1>2, <1>3, <2>1, <2>3, <2>5, <2>6, PreparedKeeps
<1>9. CASE PrepareSeal(c, s, now)
<2> DEFINE status == IF row[s].status \in Terminal THEN row[s].status
                     ELSE SealStatus(row[s].status)
           retain == Later(row[s].retain, now + Retention)
           due == Later(now, row[s].expiresAt)
           new == [row[s] EXCEPT !.status = status, !.retain = retain]
<2>1. /\ Found(s, now) /\ kept' = kept \ Pruned(s, now)
      /\ Delete(c, status, row[s].path)
      /\ ledger' = [ledger EXCEPT ![s] = IF @ = 0 /\ row[s].path THEN due ELSE @]
  BY <1>9 DEF PrepareSeal
<2>2. row' = [row EXCEPT ![s].status = status, ![s].retain = retain]
  BY <1>9 DEF PrepareSeal
<2>3. status \in Terminal /\ status \in Statuses
  BY <1>6 DEF SealStatus, Terminal, Statuses
<2>4. retain \in Nat /\ due \in Nat
  BY <1>3, <1>6, RowsAssumption DEF Later
<2> HIDE DEF status, retain, due
<2>5. row' = [row EXCEPT ![s] = new]
  BY <1>3, <1>5, <1>6, <2>2 DEF TypeOK, RowRecord
<2>6. new \in RowRecord /\ new.status = status
  BY <1>6, <2>3, <2>4 DEF RowRecord
<2> HIDE DEF new
<2>7. /\ row'[s] = new /\ row' \in [Sessions -> RowRecord]
      /\ \A x \in Sessions \ {s} : row'[x] = row[x]
  BY <1>3, <1>5, <2>5, <2>6 DEF TypeOK
<2>8. ledger' \in [Sessions -> Nat] /\ \A x \in Sessions \ {s} : ledger'[x] = ledger[x]
  BY <1>3, <1>5, <2>1, <2>4
<2>9. row[s].status # "none" /\ new.status # "none"
  BY <1>3, <2>1, <2>3, <2>6, FoundBegun DEF Terminal
<2>10. /\ kept' \subseteq kept
       /\ \A x \in kept \ kept' : ~Tame \/ x \in Condemned \/ row[x].retain <= clock
  BY <1>3, <1>5, <2>1, PrunedLate
<2>11. /\ clock' = clock /\ files' = files /\ seen' = seen
  BY <1>1 DEF blobs
<2>12. Over(s)'
  BY <2>3, <2>6, <2>7, <2>9 DEF Over
<2>13. \A x \in Sessions : Over(x) => Over(x)'
<3> SUFFICES ASSUME NEW x \in Sessions, Over(x) PROVE Over(x)'
  OBVIOUS
<3>1. CASE x = s
  BY <2>12, <3>1
<3>2. CASE x # s
  BY <2>7, <2>10, <3>2 DEF Over
<3> QED
  BY <3>1, <3>2
<2>14. PICK next : /\ Sound(next) /\ next.session = cleaner[c].session
                   /\ cleaner' = [cleaner EXCEPT ![c] = next]
  BY <1>4, <1>6, <2>1, <2>3, DeleteSound
<2>15. Over(next.session)'
<3>1. next.session = s
  BY <2>14, <1>11
<3> QED
  BY <2>12, <3>1
<2>16. /\ cleaner' \in [Cleaners -> CleanerRecord]
       /\ \A d \in Cleaners : cleaner'[d].at # "idle" => cleaner'[d].session \in Sessions
       /\ OnTime' /\ Cleaning'
  BY <2>11, <2>13, <2>14, <2>15, CleanerKeeps
<2> USE DEF IInv
<2>17. TypeOK'
  BY <2>7, <2>8, <2>10, <2>11, <2>16 DEF TypeOK
<2>18. Fresh'
  BY <2>7, <2>8, <2>9, <2>11 DEF Fresh
<2>19. Deleted'
  BY <2>11, <2>13 DEF Deleted
<2>20. Committed'
<3>1. new.status \notin {"uploaded"} \cup Processing
  BY <2>3, <2>6 DEF Terminal, Processing
<3> QED
  BY <2>7, <2>11, <3>1 DEF Committed
<2>21. Retained'
  BY <2>3, <2>6, <2>7 DEF Retained, Active
<2>22. Held'
<3> SUFFICES ASSUME Tame, NEW x \in Sessions \ Condemned, Active(x)',
                    clock' < row'[x].retain
             PROVE  x \in kept'
  BY DEF Held
<3>1. x # s
  BY <2>3, <2>6, <2>7 DEF Active
<3>2. x \in kept
  BY <3>1, <2>7, <2>11 DEF Held, Active
<3>3. ~(row[x].retain <= clock)
  BY <3>1, <1>2, <2>7, <2>11, Fields DEF TypeOK
<3> QED
  BY <3>2, <3>3, <2>10
<2> QED
  BY <2>16, <2>17, <2>18, <2>19, <2>20, <2>21, <2>22
<1> QED
  BY <1>1, <1>7, <1>8, <1>9

(* A step that leaves the rows alone, and takes at most what is over *)
LEMMA CleanedKeeps ==
    ASSUME IInv, NEW c \in Cleaners, NEW s,
           UNCHANGED <<clock, row, seen>>,
           files' \subseteq files, kept' \subseteq kept,
           s \in Sessions => Over(s),
           files \ files' \subseteq {s},
           \A x \in kept \ kept' : x = s \/ row[x].retain <= clock,
           ledger' \in [Sessions -> Nat],
           \A x \in Sessions \ {s} : ledger'[x] = ledger[x],
           NEW next, Sound(next), cleaner' = [cleaner EXCEPT ![c] = next],
           next.at \in {"delete", "finalize"} => next.session = s /\ s \in Sessions
    PROVE  IInv'
<1> USE DEF IInv
<1>1. clock' = clock /\ seen' = seen /\ row' = row
  OBVIOUS
<1>2. \A x \in Sessions : Over(x) => Over(x)'
  BY <1>1 DEF Over
<1>3. next.at \in {"delete", "finalize"} => Over(next.session)'
<2> SUFFICES ASSUME next.at \in {"delete", "finalize"} PROVE Over(next.session)'
  OBVIOUS
<2>1. next.session = s /\ Over(s) /\ s \in Sessions
  OBVIOUS
<2> QED
  BY <1>2, <2>1
<1>4. /\ cleaner' \in [Cleaners -> CleanerRecord]
      /\ \A d \in Cleaners : cleaner'[d].at # "idle" => cleaner'[d].session \in Sessions
      /\ OnTime' /\ Cleaning'
  BY <1>1, <1>2, <1>3, CleanerKeeps
<1>5. TypeOK'
  BY <1>1, <1>4 DEF TypeOK
<1>6. Fresh'
  BY <1>1 DEF Fresh, Over
<1>7. Deleted' /\ Committed'
  BY <1>1, <1>2 DEF Deleted, Committed
<1>8. Retained'
  BY <1>1 DEF Retained, Active
<1>9. Held'
<2> SUFFICES ASSUME Tame, NEW x \in Sessions \ Condemned, Active(x)',
                    clock' < row'[x].retain
             PROVE  x \in kept'
  BY DEF Held
<2>1. Active(x) /\ clock < row[x].retain
  BY <1>1 DEF Active
<2>2. x \in kept
  BY <2>1 DEF Held
<2>3. ~(row[x].retain <= clock)
  BY <2>1, Fields DEF TypeOK
<2>4. x # s
  BY <2>1, <2>2 DEF Active, Over
<2> QED
  BY <2>2, <2>3, <2>4
<1> QED
  BY <1>4, <1>5, <1>6, <1>7, <1>8, <1>9

LEMMA DeleteBlobKeeps ==
    ASSUME IInv, NEW c \in Cleaners, DeleteBlob(c)
    PROVE  IInv'
<1>1. cleaner[c].at = "delete" /\ cleaner[c].at # "idle"
  BY DEF DeleteBlob
<1>2. Sound(cleaner[c]) /\ Sound(Onward(c)) /\ Onward(c).at \in {"idle", "prepare"}
  BY <1>1, SoundNow, OnwardSound
<1>3. PICK s \in Sessions : s = cleaner[c].session
  BY <1>1, <1>2 DEF Sound
<1>4. Over(s)
  BY <1>1, <1>3 DEF IInv, Cleaning
<1>5. /\ row' = row /\ kept' = kept /\ ledger' = ledger /\ clock' = clock /\ seen' = seen
      /\ UNCHANGED <<clock, row, seen>>
  BY DEF DeleteBlob, store
<1>6. ledger \in [Sessions -> Nat] /\ cleaner \in [Cleaners -> CleanerRecord]
  BY DEF IInv, TypeOK
<1>7. CASE cleaner[c].path /\ s \in Stuck
<2>1. files' = files /\ cleaner' = [cleaner EXCEPT ![c] = Onward(c)]
  BY <1>3, <1>7 DEF DeleteBlob, After
<2>2. Onward(c).at \notin {"delete", "finalize"}
  BY <1>2
<2> QED
  BY <1>2, <1>4, <1>5, <1>6, <2>1, <2>2, CleanedKeeps
<1>8. CASE ~(cleaner[c].path /\ s \in Stuck)
<2> DEFINE next == [cleaner[c] EXCEPT !.at = "finalize"]
<2>1. /\ files' \subseteq files /\ files \ files' \subseteq {s}
      /\ cleaner' = [cleaner EXCEPT ![c].at = "finalize"]
  BY <1>3, <1>8 DEF DeleteBlob
<2>2. cleaner[c] \in CleanerRecord
  BY <1>2 DEF Sound
<2>3. next \in CleanerRecord /\ next.session = cleaner[c].session
      /\ next.now = cleaner[c].now /\ next.todo = cleaner[c].todo
  BY <2>2 DEF CleanerRecord
<2>4. cleaner' = [cleaner EXCEPT ![c] = next]
  BY <1>6, <2>1
<2>5. Sound(next) /\ next.session = s
  BY <1>1, <1>2, <1>3, <2>3 DEF Sound
<2> HIDE DEF next
<2> QED
  BY <1>4, <1>5, <1>6, <2>1, <2>4, <2>5, CleanedKeeps
<1> QED
  BY <1>7, <1>8

LEMMA FinalizeKeeps ==
    ASSUME IInv, NEW c \in Cleaners, FinalizeCleanup(c)
    PROVE  IInv'
<1>1. cleaner[c].at = "finalize" /\ cleaner[c].at # "idle"
  BY DEF FinalizeCleanup
<1>2. Sound(Onward(c)) /\ Onward(c).at \notin {"delete", "finalize"}
  BY <1>1, OnwardSound
<1>3. PICK s \in Sessions : s = cleaner[c].session
  BY <1>1, SoundNow DEF Sound
<1>4. Over(s)
  BY <1>1, <1>3 DEF IInv, Cleaning
<1>5. ledger \in [Sessions -> Nat]
  BY DEF IInv, TypeOK
<1>6. /\ UNCHANGED <<clock, row, seen>> /\ files' = files
      /\ kept' \subseteq kept /\ kept \ kept' \subseteq {s}
      /\ ledger' \in [Sessions -> Nat] /\ \A x \in Sessions \ {s} : ledger'[x] = ledger[x]
      /\ cleaner' = [cleaner EXCEPT ![c] = Onward(c)]
  BY <1>3, <1>5 DEF FinalizeCleanup, After, blobs
<1>7. PICK next : next = Onward(c)
  OBVIOUS
<1>8. Sound(next) /\ next.at \notin {"delete", "finalize"}
  BY <1>2, <1>7
<1>9. cleaner' = [cleaner EXCEPT ![c] = next]
  BY <1>6, <1>7
<1>10. \A x \in kept \ kept' : x = s \/ row[x].retain <= clock
  BY <1>6
<1>11. files' \subseteq files /\ files \ files' \subseteq {s} /\ kept' \subseteq kept
  BY <1>6
<1> QED
  BY <1>4, <1>6, <1>8, <1>9, <1>10, <1>11, CleanedKeeps

LEMMA BeginKeeps ==
    ASSUME IInv, NEW c \in Cleaners, NEW s \in Sessions, NEW now \in Nat,
           now <= clock \/ s \in Condemned, Begin(c, s, now)
    PROVE  IInv'
<1> DEFINE next == [Idle EXCEPT !.at = "prepare", !.session = s, !.now = now]
<1>1. next \in CleanerRecord
  BY EmptySeq DEF Idle, CleanerRecord
<1>2. next.at = "prepare" /\ next.session = s /\ next.now = now /\ next.todo = <<>>
  BY DEF Idle
<1>3. /\ UNCHANGED <<clock, row, seen>> /\ files' = files /\ kept' = kept
      /\ ledger' = ledger /\ cleaner' = [cleaner EXCEPT ![c] = next]
  BY DEF Begin, store, blobs
<1> HIDE DEF next
<1>4. clock \in Nat /\ ledger \in [Sessions -> Nat]
  BY DEF IInv, TypeOK
<1>5. Sound(next)
  BY <1>1, <1>2, <1>4 DEF Sound
<1>6. PICK nobody : nobody \notin Sessions
  BY RowsAssumption
<1> QED
  BY <1>2, <1>3, <1>4, <1>5, <1>6, CleanedKeeps

LEMMA SweepKeeps ==
    ASSUME IInv, NEW c \in Cleaners, Sweep(c)
    PROVE  IInv'
<1>14. PICK n \in 1..Limit : \E list \in [1..n -> Due] :
          cleaner' = [cleaner EXCEPT ![c] =
               [Idle EXCEPT !.at = "prepare", !.session = list[1], !.now = clock,
                            !.todo = Tail(list)]]
  BY DEF Sweep
<1>1. PICK list \in [1..n -> Due] :
          cleaner' = [cleaner EXCEPT ![c] =
               [Idle EXCEPT !.at = "prepare", !.session = list[1], !.now = clock,
                            !.todo = Tail(list)]]
  BY <1>14
<1>2. /\ UNCHANGED <<clock, row, seen>> /\ files' = files /\ ledger' = ledger
      /\ kept' = {s \in kept : row[s].retain > clock}
  BY DEF Sweep, blobs
<1>3. n \in Nat /\ n >= 1 /\ Due \subseteq Sessions
  BY RowsAssumption DEF Due
<1>4. list \in Seq(Sessions) /\ list # <<>>
<2>1. list \in Seq(Sessions) /\ Len(list) = n
  BY <1>3, SeqDef
<2> QED
  BY <1>3, <2>1
<1>5. list[1] \in Sessions /\ Tail(list) \in Seq(Sessions)
  BY <1>3, <1>4, HeadTailProperties
<1> DEFINE first == list[1]
           rest == Tail(list)
           next == [Idle EXCEPT !.at = "prepare", !.session = first, !.now = clock,
                                !.todo = rest]
<1> HIDE DEF first, rest
<1>6. first \in Sessions /\ rest \in Seq(Sessions)
  BY <1>5 DEF first, rest
<1>7. clock \in Nat /\ ledger \in [Sessions -> Nat] /\ TypeOK
  BY DEF IInv, TypeOK
<1>8. next \in CleanerRecord
  BY <1>6, <1>7 DEF Idle, CleanerRecord
<1>9. next.at = "prepare" /\ next.session = first /\ next.now = clock
  BY DEF Idle
<1>10. cleaner' = [cleaner EXCEPT ![c] = next]
  BY <1>1 DEF first, rest
<1> HIDE DEF next
<1>11. Sound(next)
  BY <1>6, <1>7, <1>8, <1>9 DEF Sound
<1>12. PICK nobody : nobody \notin Sessions
  BY RowsAssumption
<1>13. \A x \in kept \ kept' : row[x].retain <= clock
  BY <1>2, <1>7, Fields DEF TypeOK
<1> QED
  BY <1>2, <1>7, <1>9, <1>10, <1>11, <1>12, <1>13, CleanedKeeps

LEMMA DieKeeps ==
    ASSUME IInv, NEW c \in Cleaners, Die(c)
    PROVE  IInv'
<1>1. /\ UNCHANGED <<clock, row, seen>> /\ files' = files /\ kept' = kept
      /\ ledger' = ledger /\ cleaner' = [cleaner EXCEPT ![c] = Idle]
  BY DEF Die, store, blobs
<1>2. ledger \in [Sessions -> Nat]
  BY DEF IInv, TypeOK
<1>3. Sound(Idle) /\ Idle.at = "idle"
  BY IdleSound
<1>4. PICK nobody : nobody \notin Sessions
  BY RowsAssumption
<1> QED
  BY <1>1, <1>2, <1>3, <1>4, CleanedKeeps

LEMMA NextKeeps ==
    ASSUME IInv, [Next]_vars
    PROVE  IInv'
<1>1. CASE UNCHANGED vars
  BY <1>1, PruningKeeps DEF vars, store, blobs
<1>2. ASSUME NEW s \in Sessions, Create(s) \/ Request(s) \/ Get(s) \/ Put(s)
      PROVE  IInv'
  BY <1>2, CreateKeeps, RequestKeeps, GetKeeps, PutKeeps
<1>3. ASSUME NEW c \in Cleaners, Clean(c)
      PROVE  IInv'
  BY <1>3, PrepareKeeps, DeleteBlobKeeps, FinalizeKeeps DEF Clean
<1>4. ASSUME NEW c \in Workers, Sweep(c) \/ Die(c)
      PROVE  IInv'
  BY <1>4, SweepKeeps, DieKeeps, RowsAssumption
<1>5. ASSUME NEW c \in Cleaners \ Workers, NEW s \in Sessions,
             Targeted(c, s) \/ Forced(c, s)
      PROVE  IInv'
<2>1. clock \in Nat /\ row[s].expiresAt \in Nat /\ row[s].lease \in Nat
  BY Fields DEF IInv, TypeOK
<2>2. CASE Targeted(c, s)
<3>1. PICK now \in Nat : now = clock
  BY <2>1
<3> QED
  BY <2>2, <3>1, BeginKeeps DEF Targeted
<2>3. CASE Forced(c, s)
<3>1. PICK now \in Nat : now = Later(clock, Later(row[s].expiresAt, row[s].lease))
  BY <2>1 DEF Later
<3>2. Begin(c, s, now) /\ s \in Condemned
  BY <2>3, <3>1 DEF Forced
<3> QED
  BY <3>2, BeginKeeps
<2> QED
  BY <1>5, <2>2, <2>3
<1> QED
  BY <1>1, <1>2, <1>3, <1>4, <1>5, TickKeeps DEF Next

LEMMA Invariance == Spec => []IInv
<1>1. Init => IInv
  BY InitInvariant
<1>2. IInv /\ [Next]_vars => IInv'
  BY NextKeeps
<1> QED
  BY <1>1, <1>2, PTL DEF Spec

---------------------------------------------------------------------------
(* What follows *)

(* A session that goes on keeps its row and its committed ciphertext until *)
(* deadline and lease are over, whatever cleanups are late, forced on      *)
(* others or die, and whatever others prune: in PostgreSQL always, and in  *)
(* memory as long as no cleanup is forced.  (retentionDeadline,            *)
(* prepareCleanup, pruneState)                                             *)
THEOREM RowsKept == ASSUME Tame PROVE Spec => []SessionKept
<1>1. IInv => SessionKept
<2> SUFFICES ASSUME IInv, NEW s \in Sessions \ Condemned, Active(s),
                    clock < RetryAt(row[s])
             PROVE  /\ s \in kept
                    /\ row[s].status \in {"uploaded"} \cup Processing => s \in files
  BY DEF SessionKept, Active
<2>1. row[s].expiresAt \in Nat /\ row[s].lease \in Nat /\ clock \in Nat
  BY Fields DEF IInv, TypeOK
<2>2. row[s].retain = Later(row[s].expiresAt, row[s].lease) + Retention
  BY DEF IInv, Retained
<2>3. clock < row[s].retain
  BY <2>1, <2>2, RowsAssumption DEF RetryAt, Later
<2>4. s \in kept
  BY <2>3, Tame DEF IInv, Held
<2>5. ~Over(s)
  BY <2>4 DEF Active, Over
<2>6. ASSUME row[s].status \in {"uploaded"} \cup Processing PROVE s \in files
  BY <2>5, <2>6 DEF IInv, Committed, Deleted
<2> QED
  BY <2>4, <2>6
<1> QED
  BY <1>1, Invariance, PTL

---------------------------------------------------------------------------
(* Each row goes through the life cycle *)

LEMMA SameTable ==
    ASSUME NEW s, NEW from, NEW to
    PROVE  Life(s)!CanTransition(from, to) <=> CanTransition(from, to)
  BY DEF Life!CanTransition, Life!Successors, CanTransition, Successors

(* What a step may do to a row that has begun *)
Moves(s) ==
    LET old == row[s]
        new == row'[s]
    IN \/ /\ new.status = old.status
          /\ new.phone = old.phone /\ new.etag = old.etag /\ new.reader = old.reader
       \/ /\ CanTransition(old.status, new.status)
          /\ new.status = "claimed" => new.phone \in Phones
          /\ new.status = "uploaded" => new.etag = Cipher
          /\ new.status = "consumed" => new.reader \in Readers
          /\ new.status # "claimed" => new.phone = old.phone
          /\ new.status # "uploaded" => new.etag = old.etag
          /\ new.status # "consumed" => new.reader = old.reader

LEMMA MovesLive ==
    ASSUME NEW s \in Sessions, IInv, Moves(s), row[s].status # "none",
           row'[s].status # "none"
    PROVE  [Life(s)!Next]_(Life(s)!vars)
<1> DEFINE old == row[s]
           new == row'[s]
<1>1. CASE /\ new.status = old.status
           /\ new.phone = old.phone /\ new.etag = old.etag /\ new.reader = old.reader
  BY <1>1 DEF Life!vars
<1>2. CASE /\ CanTransition(old.status, new.status)
           /\ new.status = "claimed" => new.phone \in Phones
           /\ new.status = "uploaded" => new.etag = Cipher
           /\ new.status = "consumed" => new.reader \in Readers
           /\ new.status # "claimed" => new.phone = old.phone
           /\ new.status # "uploaded" => new.etag = old.etag
           /\ new.status # "consumed" => new.reader = old.reader
<2>1. Life(s)!CanTransition(old.status, new.status)
  BY <1>2, SameTable
<2>2. new.status \in Statuses
  BY <1>2, Alive, Fields DEF IInv, TypeOK
<2>3. CASE new.status = "claimed"
  BY <1>2, <2>1, <2>3 DEF Life!Next, Life!Claim
<2>4. CASE new.status = "uploaded"
  BY <1>2, <2>1, <2>4 DEF Life!Next, Life!CommitUpload
<2>5. CASE new.status = "consumed"
  BY <1>2, <2>1, <2>5 DEF Life!Next, Life!Consume
<2>6. CASE new.status \notin {"claimed", "uploaded", "consumed"}
  BY <1>2, <2>1, <2>2, <2>6 DEF Life!Next, Life!Advance, Life!Statuses, Statuses
<2> QED
  BY <2>3, <2>4, <2>5, <2>6
<1> QED
  BY <1>1, <1>2 DEF Moves

(* What a request writes, its retention aside *)
LEMMA Written ==
    ASSUME IInv, NEW s \in Sessions, NEW t, NEW next \in RowRecord, Write(s, t, next)
    PROVE  /\ row'[s].status = next.status /\ row'[s].phone = next.phone
           /\ row'[s].etag = next.etag /\ row'[s].reader = next.reader
           /\ \A x \in Sessions \ {s} : row'[x] = row[x]
           /\ CanTransition(row[s].status, next.status)
           /\ row[s].status # "none" /\ next.status # "none"
<1> DEFINE deadline == RetentionDeadline(next)
<1>1. row' = [row EXCEPT ![s] = [next EXCEPT !.retain = deadline]]
      /\ CanTransition(row[s].status, next.status)
  BY DEF Write
<1> HIDE DEF deadline
<1>2. row \in [Sessions -> RowRecord] /\ row[s] \in RowRecord
  BY DEF IInv, TypeOK
<1>3. /\ row'[s] = [next EXCEPT !.retain = deadline]
      /\ \A x \in Sessions \ {s} : row'[x] = row[x]
  BY <1>1, <1>2
<1>4. /\ row'[s].status = next.status /\ row'[s].phone = next.phone
      /\ row'[s].etag = next.etag /\ row'[s].reader = next.reader
  BY <1>3 DEF RowRecord
<1>5. row[s].status # "none" /\ next.status # "none"
  BY <1>1, <1>2, Alive, Fields
<1> QED
  BY <1>1, <1>3, <1>4, <1>5

LEMMA WrittenLive ==
    ASSUME IInv, NEW s \in Sessions, NEW t, NEW next \in RowRecord, Write(s, t, next),
           IF next.status = "claimed" THEN next.phone \in Phones
                                      ELSE next.phone = row[s].phone,
           next.etag = IF next.status = "uploaded" THEN Cipher ELSE row[s].etag,
           IF next.status = "consumed" THEN next.reader \in Readers
                                       ELSE next.reader = row[s].reader
    PROVE  \A x \in Sessions : [Life(x)!Next]_(Life(x)!vars)
<1>1. Moves(s)
  BY Written DEF Moves
<1>2. row'[s].status # "none" /\ row[s].status # "none"
  BY Written
<1>3. [Life(s)!Next]_(Life(s)!vars)
  BY <1>1, <1>2, MovesLive
<1>4. ASSUME NEW x \in Sessions \ {s} PROVE [Life(x)!Next]_(Life(x)!vars)
<2>1. row'[x] = row[x]
  BY Written
<2> QED
  BY <2>1 DEF Life!vars
<1> QED
  BY <1>3, <1>4

LEMMA RequestLive ==
    ASSUME IInv, NEW s \in Sessions, Request(s)
    PROVE  \A x \in Sessions : [Life(x)!Next]_(Life(x)!vars)
<1>1. PICK t \in Recent :
          \/ \E p \in Phones : Claim(s, t, p)
          \/ AuthorizeUpload(s, t) \/ MarkUploading(s, t) \/ MarkUploaded(s, t)
          \/ \E c \in Readers : Consume(s, t, c)
          \/ Cancel(s, t)
          \/ \E to \in {"validating", "printing", "completed", "failed"} :
                Transition(s, t, to)
  BY DEF Request
<1>2. t \in Nat /\ row[s] \in RowRecord /\ row[s].lease \in Nat
  BY Fields DEF Recent, IInv, TypeOK
<1>3. ASSUME NEW p \in Phones, Claim(s, t, p)
      PROVE  \A x \in Sessions : [Life(x)!Next]_(Life(x)!vars)
<2> DEFINE next == [row[s] EXCEPT !.status = "claimed", !.phone = p,
                                  !.expiresAt = t + SessionTtl]
<2>1. next \in RowRecord /\ Write(s, t, next)
  BY <1>2, <1>3, NextRows DEF Claim
<2>2. /\ next.status = "claimed" /\ next.phone = p
      /\ next.etag = row[s].etag /\ next.reader = row[s].reader
  BY <1>2 DEF RowRecord
<2> HIDE DEF next
<2> QED
  BY <2>1, <2>2, WrittenLive
<1>4. CASE AuthorizeUpload(s, t)
<2> DEFINE next == [row[s] EXCEPT !.status = "upload_authorized", !.path = TRUE]
<2>1. next \in RowRecord /\ Write(s, t, next)
  BY <1>2, <1>4, NextRows DEF AuthorizeUpload
<2>2. /\ next.status = "upload_authorized" /\ next.phone = row[s].phone
      /\ next.etag = row[s].etag /\ next.reader = row[s].reader
  BY <1>2 DEF RowRecord
<2> HIDE DEF next
<2> QED
  BY <2>1, <2>2, WrittenLive
<1>5. ASSUME NEW to \in Statuses \ {"claimed", "uploaded", "consumed"},
             Write(s, t, [row[s] EXCEPT !.status = to])
      PROVE  \A x \in Sessions : [Life(x)!Next]_(Life(x)!vars)
<2> DEFINE next == [row[s] EXCEPT !.status = to]
<2>1. next \in RowRecord
  BY <1>2 DEF RowRecord
<2>2. /\ next.status = to /\ next.phone = row[s].phone
      /\ next.etag = row[s].etag /\ next.reader = row[s].reader
  BY <1>2 DEF RowRecord
<2>3. Write(s, t, next)
  BY <1>5
<2> HIDE DEF next
<2> QED
  BY <2>1, <2>2, <2>3, WrittenLive
<1>6. CASE MarkUploading(s, t)
  BY <1>5, <1>6 DEF MarkUploading, Statuses
<1>7. CASE Cancel(s, t)
  BY <1>5, <1>7 DEF Cancel, Statuses
<1>8. CASE MarkUploaded(s, t)
<2> DEFINE next == [row[s] EXCEPT !.status = "uploaded", !.etag = Cipher]
<2>1. next \in RowRecord /\ Write(s, t, next)
  BY <1>2, <1>8, NextRows DEF MarkUploaded
<2>2. /\ next.status = "uploaded" /\ next.phone = row[s].phone
      /\ next.etag = Cipher /\ next.reader = row[s].reader
  BY <1>2 DEF RowRecord
<2> HIDE DEF next
<2> QED
  BY <2>1, <2>2, WrittenLive
<1>9. ASSUME NEW c \in Readers, Consume(s, t, c)
      PROVE  \A x \in Sessions : [Life(x)!Next]_(Life(x)!vars)
<2> DEFINE next == [row[s] EXCEPT !.status = "consumed", !.reader = c,
                                  !.lease = t + Lease]
<2>1. next \in RowRecord /\ Write(s, t, next)
  BY <1>2, <1>9, NextRows DEF Consume
<2>2. /\ next.status = "consumed" /\ next.phone = row[s].phone
      /\ next.etag = row[s].etag /\ next.reader = c
  BY <1>2 DEF RowRecord
<2> HIDE DEF next
<2> QED
  BY <2>1, <2>2, WrittenLive
<1>10. ASSUME NEW to \in {"validating", "printing", "completed", "failed"},
              Transition(s, t, to)
       PROVE  \A x \in Sessions : [Life(x)!Next]_(Life(x)!vars)
<2> DEFINE lease == IF to \in Processing THEN t + Lease ELSE row[s].lease
           next == [row[s] EXCEPT !.status = to, !.lease = lease]
<2>1. Write(s, t, next)
  BY <1>10 DEF Transition
<2>2. lease \in Nat /\ to \in Statuses
  BY <1>2, RowsAssumption DEF Statuses
<2> HIDE DEF lease
<2>3. next \in RowRecord
  BY <1>2, <2>2 DEF RowRecord
<2>4. /\ next.status = to /\ next.phone = row[s].phone
      /\ next.etag = row[s].etag /\ next.reader = row[s].reader
  BY <1>2 DEF RowRecord
<2> HIDE DEF next
<2> QED
  BY <2>1, <2>3, <2>4, WrittenLive
<1> QED
  BY <1>1, <1>3, <1>4, <1>6, <1>7, <1>8, <1>9, <1>10

(* The published life cycle begins with the session, which waits. *)
LEMMA CreateLive ==
    ASSUME IInv, NEW s \in Sessions, Create(s)
    PROVE  \A x \in Sessions : [Life(x)!Next]_(Life(x)!vars)
<1> DEFINE new == [NoRow EXCEPT !.status = "waiting", !.expiresAt = clock + Ttl[s],
                                !.retain = clock + Ttl[s] + Retention]
<1>1. row' = [row EXCEPT ![s] = new] /\ row[s].status = "none"
  BY DEF Create
<1>2. row \in [Sessions -> RowRecord] /\ row[s] = NoRow
  BY <1>1 DEF IInv, TypeOK, Fresh
<1>3. row'[s] = new /\ \A x \in Sessions \ {s} : row'[x] = row[x]
  BY <1>1, <1>2
<1>4. new.status = "waiting" /\ new.phone = None /\ new.etag = None /\ new.reader = None
  BY DEF NoRow
<1>5. NoRow.status = "none" /\ NoRow.phone = None /\ NoRow.etag = None /\ NoRow.reader = None
  BY DEF NoRow
<1> HIDE DEF new
<1> QED
  BY <1>2, <1>3, <1>4, <1>5 DEF Life!vars

LEMMA PrepareLive ==
    ASSUME IInv, NEW c \in Cleaners, Prepare(c)
    PROVE  \A x \in Sessions : [Life(x)!Next]_(Life(x)!vars)
<1>1. cleaner[c].at # "idle"
  BY DEF Prepare
<1>2. cleaner[c].session \in Sessions /\ cleaner[c].now \in Nat
  BY <1>1, SoundNow, CleanerFields DEF Sound
<1>3. PICK s \in Sessions, now \in Nat : s = cleaner[c].session /\ now = cleaner[c].now
  BY <1>2
<1>4. PrepareAbsent(c, s, now) \/ PrepareDefer(c, s, now) \/ PrepareSeal(c, s, now)
  BY <1>3 DEF Prepare
<1>5. CASE row' = row
  BY <1>5 DEF Life!vars
<1>6. CASE PrepareSeal(c, s, now)
<2> DEFINE status == IF row[s].status \in Terminal THEN row[s].status
                     ELSE SealStatus(row[s].status)
           retain == Later(row[s].retain, now + Retention)
<2>1. row' = [row EXCEPT ![s].status = status, ![s].retain = retain]
      /\ Found(s, now)
  BY <1>6 DEF PrepareSeal
<2>2. row \in [Sessions -> RowRecord] /\ row[s] \in RowRecord
      /\ row[s].status \in Statuses \cup {"none"}
  BY Fields DEF IInv, TypeOK
<2>3. row[s].status # "none"
  BY <2>1, FoundBegun
<2>4. status = row[s].status \/ CanTransition(row[s].status, status)
  BY <2>2, <2>3 DEF SealStatus, CanTransition, Successors, Terminal, Statuses
<2>5. status \in Terminal
  BY DEF SealStatus, Terminal
<2>6. status # "none" /\ status \notin {"claimed", "uploaded", "consumed"}
  BY <2>5 DEF Terminal
<2> HIDE DEF status, retain
<2>7. /\ row'[s].status = status /\ row'[s].phone = row[s].phone
      /\ row'[s].etag = row[s].etag /\ row'[s].reader = row[s].reader
      /\ \A x \in Sessions \ {s} : row'[x] = row[x]
  BY <2>1, <2>2 DEF RowRecord
<2>8. Moves(s)
  BY <2>4, <2>6, <2>7 DEF Moves
<2>9. [Life(s)!Next]_(Life(s)!vars)
  BY <2>3, <2>6, <2>7, <2>8, MovesLive
<2>10. ASSUME NEW x \in Sessions \ {s} PROVE [Life(x)!Next]_(Life(x)!vars)
<3>1. row'[x] = row[x]
  BY <2>7
<3> QED
  BY <3>1 DEF Life!vars
<2> QED
  BY <2>9, <2>10
<1> QED
  BY <1>4, <1>5, <1>6 DEF PrepareAbsent, PrepareDefer

(* Each row of these stores implements the published life cycle: of any    *)
(* number of phones and kiosks one claims and one reads, and there is no   *)
(* way back from the end, with the requests, late cleanups and sweeps of   *)
(* any number of other sessions in between, forced or not.  (mutate, prepareCleanup,           *)
(* sweepDueOrphans)                                                        *)
THEOREM RowsImplementLifecycle == Spec => RowsFollowLifecycle
<1>1. Init => \A s \in Sessions : Life(s)!Init
  BY DEF Init, NoRow, Life!Init
<1>2. IInv /\ [Next]_vars => \A s \in Sessions : [Life(s)!Next]_(Life(s)!vars)
<2> SUFFICES ASSUME IInv, [Next]_vars
             PROVE  \A s \in Sessions : [Life(s)!Next]_(Life(s)!vars)
  OBVIOUS
<2>1. CASE row' = row
  BY <2>1 DEF Life!vars
<2>2. ASSUME NEW s \in Sessions, Create(s) \/ Request(s)
      PROVE  \A x \in Sessions : [Life(x)!Next]_(Life(x)!vars)
  BY <2>2, CreateLive, RequestLive
<2>3. ASSUME NEW c \in Cleaners, Prepare(c)
      PROVE  \A x \in Sessions : [Life(x)!Next]_(Life(x)!vars)
  BY <2>3, PrepareLive
<2>4. CASE UNCHANGED vars
  BY <2>4, <2>1 DEF vars
<2>5. ASSUME NEW s \in Sessions, Get(s) \/ Put(s)
      PROVE  row' = row
  BY <2>5 DEF Get, Put, store
<2>6. ASSUME NEW c \in Cleaners, DeleteBlob(c) \/ FinalizeCleanup(c)
      PROVE  row' = row
  BY <2>6 DEF DeleteBlob, FinalizeCleanup, store
<2>7. ASSUME NEW c, Sweep(c) \/ Die(c)
      PROVE  row' = row
  BY <2>7 DEF Sweep, Die, store
<2>8. ASSUME NEW c, NEW s \in Sessions, Targeted(c, s) \/ Forced(c, s)
      PROVE  row' = row
  BY <2>8 DEF Targeted, Forced, Begin, store
<2>9. Tick => row' = row
  BY DEF Tick, store
<2> QED
  BY <2>1, <2>2, <2>3, <2>4, <2>5, <2>6, <2>7, <2>8, <2>9 DEF Next, Clean
<1> QED
  BY <1>1, <1>2, Invariance, PTL DEF Spec, RowsFollowLifecycle
============================================================================
