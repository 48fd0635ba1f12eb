------------------------ MODULE HangulRenderProofs ------------------------
(***************************************************************************)
(* Proofs about HangulRender, for any number of renders that overlap, any  *)
(* Hancom of the staff and any number of starts of the kiosk.              *)
(*                                                                         *)
(* The decrypted document: whoever of print thread and worker comes last   *)
(* deletes it unless Hancom still holds it, and a Hancom that holds it     *)
(* after the worker asked it to quit did not listen (Held).  The staff:    *)
(* what a render takes for its own Hancom was not there before (Chosen).   *)
(***************************************************************************)
EXTENDS HangulRender, TLAPS

Callers == {"none", "running", "grace", "ended"}

Steps == {"none", "write", "writing", "create", "render", "quit", "delete",
          "done"}

Processes == Renders \cup Guests

(* The type of every variable. *)
TypeOK ==
    /\ caller \in [Renders -> Callers]
    /\ worker \in [Renders -> Steps]
    /\ before \in [Renders -> SUBSET Processes]
    /\ owned \in [Renders -> Processes \cup {None}]
    /\ hwp \subseteq Processes
    /\ open \subseteq Renders
    /\ folders \subseteq Renders
    /\ files \subseteq Renders
    /\ kiosk \in {"up", "down", "leaving"}
    /\ old \subseteq Renders
    /\ starts \in Nat
    /\ deaf \subseteq Renders
    /\ cut \subseteq Renders

(* A render that has not begun has no worker and no Hancom. *)
Unbegun ==
    \A r \in Renders : caller[r] = "none" => worker[r] = "none" /\ owned[r] = None

(* Hancom opens a document once its worker is past Open. *)
Opened == \A r \in open : worker[r] \in {"quit", "delete", "done"}

(* One that still has it when the worker deletes was deaf to Quit, or the  *)
(* kiosk's end spared it the call.                                         *)
Held ==
    \A r \in open \cap files :
        worker[r] \in {"delete", "done"} => r \in deaf \cup cut

(* Whom a render takes for its own came after it, in its session. *)
Chosen ==
    \A r \in Renders : owned[r] # None => owned[r] \notin before[r] \cup Elsewhere

IInv == Unbegun /\ Opened /\ Held /\ DocumentGone /\ Chosen

LEMMA IdentifiedFacts ==
    ASSUME TypeOK, Chosen, NEW r \in Renders
    PROVE  /\ Identified(r) \in Processes \cup {None}
           /\ Identified(r) # None => Identified(r) \notin before[r] \cup Elsewhere
<1>1. SelectOwned(r) = None \/ SelectOwned(r) \in Candidates(r)
  <2>1. CASE \E p \in Candidates(r) : Candidates(r) = {p}
    BY <2>1 DEF SelectOwned
  <2>2. CASE ~\E p \in Candidates(r) : Candidates(r) = {p}
    BY <2>2 DEF SelectOwned
  <2> QED
    BY <2>1, <2>2
<1> QED
  BY <1>1 DEF Candidates, Identified, TypeOK, Chosen

---------------------------------------------------------------------------
(* Types *)

LEMMA DeleteType ==
    ASSUME NEW r \in Renders, Delete(r)
    PROVE  /\ folders' \subseteq folders /\ files' \subseteq files
           /\ \A q \in Renders \ {r} : q \in files => q \in files'
           /\ r \in files' => r \in open \/ worker[r] = "writing"
BY DEF Delete, Writing

LEMMA PurgeType ==
    ASSUME PurgeAbandoned
    PROVE  /\ folders' \subseteq folders /\ files' \subseteq files
           /\ deaf' \subseteq deaf /\ cut' \subseteq cut
           /\ \A r \in files' : \/ worker[r] = "writing"
                                \/ /\ r \in deaf => r \in deaf'
                                   /\ r \in cut => r \in cut'
BY DEF PurgeAbandoned, Writing

LEMMA CutOffType ==
    ASSUME TypeOK, NEW rs \in SUBSET Renders, CutOff(rs)
    PROVE  /\ caller' \in [Renders -> Callers]
           /\ worker' \in [Renders -> Steps]
           /\ before' \in [Renders -> SUBSET Processes]
           /\ owned' \in [Renders -> Processes \cup {None}]
           /\ cut' \subseteq Renders
           /\ UNCHANGED <<hwp, open, folders, files, deaf>>
BY DEF CutOff, TypeOK, Callers, Steps, machine, disk

LEMMA RenderTypes ==
    ASSUME TypeOK, Chosen, NEW r \in Renders, Begin(r) \/ Work(r) \/ Watch(r)
    PROVE  TypeOK'
<1> USE DEF TypeOK, Callers, Steps
<1>1. CASE Begin(r)
  BY <1>1 DEF Begin, machine, system
<1>2. CASE CreateInput(r)
  BY <1>2 DEF CreateInput, GoTo, machine, system
<1>3. CASE Written(r)
  BY <1>3 DEF Written, GoTo, machine, disk, system
<1>4. CASE HwpStarts(r)
  BY <1>4 DEF HwpStarts, threads, disk, system, Processes
<1>5. CASE Created(r)
  BY <1>5, IdentifiedFacts DEF Created, GoTo, machine, disk, system
<1>6. CASE Render(r)
  BY <1>6 DEF Render, GoTo, disk, system
<1>7. CASE Quit(r)
  BY <1>7 DEF Quit, GoTo, disk, system, machine
<1>8. CASE WorkerDeletes(r)
  BY <1>8, DeleteType DEF WorkerDeletes, GoTo, machine, system
<1>9. CASE Finished(r)
  BY <1>9, DeleteType DEF Finished, Leaves, machine, system
<1>10. CASE GiveUp(r)
  BY <1>10, IdentifiedFacts DEF GiveUp, machine, disk, system
<1>11. CASE Drained(r)
  BY <1>11, DeleteType DEF Drained, Leaves, machine, system
<1> QED
  BY <1>1, <1>2, <1>3, <1>4, <1>5, <1>6, <1>7, <1>8, <1>9, <1>10, <1>11
     DEF Work, Watch

LEMMA KioskTypes ==
    ASSUME TypeOK, Crash \/ Start \/ Restart \/ Leave
    PROVE  TypeOK'
<1>1. Engaged \subseteq Renders /\ old \cap Engaged \subseteq Renders
  BY DEF Engaged
<1>2. CASE Crash
  BY <1>1, <1>2, CutOffType DEF Crash, TypeOK
<1>3. CASE Start
  BY <1>3, PurgeType DEF Start, TypeOK, threads, machine
<1>4. CASE Restart
  BY <1>1, <1>4, PurgeType DEF Restart, TypeOK, threads, machine
<1>5. CASE Leave
  BY <1>1, <1>5, CutOffType DEF Leave, TypeOK
<1> QED
  BY <1>2, <1>3, <1>4, <1>5

LEMMA OtherTypes ==
    ASSUME TypeOK, NEW p \in Processes, HwpEnds(p) \/ GuestStarts(p)
    PROVE  TypeOK'
BY DEF HwpEnds, GuestStarts, TypeOK, threads, disk, system

---------------------------------------------------------------------------
(* The document and the staff *)

LEMMA RenderKeeps ==
    ASSUME TypeOK, TypeOK', IInv, NEW r \in Renders,
           Begin(r) \/ Work(r) \/ Watch(r)
    PROVE  IInv'
<1> USE DEF TypeOK, Callers, Steps, IInv, Unbegun, Opened, Held, DocumentGone,
            Chosen
<1>1. CASE Begin(r)
  BY <1>1 DEF Begin, machine, system
<1>2. CASE CreateInput(r)
  BY <1>2 DEF CreateInput, GoTo, machine, system
<1>3. CASE Written(r)
  BY <1>3 DEF Written, GoTo, machine, disk, system
<1>4. CASE HwpStarts(r)
  BY <1>4 DEF HwpStarts, threads, disk, system
<1>5. CASE Created(r)
  BY <1>5, IdentifiedFacts DEF Created, GoTo, machine, disk, system
<1>6. CASE Render(r)
  BY <1>6 DEF Render, GoTo, disk, system
<1>7. CASE Quit(r)
  BY <1>7 DEF Quit, GoTo, disk, system, machine
<1>8. CASE WorkerDeletes(r)
  BY <1>8, DeleteType DEF WorkerDeletes, GoTo, machine, system
<1>9. CASE Finished(r)
  BY <1>9, DeleteType DEF Finished, Leaves, machine, system
<1>10. CASE GiveUp(r)
  BY <1>10, IdentifiedFacts DEF GiveUp, machine, disk, system
<1>11. CASE Drained(r)
  BY <1>11, DeleteType DEF Drained, Leaves, machine, system
<1> QED
  BY <1>1, <1>2, <1>3, <1>4, <1>5, <1>6, <1>7, <1>8, <1>9, <1>10, <1>11
     DEF Work, Watch

(* Threads that end with their process leave what they have to the cut. *)
LEMMA CutOffKeeps ==
    ASSUME TypeOK, IInv, NEW rs \in SUBSET Renders, CutOff(rs)
    PROVE  IInv'
<1>1. /\ UNCHANGED <<open, files, deaf>> /\ cut' = cut \cup (rs \cap files)
      /\ \A r \in Renders :
            IF r \in rs
            THEN caller'[r] = "ended" /\ worker'[r] = "done" /\ owned'[r] = None
            ELSE /\ caller'[r] = caller[r] /\ worker'[r] = worker[r]
                 /\ before'[r] = before[r] /\ owned'[r] = owned[r]
  BY DEF CutOff, machine, disk
<1> QED
  BY <1>1 DEF TypeOK, IInv, Unbegun, Opened, Held, DocumentGone, Chosen

LEMMA PurgeKeeps ==
    ASSUME TypeOK, IInv, PurgeAbandoned, UNCHANGED <<threads, machine>>
    PROVE  IInv'
<1>1. UNCHANGED <<caller, worker, before, owned, open>>
  BY DEF threads, machine
<1> QED
  BY <1>1, PurgeType
     DEF TypeOK, IInv, Unbegun, Opened, Held, DocumentGone, Chosen

LEMMA OtherKeeps ==
    ASSUME TypeOK, IInv, NEW p \in Processes, HwpEnds(p) \/ GuestStarts(p)
    PROVE  IInv'
BY DEF HwpEnds, GuestStarts, threads, disk, TypeOK, IInv, Unbegun, Opened,
       Held, DocumentGone, Chosen

LEMMA NextKeeps == TypeOK /\ IInv /\ [Next]_vars => TypeOK' /\ IInv'
<1> SUFFICES ASSUME TypeOK, IInv, [Next]_vars PROVE TypeOK' /\ IInv'
  OBVIOUS
<1>1. ASSUME NEW r \in Renders, Begin(r) \/ Work(r) \/ Watch(r)
      PROVE  TypeOK' /\ IInv'
  BY <1>1, RenderTypes, RenderKeeps DEF IInv
<1>2. ASSUME NEW p \in Processes, HwpEnds(p) \/ GuestStarts(p)
      PROVE  TypeOK' /\ IInv'
  BY <1>2, OtherTypes, OtherKeeps
<1>3. CASE Crash \/ Start \/ Restart \/ Leave
  <2>1. Engaged \subseteq Renders /\ old \cap Engaged \subseteq Renders
    BY DEF Engaged
  <2>2. IInv'
    BY <1>3, <2>1, CutOffKeeps, PurgeKeeps DEF Crash, Start, Restart, Leave
  <2> QED
    BY <1>3, <2>2, KioskTypes
<1>4. CASE UNCHANGED vars
  BY <1>4 DEF vars, threads, machine, disk, system, TypeOK, IInv, Unbegun,
              Opened, Held, DocumentGone, Chosen
<1> QED
  BY <1>1, <1>2, <1>3, <1>4 DEF Next, Processes

(* IInv: who still holds a document, and whom each render may stop. *)
THEOREM Ownership == Spec => [](TypeOK /\ IInv)
<1>1. Init => TypeOK /\ IInv
  BY DEF Init, TypeOK, Callers, Steps, IInv, Unbegun, Opened, Held,
         DocumentGone, Chosen
<1> QED
  BY <1>1, NextKeeps, PTL DEF Spec

(* DocumentGone: when print thread and worker of a render have ended, in   *)
(* whatever order, the decrypted document is deleted, but for a Hancom     *)
(* that does not quit or an end of the kiosk.                              *)
THEOREM DocumentIsGone == Spec => []DocumentGone
<1>1. IInv => DocumentGone
  BY DEF IInv
<1> QED
  BY <1>1, Ownership, PTL

(* StaffSpared: a render that is given up stops no Hancom of another       *)
(* session and none that ran before it began.                              *)
THEOREM StaffIsSpared == Spec => StaffSpared
<1> DEFINE Spares ==
      \A r \in Renders :
        GiveUp(r) => Guests \cap hwp \cap (Elsewhere \cup before[r]) \subseteq hwp'
<1>1. TypeOK /\ IInv => Spares
  <2> SUFFICES ASSUME TypeOK, IInv, NEW r \in Renders, GiveUp(r),
                      NEW g \in Guests \cap hwp \cap (Elsewhere \cup before[r])
               PROVE  g \in hwp'
    OBVIOUS
  <2>1. g # Identified(r)
    BY IdentifiedFacts, RenderAssumption DEF IInv
  <2> QED
    BY <2>1 DEF GiveUp, machine
<1> QED
  BY <1>1, Ownership, PTL DEF StaffSpared
===========================================================================
