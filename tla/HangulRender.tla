--------------------------- MODULE HangulRender ---------------------------
(***************************************************************************)
(* Rendering a Hangul document with Hancom Office on the kiosk: the print  *)
(* thread and its watchdog (HangulRenderWatchdog.cs), the worker thread    *)
(* that drives Hancom over COM (HancomHwpxRenderer.cs), the Hwp processes  *)
(* of the machine, and the work folders that hold the decrypted document   *)
(* (HancomWorkspace.cs, HancomPathPolicy.cs).                              *)
(*                                                                         *)
(* Hancom answers late, never or wrongly, a print that was given up leaves *)
(* its worker behind while the next one begins, staff run Hancom           *)
(* themselves, and the kiosk crashes or is restarted: the new process      *)
(* starts before the old one has ended.  A process is named after the      *)
(* render that asked for it; no identifier is used twice, as the code      *)
(* compares start times as well.                                           *)
(***************************************************************************)
EXTENDS Naturals, TLC

CONSTANTS
    Renders,
    Guests,     \* Hwp processes that staff start
    Elsewhere,  \* those of another logon session
    None,
    MaxStarts   \* bound: starts of the kiosk after the first

ASSUME RenderAssumption ==
    /\ Elsewhere \subseteq Guests
    /\ Guests \cap Renders = {} /\ None \notin Guests \cup Renders
    /\ MaxStarts \in Nat

VARIABLES
    caller,     \* the print thread of each render, in HangulRenderWatchdog.Run
    worker,     \* its worker thread, in RenderInJobDirectory
    before,     \* OwnedHancomProcess._before
    owned,      \* OwnedHancomProcess._owned
    hwp,        \* the Hwp processes that run
    open,       \* the renders whose Hwp holds the document open
    folders,    \* the job folders that exist
    files,      \* those with the decrypted document, or its PDF, in them
    kiosk,      \* "up", "down", or "leaving": the next one has started
    old,        \* the renders of the process that is leaving
    starts,
    deaf,       \* history: renders whose Hwp did not close the document at Quit
    cut         \* history: documents of renders cut off by the kiosk's end

threads == <<caller, worker, before, owned>>
machine == <<hwp, open>>
disk == <<folders, files>>
system == <<kiosk, old, starts>>
vars == <<threads, machine, disk, system, deaf, cut>>

Init ==
    /\ caller = [r \in Renders |-> "none"]
    /\ worker = [r \in Renders |-> "none"]
    /\ before = [r \in Renders |-> {}]
    /\ owned = [r \in Renders |-> None]
    /\ hwp = {} /\ open = {}
    /\ folders = {} /\ files = {}
    /\ kiosk = "up" /\ old = {} /\ starts = 0
    /\ deaf = {} /\ cut = {}

---------------------------------------------------------------------------
(* RenderToPdfAsync up to the start of the worker *)
Begin(r) ==
    /\ caller[r] = "none" /\ kiosk # "down"
    /\ caller' = [caller EXCEPT ![r] = "running"]
    /\ worker' = [worker EXCEPT ![r] = "write"]
    /\ before' = [before EXCEPT ![r] = hwp]
    /\ folders' = folders \cup {r}
    /\ UNCHANGED <<owned, machine, files, system, deaf, cut>>

AnyNew(r) == hwp \ before[r]  \* mutant: whoever is logged on
(* SelectOwned: the only new process of the kiosk's session, if it is one. *)
Candidates(r) == hwp \ (before[r] \cup Elsewhere)
SelectOwned(r) ==
    IF \E p \in Candidates(r) : Candidates(r) = {p}
    THEN CHOOSE p \in Candidates(r) : TRUE
    ELSE None

(* Identify, under the gate: nothing once it is disposed or settled *)
Identified(r) ==
    IF caller[r] = "ended" \/ owned[r] # None THEN owned[r] ELSE SelectOwned(r)

(* DeleteJobDirectory: a file that is being written stays, one that Hancom *)
(* has open may, and with it the folder.                                   *)
Writing == {r \in Renders : worker[r] = "writing"}
Delete(r) ==
    \E held \in SUBSET ({r} \cap open) :
        /\ folders' = folders \ ({r} \ (held \cup Writing))
        /\ files' = files \ ({r} \ (held \cup Writing))

---------------------------------------------------------------------------
(* RenderInJobDirectory, on the worker thread.  A file, Hancom or a check  *)
(* of the paths may fail at any step, and so does the check of the token   *)
(* once the print is cancelled: then only the finally clause is left.      *)

GoTo(r, step) == worker' = [worker EXCEPT ![r] = step]

CreateInput(r) ==
    /\ worker[r] = "write"
    /\ \/ r \in folders /\ files' = files \cup {r} /\ GoTo(r, "writing")
       \/ UNCHANGED files /\ GoTo(r, "delete")
    /\ UNCHANGED <<caller, before, owned, machine, folders, system, deaf, cut>>

Written(r) ==
    /\ worker[r] = "writing"
    /\ GoTo(r, "create") \/ GoTo(r, "delete")
    /\ UNCHANGED <<caller, before, owned, machine, disk, system, deaf, cut>>

(* Not running, nor known to a render from before *)
Fresh(p) == p \notin hwp /\ \A q \in Renders : p \notin before[q]

(* Activator.CreateInstance makes COM start the process, and waits. *)
HwpStarts(r) ==
    /\ worker[r] = "create" /\ Fresh(r)
    /\ hwp' = hwp \cup {r}
    /\ UNCHANGED <<threads, open, disk, system, deaf, cut>>

Created(r) ==
    /\ worker[r] = "create"
    /\ \/ /\ r \in hwp
          /\ owned' = [owned EXCEPT ![r] = Identified(r)]
          /\ GoTo(r, "render")
       \/ UNCHANGED owned /\ GoTo(r, "delete")
    /\ UNCHANGED <<caller, before, machine, disk, system, deaf, cut>>

(* RegisterModule, Open and, if Hancom opens the document, SaveAs: its PDF *)
(* is written to the same folder.                                          *)
Render(r) ==
    /\ worker[r] = "render"
    /\ \/ r \in hwp \cap files /\ open' = open \cup {r}
       \/ UNCHANGED open
    /\ GoTo(r, "quit")
    /\ UNCHANGED <<caller, before, owned, hwp, disk, system, deaf, cut>>

(* finally: Clear and Quit, whose failure is swallowed *)
Quit(r) ==
    /\ worker[r] = "quit"
    /\ \/ hwp' = hwp \ {r} /\ open' = open \ {r} /\ UNCHANGED deaf
       \/ r \in hwp /\ deaf' = deaf \cup ({r} \cap open) /\ UNCHANGED machine
    /\ GoTo(r, "delete")
    /\ UNCHANGED <<caller, before, owned, disk, system, cut>>

WorkerLeavesFolder(r) ==  \* mutant: left to the print thread
    /\ worker[r] = "delete"
    /\ GoTo(r, "done")
    /\ UNCHANGED <<caller, before, owned, machine, disk, system, deaf, cut>>
WorkerDeletes(r) ==
    /\ worker[r] = "delete"
    /\ Delete(r)
    /\ GoTo(r, "done")
    /\ UNCHANGED <<caller, before, owned, machine, system, deaf, cut>>

Work(r) ==
    \/ CreateInput(r) \/ Written(r) \/ HwpStarts(r) \/ Created(r) \/ Render(r)
    \/ Quit(r) \/ WorkerDeletes(r)

---------------------------------------------------------------------------
(* HangulRenderWatchdog.Run, on the print thread *)

(* The outer finally deletes once more, and Dispose forgets the process. *)
Leaves(r) ==
    /\ caller' = [caller EXCEPT ![r] = "ended"]
    /\ before' = [before EXCEPT ![r] = {}]
    /\ owned' = [owned EXCEPT ![r] = None]
    /\ UNCHANGED <<worker, machine, system, deaf, cut>>

(* The worker is done: its PDF or its exception is passed on. *)
Finished(r) == caller[r] = "running" /\ worker[r] = "done" /\ Delete(r) /\ Leaves(r)

(* The time limit, or the wait is cancelled; the worker may finish just    *)
(* then.  The token of a render that timed out is not cancelled: its       *)
(* worker goes on.  TryTerminate stops whom it takes for the render's Hwp, *)
(* unless Windows refuses.                                                 *)
GiveUp(r) ==
    /\ caller[r] = "running"
    /\ caller' = [caller EXCEPT ![r] = "grace"]
    /\ \/ hwp' = hwp \ {Identified(r)} /\ open' = open \ {Identified(r)}
       \/ UNCHANGED machine
    /\ owned' = [owned EXCEPT ![r] = Identified(r)]
    /\ UNCHANGED <<worker, before, disk, system, deaf, cut>>

(* The worker is done, or the grace is over. *)
Drained(r) == caller[r] = "grace" /\ Delete(r) /\ Leaves(r)

Watch(r) == Finished(r) \/ GiveUp(r) \/ Drained(r)

---------------------------------------------------------------------------
(* The kiosk's process *)

Engaged == {r \in Renders : caller[r] \notin {"none", "ended"}
                              \/ worker[r] \notin {"none", "done"}}

(* The threads of these renders end with their process, whatever they do.  *)
CutOff(rs) ==
    /\ caller' = [r \in Renders |-> IF r \in rs THEN "ended" ELSE caller[r]]
    /\ worker' = [r \in Renders |-> IF r \in rs THEN "done" ELSE worker[r]]
    /\ before' = [r \in Renders |-> IF r \in rs THEN {} ELSE before[r]]
    /\ owned' = [r \in Renders |-> IF r \in rs THEN None ELSE owned[r]]
    /\ cut' = cut \cup (rs \cap files)
    /\ UNCHANGED <<machine, disk, deaf>>

Crash ==
    /\ kiosk = "up" /\ starts < MaxStarts
    /\ kiosk' = "down"
    /\ CutOff(Engaged)
    /\ UNCHANGED <<old, starts>>

(* PurgeAbandoned: every folder but those still held *)
PurgeAbandoned ==
    \E held \in SUBSET open :
        /\ folders' = folders \cap (held \cup Writing)
        /\ files' = files \cap (held \cup Writing)
        /\ deaf' = deaf \cap held
        /\ cut' = cut \cap held

Start ==
    /\ kiosk = "down"
    /\ kiosk' = "up" /\ starts' = starts + 1
    /\ PurgeAbandoned
    /\ UNCHANGED <<threads, machine, old>>

(* OnRestart starts the next process before it shuts this one down. *)
Restart ==
    /\ kiosk = "up" /\ starts < MaxStarts
    /\ kiosk' = "leaving" /\ old' = Engaged /\ starts' = starts + 1
    /\ PurgeAbandoned
    /\ UNCHANGED <<threads, machine>>

Leave ==
    /\ kiosk = "leaving"
    /\ kiosk' = "up" /\ old' = {}
    /\ CutOff(old \cap Engaged)
    /\ UNCHANGED starts

---------------------------------------------------------------------------
(* Other processes *)

GuestStarts(g) ==
    /\ Fresh(g)
    /\ hwp' = hwp \cup {g}
    /\ UNCHANGED <<threads, open, disk, system, deaf, cut>>

(* Staff close it, or it crashes. *)
HwpEnds(p) ==
    /\ p \in hwp
    /\ hwp' = hwp \ {p} /\ open' = open \ {p}
    /\ UNCHANGED <<threads, disk, system, deaf, cut>>

Next ==
    \/ \E r \in Renders : Begin(r) \/ Work(r) \/ Watch(r) \/ HwpEnds(r)
    \/ \E g \in Guests : GuestStarts(g) \/ HwpEnds(g)
    \/ Crash \/ Start \/ Restart \/ Leave

Spec == Init /\ [][Next]_vars

Symmetry == Permutations(Renders)

---------------------------------------------------------------------------
(* Properties *)

(* When the print thread has given a render up, or has its PDF, the        *)
(* decrypted document lasts no longer than the worker: whoever comes last, *)
(* print thread, worker or Hancom, leaves nothing to the others that they  *)
(* have done already.  What a Hancom that ignores Quit or the end of the   *)
(* kiosk itself leaves behind, the next start removes.                     *)
(* (DeleteJobDirectory, PurgeAbandoned)                                    *)
DocumentGone ==
    \A r \in Renders : caller[r] = "ended" /\ r \in files =>
        worker[r] # "done" \/ r \in deaf \cup cut

(* A render that is given up never stops a Hancom of another session, nor  *)
(* one that staff ran before it began: also when its own Hancom starts     *)
(* late or never, when the Hancom of earlier renders come and go meanwhile *)
(* and when the kiosk has been restarted.  (SelectOwned, TryTerminate)     *)
StaffSpared ==
    [][\A r \in Renders :
        GiveUp(r) => Guests \cap hwp \cap (Elsewhere \cup before[r]) \subseteq hwp']_vars

(* "so a time-limited render stops only that process", the one it started  *)
(* (HancomProcessOwnership.cs:7).                                          *)
StopsItsOwn == [][\A r \in Renders : GiveUp(r) => hwp \ {r} \subseteq hwp']_vars

(* "The kiosk clears the folder on every start" (HancomWorkspace.cs:8),    *)
(* but for a folder still held open.                                       *)
StartClears == [][kiosk # "up" /\ kiosk' = "up" => cut' \subseteq open']_vars
============================================================================
