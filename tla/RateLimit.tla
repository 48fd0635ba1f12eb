----------------------------- MODULE RateLimit ----------------------------
(***************************************************************************)
(* The table of windows of server/rate-limit.ts, a Map: at most one window *)
(* per key and MaxWindows in all.  The place of a window is its turn in    *)
(* the Map's order of insertion, which a window set anew keeps.  Every     *)
(* call is synchronous, so each operator is one atomic step on the table   *)
(* of one instance.                                                        *)
(***************************************************************************)
EXTENDS Naturals, FiniteSets, FiniteSetsExt

CONSTANT MaxWindows  \* MAX_WINDOWS

ASSUME WindowsAssumption == MaxWindows \in Nat \ {0}

(* The window of a key, if it has one, and if that is not over. *)
Own(table, key) == {w \in table : w.key = key}
Running(table, key, now) == {w \in Own(table, key) : w.resetAt > now}

EvictsAny(w) == TRUE  \* mutant: the oldest goes, whatever it counts
Evictable(w) == w.count < w.limit

(* makeRoom: expired windows go, then the oldest that is under its limit.  *)
(* The table is never over its size, so one is enough.                     *)
MakeRoom(table, now) ==
    LET live == {w \in table : w.resetAt > now}
        under == {w \in live : Evictable(w)}
        oldest == {w \in under : \A v \in under : w.place <= v.place}
    IN IF Cardinality(live) < MaxWindows THEN live ELSE live \ oldest

(* A new key needs room first. *)
Roomy(table, key, now) ==
    IF Cardinality(table) >= MaxWindows /\ Own(table, key) = {}
    THEN MakeRoom(table, now) ELSE table

Last(table) == Max({0} \cup {w.place : w \in table})

(* enforceRateLimit, the table it leaves *)
Counted(table, key, limit, span, now) ==
    LET roomy == Roomy(table, key, now)
        own == Own(roomy, key)
        fresh(place) == [key |-> key, count |-> 1, limit |-> limit, resetAt |-> now + span,
                         place |-> place]
        next == CASE Running(roomy, key, now) # {} -> {[w EXCEPT !.count = @ + 1] : w \in own}
                  [] own # {} /\ Running(roomy, key, now) = {} -> {fresh(w.place) : w \in own}
                  [] own = {} /\ Cardinality(roomy) < MaxWindows -> {fresh(Last(roomy) + 1)}
                  [] OTHER -> {}
    IN (roomy \ own) \cup next

(* enforceRateLimit, whether the call goes on *)
Admitted(table, key, limit, span, now) ==
    \E w \in Own(Counted(table, key, limit, span, now), key) : w.count <= limit

(* assertUnderRateLimit *)
Under(table, key, limit, now) == \A w \in Running(table, key, now) : w.count < limit

(* The key has spent its window. *)
Blocked(table, key, now) == \E w \in Running(table, key, now) : w.count >= w.limit
============================================================================
