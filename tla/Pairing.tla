------------------------------ MODULE Pairing -----------------------------
(***************************************************************************)
(* The short codes of phones that stand together (app/api/pairings and     *)
(* server/pairing-store/redis.ts): a sender leaves a transfer code under a *)
(* code and a shape, a receiver takes it with both, and wrong guesses are  *)
(* counted on the record, by address and over the whole service.  Each     *)
(* script is atomic; a handler is several of them, and may die between.    *)
(* One tick of the clock is the window of the misses, a minute.            *)
(***************************************************************************)
EXTENDS RateLimit, FiniteSets

CONSTANTS
    Codes,       \* the short codes
    Pairs,       \* bound: the pairings the senders ask for
    Callers,     \* bound: joins at one time
    Home,        \* the address of each caller
    Drawn,       \* CLAIM_ATTEMPTS: how many codes one claim draws
    Life,        \* PAIRING_TTL_SECONDS, in windows
    Tries,       \* PAIRING_SHAPE_TRIES
    MissLimit,   \* PAIRING_GLOBAL_MISS_LIMIT
    JoinLimit,   \* joins of an address in a window
    WrongLimit,  \* misses of an address in WrongSpan
    WrongSpan,
    MaxClock, MaxJoins, MaxFaults, None

Addresses == {Home[c] : c \in Callers}

ASSUME PairingAssumption ==
    /\ Drawn \in 1..Cardinality(Codes)
    /\ {Life, Tries, MissLimit, JoinLimit, WrongLimit, WrongSpan} \subseteq Nat \ {0}

(* A service holds finitely many requests at a time. *)
ASSUME BoundAssumption == IsFiniteSet(Callers) /\ MaxClock \in Nat

ASSUME NoneAssumption == None \notin Codes \cup Pairs /\ None # "refused"

VARIABLES
    clock,
    store,   \* the escrows, by code
    misses,  \* the shared count of wrong guesses, by window
    table,   \* the windows of the instance that serves the joins
    join,    \* the joins under way
    asked,   \* the pairings that were claimed, and where
    joins, faults,
    given,   \* history: how often each pairing was taken
    wrong,   \* history: wrong shapes tried on each pairing
    guesses, \* history: wrong guesses by the window their handler read
    uncounted \* history: wrong guesses whose handler died before it counted them

vars == <<clock, store, misses, table, join, asked, joins, faults, given, wrong, guesses,
          uncounted>>

---------------------------------------------------------------------------
Absent == [pair |-> None, expiresAt |-> 0, goneAt |-> 0, misses |-> 0]
NoJoin == [at |-> "idle", now |-> 0]

Init ==
    /\ clock = 0
    /\ store = [c \in Codes |-> Absent]
    /\ misses = [t \in 0..MaxClock |-> 0]
    /\ table = {}
    /\ join = [k \in Callers |-> NoJoin]
    /\ asked = [p \in Pairs |-> None]
    /\ joins = 0 /\ faults = 0
    /\ given = [p \in Pairs |-> 0]
    /\ wrong = [p \in Pairs |-> 0]
    /\ guesses = [t \in 0..MaxClock |-> 0]
    /\ uncounted = 0

(* The key exists: Redis has not let it expire. *)
Stored(c) == store[c].pair # None /\ store[c].goneAt > clock

Free(c) == ~Stored(c)

(* POST pairings: CLAIM_SCRIPT takes the first drawn code that is free.    *)
(* `now' may have been read a window ago.                                   *)
Claim(p) ==
    /\ asked[p] = None
    /\ \E c \in Codes, now \in {clock, clock - 1} \cap Nat :
          /\ Free(c)
          /\ store' = [store EXCEPT ![c] = [pair |-> p, expiresAt |-> now + Life,
                                            goneAt |-> clock + Life, misses |-> 0]]
          /\ asked' = [asked EXCEPT ![p] = c]
    /\ UNCHANGED <<clock, misses, table, join, joins, faults, given, wrong, guesses, uncounted>>

(* Every drawn code is in use. *)
Crowded(p) ==
    /\ asked[p] = None
    /\ Cardinality({c \in Codes : Stored(c)}) >= Drawn
    /\ asked' = [asked EXCEPT ![p] = "refused"]
    /\ UNCHANGED <<clock, store, misses, table, join, joins, faults, given, wrong, guesses, uncounted>>

JoinKey(k) == <<"redeem", Home[k]>>
MissKey(k) == <<"miss", Home[k]>>

Unguarded(k, counted) == TRUE  \* mutant: the joins of an address are not watched
Allowed(k, counted) == Under(counted, MissKey(k), WrongLimit, clock)

(* POST join, up to its first await: the limits of the address *)
Enter(k) ==
    /\ join[k].at = "idle"
    /\ joins < MaxJoins /\ joins' = joins + 1
    /\ LET counted == Counted(table, JoinKey(k), JoinLimit, 1, clock)
       IN /\ table' = counted
          /\ join' = IF /\ Admitted(table, JoinKey(k), JoinLimit, 1, clock)
                        /\ Allowed(k, counted)
                     THEN [join EXCEPT ![k] = [at |-> "checking", now |-> clock]]
                     ELSE join
    /\ UNCHANGED <<clock, store, misses, asked, faults, given, wrong, guesses, uncounted>>

Unpaused(t) == TRUE  \* mutant: the shared count is not looked at
Budgeted(t) == misses[t] < MissLimit

(* recentMisses *)
Check(k) ==
    /\ join[k].at = "checking"
    /\ join' = [join EXCEPT ![k] = IF Budgeted(join[k].now)
                                   THEN [@ EXCEPT !.at = "guessing"] ELSE NoJoin]
    /\ UNCHANGED <<clock, store, misses, table, asked, joins, faults, given, wrong, guesses, uncounted>>

Missed(k) ==
    /\ join' = [join EXCEPT ![k].at = "missed"]
    /\ guesses' = [guesses EXCEPT ![join[k].now] = @ + 1]

KeepsMatch(c) == store  \* mutant: a match leaves the escrow
Consumed(c) == [store EXCEPT ![c] = Absent]

(* REDEEM_SCRIPT with the right shape consumes the escrow; requireLive goes *)
(* by the handler's clock.                                                  *)
Match(k, c) ==
    /\ join[k].at = "guessing"
    /\ Stored(c)
    /\ store' = Consumed(c)
    /\ IF store[c].expiresAt > join[k].now
       THEN /\ given' = [given EXCEPT ![store[c].pair] = @ + 1]
            /\ join' = [join EXCEPT ![k] = NoJoin]
            /\ UNCHANGED guesses
       ELSE Missed(k) /\ UNCHANGED given
    /\ UNCHANGED <<clock, misses, table, asked, joins, faults, wrong, uncounted>>

Spent(c) == store[c].misses + 1 >= Tries

(* A wrong shape is counted, and the last one deletes the escrow. *)
WrongShape(k, c) ==
    /\ join[k].at = "guessing"
    /\ Stored(c)
    /\ wrong' = [wrong EXCEPT ![store[c].pair] = @ + 1]
    /\ store' = [store EXCEPT ![c] = IF Spent(c) THEN Absent
                                    ELSE [store[c] EXCEPT !.misses = @ + 1]]
    /\ Missed(k)
    /\ UNCHANGED <<clock, misses, table, asked, joins, faults, given, uncounted>>

UnknownCode(k) ==
    /\ join[k].at = "guessing"
    /\ \E c \in Codes : ~Stored(c)
    /\ Missed(k)
    /\ UNCHANGED <<clock, store, misses, table, asked, joins, faults, given, wrong, uncounted>>

(* recordMiss, in the window the handler read *)
RecordMiss(k) ==
    /\ join[k].at = "missed"
    /\ misses' = [misses EXCEPT ![join[k].now] = @ + 1]
    /\ join' = [join EXCEPT ![k].at = "counting"]
    /\ UNCHANGED <<clock, store, table, asked, joins, faults, given, wrong, guesses, uncounted>>

(* enforceRateLimit for the misses of the address *)
CountMiss(k) ==
    /\ join[k].at = "counting"
    /\ table' = Counted(table, MissKey(k), WrongLimit, WrongSpan, clock)
    /\ join' = [join EXCEPT ![k] = NoJoin]
    /\ UNCHANGED <<clock, store, misses, asked, joins, faults, given, wrong, guesses, uncounted>>

(* The instance dies: its table and its joins are gone, the store stays. *)
Restart ==
    /\ faults < MaxFaults /\ faults' = faults + 1
    /\ table' = {}
    /\ join' = [k \in Callers |-> NoJoin]
    /\ uncounted' = uncounted + Cardinality({k \in Callers : join[k].at = "missed"})
    /\ UNCHANGED <<clock, store, misses, asked, joins, given, wrong, guesses>>

(* A handler's clock is at most a window old. *)
Tick ==
    /\ clock < MaxClock
    /\ \A k \in Callers : join[k] # NoJoin => join[k].now = clock
    /\ clock' = clock + 1
    /\ UNCHANGED <<store, misses, table, join, asked, joins, faults, given, wrong, guesses, uncounted>>

Next ==
    \/ \E p \in Pairs : Claim(p) \/ Crowded(p)
    \/ \E k \in Callers :
          \/ Enter(k) \/ Check(k) \/ UnknownCode(k) \/ RecordMiss(k) \/ CountMiss(k)
          \/ \E c \in Codes : Match(k, c) \/ WrongShape(k, c)
    \/ Restart \/ Tick

Spec == Init /\ [][Next]_vars

---------------------------------------------------------------------------
(* One receiver at most takes a pairing, and it withstands fewer wrong      *)
(* shapes than there are: "the second deletes the escrow atomically, so     *)
(* nobody can walk all four shapes" (docs/FILE_TRANSFER.md:83), however     *)
(* many joins try at once.                                                  *)
OneReceiver ==
    \A p \in Pairs : given[p] <= 1 /\ wrong[p] <= Tries /\ given[p] + (wrong[p] \div Tries) <= 1

(* The shared budget is checked before the guess and spent after it: joins  *)
(* that are under way at once overshoot it, and one that dies is never      *)
(* counted.  That is all: a window sees no more wrong guesses than that.    *)
GuessesBounded ==
    \A t \in 0..MaxClock :
        guesses[t] <= MissLimit + (Cardinality(Callers) - 1) + uncounted

(* "A window that has reached its limit is never evicted, so churning the   *)
(* table cannot reset a caller who is already blocked" (rate-limit.ts:33):  *)
(* only time, or the end of the instance, frees an address, and until then  *)
(* the joins that passed before are the only ones left to guess.            *)
BlockedWaits ==
    [][/\ \A key \in {MissKey(k) : k \in Callers} \cup {JoinKey(k) : k \in Callers} :
             Blocked(table, key, clock') => Blocked(table', key, clock') \/ table' = {}
       /\ \A k \in Callers :
             Blocked(table, MissKey(k), clock) /\ join[k].at = "idle" => join'[k].at = "idle"]_vars
============================================================================
