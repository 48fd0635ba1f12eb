--------------------------- MODULE PairingProofs --------------------------
(***************************************************************************)
(* Proofs about Pairing, for any number of codes, pairings, addresses and  *)
(* joins at one time, and of the limiter over it.                          *)
(*                                                                         *)
(* A pairing lies under one code at most, has been taken by nobody while   *)
(* it does, and its record counts the wrong shapes tried on it (Escrowed). *)
(* A wrong guess is counted in its window, about to be, or lost with its   *)
(* handler (Counting), and no more handlers than fit are past the check of *)
(* a window that is spent (Budget).  Nothing of this rests on the          *)
(* limiter's table; what holds of that, for any size, comes last (Sound).  *)
(***************************************************************************)
EXTENDS Pairing, FiniteSetTheorems, TLAPS

Steps == {"idle", "checking", "guessing", "missed", "counting"}

Windows == 0..MaxClock

Escrow == [pair : Pairs \cup {None}, expiresAt : Nat, goneAt : Nat, misses : Nat]

(* The type of every variable but the limiter's table. *)
TypeOK ==
    /\ clock \in Windows
    /\ store \in [Codes -> Escrow]
    /\ misses \in [Windows -> Nat]
    /\ join \in [Callers -> [at : Steps, now : Windows]]
    /\ asked \in [Pairs -> Codes \cup {None, "refused"}]
    /\ given \in [Pairs -> Nat]
    /\ wrong \in [Pairs -> Nat]
    /\ guesses \in [Windows -> Nat]
    /\ uncounted \in Nat

Escrowed ==
    \A c \in Codes : store[c].pair # None =>
        /\ asked[store[c].pair] = c
        /\ given[store[c].pair] = 0
        /\ wrong[store[c].pair] = store[c].misses
        /\ store[c].misses < Tries

Taken ==
    \A p \in Pairs :
        /\ asked[p] = None => given[p] = 0 /\ wrong[p] = 0
        /\ given[p] <= 1 /\ wrong[p] <= Tries
        /\ given[p] = 1 => wrong[p] < Tries

(* The handlers of a window that have guessed wrongly and not counted it,  *)
(* and those that may still spend of its budget.                           *)
Missing(t) == {k \in Callers : join[k].at = "missed" /\ join[k].now = t}
Spending(t) ==
    {k \in Callers : join[k].at \in {"guessing", "missed"} /\ join[k].now = t}

Counting ==
    \A t \in Windows :
        guesses[t] <= misses[t] + Cardinality(Missing(t)) + uncounted

Budget ==
    \A t \in Windows :
        misses[t] + Cardinality(Spending(t)) <= MissLimit - 1 + Cardinality(Callers)

IInv == Escrowed /\ Taken /\ Counting /\ Budget

---------------------------------------------------------------------------
(* Arithmetic *)

LEMMA Quotient ==
    ASSUME NEW n \in Nat, NEW t \in Nat \ {0}, n <= t
    PROVE  n \div t = IF n = t THEN 1 ELSE 0
BY Z3

LEMMA Limits == /\ Tries \in Nat \ {0} /\ MissLimit \in Nat \ {0} /\ Life \in Nat \ {0}
                /\ Cardinality(Callers) \in Nat
BY PairingAssumption, BoundAssumption, FS_CardinalityType

LEMMA Sizes ==
    ASSUME NEW S \in SUBSET Callers
    PROVE  /\ IsFiniteSet(S) /\ Cardinality(S) \in Nat
           /\ Cardinality(S) <= Cardinality(Callers)
BY BoundAssumption, FS_Subset, FS_CardinalityType

---------------------------------------------------------------------------
(* Types *)

LEMMA JoinType ==
    ASSUME TypeOK, NEW k \in Callers, NEW at \in Steps,
           join' = [join EXCEPT ![k].at = at]
    PROVE  /\ join' \in [Callers -> [at : Steps, now : Windows]]
           /\ join'[k].at = at /\ join'[k].now = join[k].now
           /\ \A j \in Callers \ {k} : join'[j] = join[j]
<1>1. /\ join \in [Callers -> [at : Steps, now : Windows]]
      /\ join[k] \in [at : Steps, now : Windows]
  BY DEF TypeOK
<1> QED
  BY <1>1

LEMMA NoJoinType == NoJoin \in [at : Steps, now : Windows] /\ NoJoin.at = "idle"
BY BoundAssumption DEF NoJoin, Steps, Windows

LEMMA AbsentType == Absent \in Escrow /\ Absent.pair = None
BY DEF Absent, Escrow

LEMMA MissedType ==
    ASSUME TypeOK, NEW k \in Callers, Missed(k)
    PROVE  /\ join' \in [Callers -> [at : Steps, now : Windows]]
           /\ guesses' \in [Windows -> Nat]
BY JoinType DEF Missed, TypeOK, Steps

LEMMA ClaimTypes ==
    ASSUME TypeOK, NEW p \in Pairs, Claim(p) \/ Crowded(p)
    PROVE  TypeOK'
<1>1. CASE Claim(p)
  <2>1. PICK c \in Codes, now \in {clock, clock - 1} \cap Nat :
          /\ store' = [store EXCEPT ![c] =
                [pair |-> p, expiresAt |-> now + Life, goneAt |-> clock + Life,
                 misses |-> 0]]
          /\ asked' = [asked EXCEPT ![p] = c]
    BY <1>1 DEF Claim
  <2>2. [pair |-> p, expiresAt |-> now + Life, goneAt |-> clock + Life,
         misses |-> 0] \in Escrow
    BY Limits DEF Escrow, TypeOK, Windows
  <2>3. store' \in [Codes -> Escrow] /\ asked' \in [Pairs -> Codes \cup {None, "refused"}]
    BY <2>1, <2>2 DEF TypeOK
  <2> QED
    BY <1>1, <2>3 DEF Claim, TypeOK
<1>2. CASE Crowded(p)
  BY <1>2 DEF Crowded, TypeOK
<1> QED
  BY <1>1, <1>2

LEMMA JoinTypes ==
    ASSUME TypeOK, NEW k \in Callers,
           \/ Enter(k) \/ Check(k) \/ UnknownCode(k) \/ RecordMiss(k)
           \/ CountMiss(k)
    PROVE  TypeOK'
<1>1. CASE Enter(k)
  <2>1. [at |-> "checking", now |-> clock] \in [at : Steps, now : Windows]
    BY DEF TypeOK, Steps
  <2>2. join' = join \/ join' = [join EXCEPT ![k] = [at |-> "checking", now |-> clock]]
    BY <1>1 DEF Enter
  <2> QED
    BY <1>1, <2>1, <2>2 DEF Enter, TypeOK
<1>2. CASE Check(k)
  <2>1. \/ join' = [join EXCEPT ![k].at = "guessing"]
        \/ join' = [join EXCEPT ![k] = NoJoin]
    BY <1>2 DEF Check
  <2>2. join' \in [Callers -> [at : Steps, now : Windows]]
    BY <2>1, NoJoinType, JoinType DEF TypeOK, Steps
  <2> QED
    BY <1>2, <2>2 DEF Check, TypeOK
<1>3. CASE UnknownCode(k)
  BY <1>3, MissedType DEF UnknownCode, TypeOK
<1>4. CASE RecordMiss(k)
  BY <1>4, JoinType DEF RecordMiss, TypeOK, Steps
<1>5. CASE CountMiss(k)
  BY <1>5, NoJoinType DEF CountMiss, TypeOK
<1> QED
  BY <1>1, <1>2, <1>3, <1>4, <1>5

LEMMA RedeemTypes ==
    ASSUME TypeOK, NEW k \in Callers, NEW c \in Codes,
           Match(k, c) \/ WrongShape(k, c)
    PROVE  TypeOK'
<1>1. store[c] \in Escrow /\ store[c].pair \in Pairs
  BY DEF Match, WrongShape, Stored, TypeOK, Escrow
<1>2. CASE Match(k, c)
  <2>1. store' \in [Codes -> Escrow]
    BY <1>2, AbsentType DEF Match, Consumed, TypeOK
  <2>2. CASE Missed(k) /\ UNCHANGED given
    BY <1>2, <2>1, <2>2, MissedType DEF Match, TypeOK
  <2>3. CASE /\ given' = [given EXCEPT ![store[c].pair] = @ + 1]
             /\ join' = [join EXCEPT ![k] = NoJoin] /\ UNCHANGED guesses
    BY <1>1, <1>2, <2>1, <2>3, NoJoinType DEF Match, TypeOK
  <2> QED
    BY <1>2, <2>2, <2>3 DEF Match
<1>3. CASE WrongShape(k, c)
  <2>1. [store[c] EXCEPT !.misses = @ + 1] \in Escrow
    BY <1>1 DEF Escrow
  <2>2. store' \in [Codes -> Escrow]
    BY <1>3, <2>1, AbsentType DEF WrongShape, TypeOK
  <2>3. wrong' \in [Pairs -> Nat]
    BY <1>1, <1>3 DEF WrongShape, TypeOK
  <2> QED
    BY <1>3, <2>2, <2>3, MissedType DEF WrongShape, TypeOK
<1> QED
  BY <1>2, <1>3

LEMMA OtherTypes ==
    ASSUME TypeOK, Restart \/ Tick
    PROVE  TypeOK'
<1>1. CASE Restart
  <2>1. Cardinality({k \in Callers : join[k].at = "missed"}) \in Nat
    BY Sizes
  <2> QED
    BY <1>1, <2>1, NoJoinType DEF Restart, TypeOK
<1>2. CASE Tick
  BY <1>2, BoundAssumption DEF Tick, TypeOK, Windows
<1> QED
  BY <1>1, <1>2

---------------------------------------------------------------------------
(* One receiver *)

LEMMA ClaimKeeps ==
    ASSUME TypeOK, Escrowed, Taken, NEW p \in Pairs, Claim(p) \/ Crowded(p)
    PROVE  Escrowed' /\ Taken'
<1>1. /\ asked[p] = None /\ given[p] = 0 /\ wrong[p] = 0
      /\ UNCHANGED <<given, wrong>>
      /\ \A c \in Codes : store[c].pair # p
  BY NoneAssumption DEF Claim, Crowded, Taken, Escrowed
<1>2. CASE Claim(p)
  <2>1. PICK c \in Codes, now \in {clock, clock - 1} \cap Nat :
          /\ store' = [store EXCEPT ![c] =
                [pair |-> p, expiresAt |-> now + Life, goneAt |-> clock + Life,
                 misses |-> 0]]
          /\ asked' = [asked EXCEPT ![p] = c]
    BY <1>2 DEF Claim
  <2>2. /\ store'[c].pair = p /\ store'[c].misses = 0 /\ asked'[p] = c
        /\ \A d \in Codes \ {c} : store'[d] = store[d]
        /\ \A q \in Pairs \ {p} : asked'[q] = asked[q]
        /\ \A d \in Codes : store[d].pair # None => store[d].pair \in Pairs
    BY <2>1 DEF TypeOK, Escrow
  <2>3. Escrowed'
    BY <1>1, <2>2, Limits DEF Escrowed
  <2>4. Taken'
    BY <1>1, <2>2, NoneAssumption, Limits DEF Taken
  <2> QED
    BY <2>3, <2>4
<1>3. CASE Crowded(p)
  <2>1. /\ store' = store /\ asked'[p] = "refused"
        /\ \A q \in Pairs \ {p} : asked'[q] = asked[q]
        /\ \A d \in Codes : store[d].pair # None => store[d].pair \in Pairs
    BY <1>3 DEF Crowded, TypeOK, Escrow
  <2> QED
    BY <1>1, <2>1, NoneAssumption DEF Escrowed, Taken
<1> QED
  BY <1>2, <1>3

(* Taken or spent, an escrow is gone, and no other names its pairing. *)
LEMMA RedeemKeeps ==
    ASSUME TypeOK, Escrowed, Taken, NEW k \in Callers, NEW c \in Codes,
           Match(k, c) \/ WrongShape(k, c)
    PROVE  Escrowed' /\ Taken'
<1> DEFINE p == store[c].pair
<1>1. /\ p \in Pairs /\ asked[p] = c /\ given[p] = 0
      /\ wrong[p] = store[c].misses /\ store[c].misses < Tries
      /\ store[c] \in Escrow /\ store[c].misses \in Nat
      /\ asked' = asked /\ asked[p] # None
      /\ \A d \in Codes \ {c} : store[d].pair # p
      /\ \A d \in Codes : store[d].pair # None => store[d].pair \in Pairs
      /\ Tries \in Nat
  BY NoneAssumption, Limits
     DEF Match, WrongShape, Stored, Escrowed, TypeOK, Escrow
<1>2. CASE Match(k, c)
  <2>1. /\ wrong' = wrong
        /\ given'[p] = 0 \/ given'[p] = 1
        /\ \A q \in Pairs \ {p} : given'[q] = given[q]
        /\ store'[c].pair = None
        /\ \A d \in Codes \ {c} : store'[d] = store[d]
    BY <1>1, <1>2, AbsentType DEF Match, Consumed, TypeOK
  <2> QED
    BY <1>1, <2>1 DEF Escrowed, Taken
<1>3. CASE WrongShape(k, c)
  <2>1. /\ given' = given
        /\ wrong'[p] = store[c].misses + 1
        /\ \A q \in Pairs \ {p} : wrong'[q] = wrong[q]
        /\ \A d \in Codes \ {c} : store'[d] = store[d]
        /\ IF store[c].misses + 1 >= Tries THEN store'[c].pair = None
           ELSE store'[c].pair = p /\ store'[c].misses = store[c].misses + 1
    BY <1>1, <1>3, AbsentType DEF WrongShape, Spent, TypeOK, Escrow
  <2> QED
    BY <1>1, <2>1 DEF Escrowed, Taken
<1> QED
  BY <1>2, <1>3

---------------------------------------------------------------------------
(* The budget of a window *)

Counters == <<misses, guesses, uncounted>>

LEMMA SetTypes ==
    ASSUME NEW t
    PROVE  /\ Missing(t) \subseteq Callers /\ Spending(t) \subseteq Callers
           /\ Missing(t)' \subseteq Callers /\ Spending(t)' \subseteq Callers
BY DEF Missing, Spending

(* A step that neither guesses nor counts, nor lets a handler guess. *)
LEMMA Idles ==
    ASSUME TypeOK, Counting, Budget, UNCHANGED Counters,
           \A t \in Windows : Missing(t)' = Missing(t)
                             /\ Spending(t)' \subseteq Spending(t)
    PROVE  Counting' /\ Budget'
<1>1. Counting'
  BY DEF Counting, Counters
<1>2. ASSUME NEW t \in Windows
      PROVE  Cardinality(Spending(t)') <= Cardinality(Spending(t))
  <2>1. IsFiniteSet(Spending(t)) /\ Spending(t)' \in SUBSET Spending(t)
    BY Sizes, SetTypes
  <2> QED
    BY <2>1, FS_Subset
<1>3. ASSUME NEW t \in Windows
      PROVE  misses'[t] + Cardinality(Spending(t)')
                 <= MissLimit - 1 + Cardinality(Callers)
  <2>1. /\ misses'[t] = misses[t] /\ misses[t] \in Nat
        /\ Cardinality(Spending(t)) \in Nat /\ Cardinality(Spending(t)') \in Nat
    BY Sizes, SetTypes DEF Counters, TypeOK
  <2>2. misses[t] + Cardinality(Spending(t)) <= MissLimit - 1 + Cardinality(Callers)
    BY DEF Budget
  <2> QED
    BY <1>2, <2>1, <2>2, Limits
<1>4. Budget'
  BY <1>3 DEF Budget
<1> QED
  BY <1>1, <1>4

(* What one handler does to the sets. *)
LEMMA OneMoves ==
    ASSUME TypeOK, NEW k \in Callers,
           \A j \in Callers \ {k} : join'[j] = join[j]
    PROVE  \A t \in Windows :
             /\ Missing(t)' = IF join'[k].at = "missed" /\ join'[k].now = t
                              THEN Missing(t) \cup {k} ELSE Missing(t) \ {k}
             /\ Spending(t)' = IF join'[k].at \in {"guessing", "missed"}
                                  /\ join'[k].now = t
                               THEN Spending(t) \cup {k} ELSE Spending(t) \ {k}
BY DEF Missing, Spending

(* The wrong guess is counted as one of the handler. *)
LEMMA MissedKeeps ==
    ASSUME TypeOK, Counting, Budget, NEW k \in Callers,
           join[k].at = "guessing", Missed(k), UNCHANGED <<misses, uncounted>>
    PROVE  Counting' /\ Budget'
<1> DEFINE n == join[k].now
<1>1. /\ join'[k].at = "missed" /\ join'[k].now = n /\ n \in Windows
      /\ \A j \in Callers \ {k} : join'[j] = join[j]
      /\ guesses' = [guesses EXCEPT ![n] = @ + 1]
  BY JoinType DEF Missed, Steps, TypeOK
<1>2. \A t \in Windows : Spending(t)' = Spending(t)
  BY <1>1, OneMoves DEF Spending
<1>3. Budget'
  BY <1>2 DEF Budget
<1>4. ASSUME NEW t \in Windows
      PROVE  guesses'[t] <= misses'[t] + Cardinality(Missing(t)') + uncounted'
  <2>1. /\ guesses[t] \in Nat /\ misses[t] \in Nat /\ uncounted \in Nat
        /\ IsFiniteSet(Missing(t)) /\ Cardinality(Missing(t)) \in Nat
        /\ guesses[t] <= misses[t] + Cardinality(Missing(t)) + uncounted
    BY Sizes, SetTypes DEF TypeOK, Counting
  <2>2. CASE t = n
    <3>1. guesses'[t] = guesses[t] + 1
      BY <1>1, <2>2 DEF TypeOK
    <3>2. Missing(t)' = Missing(t) \cup {k} /\ k \notin Missing(t)
      BY <1>1, <2>2, OneMoves DEF Missing
    <3>3. Cardinality(Missing(t)') = Cardinality(Missing(t)) + 1
      BY <2>1, <3>2, FS_AddElement
    <3> QED
      BY <2>1, <3>1, <3>3
  <2>3. CASE t # n
    <3>1. guesses'[t] = guesses[t]
      BY <1>1, <2>3 DEF TypeOK
    <3>2. Missing(t)' = Missing(t)
      BY <1>1, <2>3, OneMoves DEF Missing
    <3> QED
      BY <2>1, <3>1, <3>2
  <2> QED
    BY <2>2, <2>3
<1>5. Counting'
  BY <1>4 DEF Counting
<1> QED
  BY <1>3, <1>5

(* Counted, it is the window's for good. *)
LEMMA RecordKeeps ==
    ASSUME TypeOK, Counting, Budget, NEW k \in Callers, RecordMiss(k)
    PROVE  Counting' /\ Budget'
<1> DEFINE n == join[k].now
<1>1. /\ join[k].at = "missed" /\ join'[k].at = "counting" /\ n \in Windows
      /\ \A j \in Callers \ {k} : join'[j] = join[j]
      /\ misses' = [misses EXCEPT ![n] = @ + 1]
      /\ UNCHANGED <<guesses, uncounted>>
  BY JoinType DEF RecordMiss, Steps, TypeOK
<1>2. ASSUME NEW t \in Windows
      PROVE  /\ guesses'[t] <= misses'[t] + Cardinality(Missing(t)') + uncounted'
             /\ misses'[t] + Cardinality(Spending(t)')
                    <= MissLimit - 1 + Cardinality(Callers)
  <2>1. /\ guesses[t] \in Nat /\ misses[t] \in Nat /\ uncounted \in Nat
        /\ IsFiniteSet(Missing(t)) /\ Cardinality(Missing(t)) \in Nat
        /\ IsFiniteSet(Spending(t)) /\ Cardinality(Spending(t)) \in Nat
        /\ guesses[t] <= misses[t] + Cardinality(Missing(t)) + uncounted
        /\ misses[t] + Cardinality(Spending(t))
               <= MissLimit - 1 + Cardinality(Callers)
    BY Sizes, SetTypes DEF TypeOK, Counting, Budget
  <2>2. CASE t = n
    <3>1. misses'[t] = misses[t] + 1
      BY <1>1, <2>2 DEF TypeOK
    <3>2. /\ Missing(t)' = Missing(t) \ {k} /\ k \in Missing(t)
          /\ Spending(t)' = Spending(t) \ {k} /\ k \in Spending(t)
      BY <1>1, <2>2, OneMoves DEF Missing, Spending
    <3>3. /\ Cardinality(Missing(t)') = Cardinality(Missing(t)) - 1
          /\ Cardinality(Spending(t)') = Cardinality(Spending(t)) - 1
      BY <2>1, <3>2, FS_RemoveElement
    <3> QED
      BY <1>1, <2>1, <3>1, <3>3, Limits
  <2>3. CASE t # n
    <3>1. misses'[t] = misses[t]
      BY <1>1, <2>3 DEF TypeOK
    <3>2. Missing(t)' = Missing(t) /\ Spending(t)' = Spending(t)
      BY <1>1, <2>3, OneMoves DEF Missing, Spending
    <3> QED
      BY <1>1, <2>1, <3>1, <3>2
  <2> QED
    BY <2>2, <2>3
<1> QED
  BY <1>2 DEF Counting, Budget

(* The check lets a handler through while its window is not spent. *)
LEMMA CheckKeeps ==
    ASSUME TypeOK, Counting, Budget, NEW k \in Callers, Check(k)
    PROVE  Counting' /\ Budget'
<1> DEFINE n == join[k].now
<1>1. /\ join[k].at = "checking" /\ n \in Windows
      /\ UNCHANGED Counters
  BY DEF Check, Counters, TypeOK
<1>2. CASE Budgeted(n)
  <2>1. /\ join'[k].at = "guessing" /\ join'[k].now = n
        /\ \A j \in Callers \ {k} : join'[j] = join[j]
    <3>1. join' = [join EXCEPT ![k].at = "guessing"]
      BY <1>2 DEF Check
    <3> QED
      BY <3>1, JoinType DEF Steps
  <2>2. \A t \in Windows : Missing(t)' = Missing(t)
    BY <1>1, <2>1, OneMoves DEF Missing
  <2>3. Counting'
    BY <1>1, <2>2 DEF Counting, Counters
  <2>4. ASSUME NEW t \in Windows
        PROVE  misses'[t] + Cardinality(Spending(t)')
                    <= MissLimit - 1 + Cardinality(Callers)
    <3>1. misses[t] \in Nat /\ misses' = misses
      BY <1>1 DEF Counters, TypeOK
    <3>2. CASE t = n
      <4>1. misses[t] < MissLimit
        BY <1>2, <3>2 DEF Budgeted
      <4>2. /\ Cardinality(Spending(t)') \in Nat
            /\ Cardinality(Spending(t)') <= Cardinality(Callers)
        BY Sizes, SetTypes
      <4> QED
        BY <3>1, <4>1, <4>2, Limits
    <3>3. CASE t # n
      <4>1. Spending(t)' = Spending(t)
        BY <1>1, <2>1, <3>3, OneMoves DEF Spending
      <4> QED
        BY <3>1, <4>1 DEF Budget
    <3> QED
      BY <3>2, <3>3
  <2> QED
    BY <2>3, <2>4 DEF Budget
<1>3. CASE ~Budgeted(n)
  <2>1. /\ join'[k].at = "idle"
        /\ \A j \in Callers \ {k} : join'[j] = join[j]
    BY <1>3, NoJoinType DEF Check, TypeOK
  <2>2. \A t \in Windows : Missing(t)' = Missing(t) /\ Spending(t)' = Spending(t)
    BY <1>1, <2>1, OneMoves DEF Missing, Spending
  <2> QED
    BY <1>1, <2>2, Idles
<1> QED
  BY <1>2, <1>3

LEMMA RestartKeeps ==
    ASSUME TypeOK, Counting, Budget, Restart
    PROVE  Counting' /\ Budget'
<1> DEFINE lost == {k \in Callers : join[k].at = "missed"}
<1>1. /\ UNCHANGED <<misses, guesses>> /\ uncounted' = uncounted + Cardinality(lost)
      /\ \A k \in Callers : join'[k].at = "idle"
  BY NoJoinType DEF Restart
<1>2. ASSUME NEW t \in Windows
      PROVE  /\ guesses'[t] <= misses'[t] + Cardinality(Missing(t)') + uncounted'
             /\ misses'[t] + Cardinality(Spending(t)')
                    <= MissLimit - 1 + Cardinality(Callers)
  <2>1. /\ guesses[t] \in Nat /\ misses[t] \in Nat /\ uncounted \in Nat
        /\ Cardinality(Missing(t)) \in Nat /\ Cardinality(Spending(t)) \in Nat
        /\ guesses[t] <= misses[t] + Cardinality(Missing(t)) + uncounted
        /\ misses[t] + Cardinality(Spending(t))
               <= MissLimit - 1 + Cardinality(Callers)
        /\ IsFiniteSet(lost) /\ Cardinality(lost) \in Nat
    BY Sizes, SetTypes DEF TypeOK, Counting, Budget
  <2>2. Missing(t) \in SUBSET lost
    BY DEF Missing
  <2>3. Cardinality(Missing(t)) <= Cardinality(lost)
    BY <2>1, <2>2, FS_Subset
  <2>4. Missing(t)' = {} /\ Spending(t)' = {}
    BY <1>1 DEF Missing, Spending
  <2>5. Cardinality(Missing(t)') = 0 /\ Cardinality(Spending(t)') = 0
    BY <2>4, FS_EmptySet
  <2> QED
    BY <1>1, <2>1, <2>3, <2>5, Limits
<1> QED
  BY <1>2 DEF Counting, Budget

---------------------------------------------------------------------------
(* All steps *)

LEMMA NextKeeps == TypeOK /\ IInv /\ [Next]_vars => TypeOK' /\ IInv'
<1> SUFFICES ASSUME TypeOK, IInv, [Next]_vars PROVE TypeOK' /\ IInv'
  OBVIOUS
<1>1. ASSUME UNCHANGED <<store, asked, given, wrong>>
      PROVE  Escrowed' /\ Taken'
  BY <1>1 DEF IInv, Escrowed, Taken
<1>2. ASSUME UNCHANGED <<join, misses, guesses, uncounted>>
      PROVE  Counting' /\ Budget'
  BY <1>2 DEF IInv, Counting, Budget, Missing, Spending
<1>3. ASSUME NEW k \in Callers, UNCHANGED Counters,
             \A j \in Callers \ {k} : join'[j] = join[j],
             join[k].at # "missed", join'[k].at \notin {"guessing", "missed"}
      PROVE  Counting' /\ Budget'
  <2>1. \A t \in Windows : Missing(t)' = Missing(t)
                           /\ Spending(t)' \subseteq Spending(t)
    BY <1>3, OneMoves DEF Missing
  <2> QED
    BY <1>3, <2>1, Idles DEF IInv
<1>4. ASSUME NEW p \in Pairs, Claim(p) \/ Crowded(p)
      PROVE  TypeOK' /\ IInv'
  <2>1. UNCHANGED <<join, misses, guesses, uncounted>>
    BY <1>4 DEF Claim, Crowded
  <2> QED
    BY <1>2, <1>4, <2>1, ClaimTypes, ClaimKeeps DEF IInv
<1>5. ASSUME NEW k \in Callers,
             \/ Enter(k) \/ Check(k) \/ UnknownCode(k) \/ RecordMiss(k)
             \/ CountMiss(k)
      PROVE  TypeOK' /\ IInv'
  <2>1. UNCHANGED <<store, asked, given, wrong>>
    BY <1>5 DEF Enter, Check, UnknownCode, RecordMiss, CountMiss
  <2>2. ASSUME Enter(k) PROVE Counting' /\ Budget'
    <3>1. /\ UNCHANGED Counters /\ join[k].at = "idle"
          /\ \A j \in Callers \ {k} : join'[j] = join[j]
          /\ join'[k].at \in {"idle", "checking"}
      BY <2>2 DEF Enter, Counters, TypeOK
    <3> QED
      BY <1>3, <3>1
  <2>3. ASSUME CountMiss(k) PROVE Counting' /\ Budget'
    <3>1. /\ UNCHANGED Counters /\ join[k].at = "counting"
          /\ \A j \in Callers \ {k} : join'[j] = join[j]
          /\ join'[k].at = "idle"
      BY <2>3, NoJoinType DEF CountMiss, Counters, TypeOK
    <3> QED
      BY <1>3, <3>1
  <2>4. ASSUME UnknownCode(k) PROVE Counting' /\ Budget'
    BY <2>4, MissedKeeps DEF UnknownCode, IInv
  <2>5. Counting' /\ Budget'
    BY <1>5, <2>2, <2>3, <2>4, CheckKeeps, RecordKeeps DEF IInv
  <2> QED
    BY <1>1, <1>5, <2>1, <2>5, JoinTypes DEF IInv
<1>6. ASSUME NEW k \in Callers, NEW c \in Codes, Match(k, c) \/ WrongShape(k, c)
      PROVE  TypeOK' /\ IInv'
  <2>1. join[k].at = "guessing" /\ UNCHANGED <<misses, uncounted>>
    BY <1>6 DEF Match, WrongShape
  <2>2. ASSUME Missed(k) PROVE Counting' /\ Budget'
    BY <2>1, <2>2, MissedKeeps DEF IInv
  <2>3. ASSUME join' = [join EXCEPT ![k] = NoJoin], UNCHANGED guesses
        PROVE  Counting' /\ Budget'
    <3>1. /\ UNCHANGED Counters /\ join'[k].at = "idle"
          /\ \A j \in Callers \ {k} : join'[j] = join[j]
      BY <2>1, <2>3, NoJoinType DEF Counters, TypeOK
    <3> QED
      BY <1>3, <2>1, <3>1
  <2>4. Counting' /\ Budget'
    BY <1>6, <2>2, <2>3 DEF Match, WrongShape
  <2> QED
    BY <1>6, <2>4, RedeemTypes, RedeemKeeps DEF IInv
<1>7. CASE Restart
  <2>1. UNCHANGED <<store, asked, given, wrong>>
    BY <1>7 DEF Restart
  <2> QED
    BY <1>1, <1>7, <2>1, OtherTypes, RestartKeeps DEF IInv
<1>8. CASE Tick
  <2>1. /\ UNCHANGED <<store, asked, given, wrong>>
        /\ UNCHANGED <<join, misses, guesses, uncounted>>
    BY <1>8 DEF Tick
  <2> QED
    BY <1>1, <1>2, <1>8, <2>1, OtherTypes DEF IInv
<1>9. CASE UNCHANGED vars
  <2>1. /\ UNCHANGED <<store, asked, given, wrong>>
        /\ UNCHANGED <<join, misses, guesses, uncounted>>
        /\ UNCHANGED clock
    BY <1>9 DEF vars
  <2>2. TypeOK'
    BY <2>1 DEF TypeOK
  <2> QED
    BY <1>1, <1>2, <2>1, <2>2 DEF IInv
<1> QED
  BY <1>4, <1>5, <1>6, <1>7, <1>8, <1>9 DEF Next

LEMMA InitKeeps == Init => TypeOK /\ IInv
<1> SUFFICES ASSUME Init PROVE TypeOK /\ IInv
  OBVIOUS
<1>1. TypeOK
  BY BoundAssumption, NoJoinType, AbsentType DEF Init, TypeOK, Windows
<1>2. Escrowed /\ Taken
  BY Limits, AbsentType DEF Init, Escrowed, Taken
<1>3. ASSUME NEW t \in Windows
      PROVE  Missing(t) = {} /\ Spending(t) = {}
  BY NoJoinType DEF Init, Missing, Spending
<1>4. ASSUME NEW t \in Windows
      PROVE  /\ guesses[t] <= misses[t] + Cardinality(Missing(t)) + uncounted
             /\ misses[t] + Cardinality(Spending(t))
                    <= MissLimit - 1 + Cardinality(Callers)
  <2>1. Cardinality(Missing(t)) = 0 /\ Cardinality(Spending(t)) = 0
    BY <1>3, FS_EmptySet
  <2>2. guesses[t] = 0 /\ misses[t] = 0 /\ uncounted = 0
    BY DEF Init, Windows
  <2> QED
    BY <2>1, <2>2, Limits
<1> QED
  BY <1>1, <1>2, <1>4 DEF IInv, Counting, Budget

(* IInv: where each pairing is, and where each wrong guess is counted. *)
THEOREM Accounts == Spec => [](TypeOK /\ IInv)
BY InitKeeps, NextKeeps, PTL DEF Spec

(* OneReceiver: one receiver at most takes a pairing, and it withstands    *)
(* Tries wrong shapes in all, however many joins try it at once, whichever *)
(* handlers die and whatever its code is reused for later.                 *)
THEOREM OneReceiverAtMost == Spec => []OneReceiver
<1>1. TypeOK /\ IInv => OneReceiver
  <2> SUFFICES ASSUME TypeOK, IInv, NEW p \in Pairs
               PROVE  /\ given[p] <= 1 /\ wrong[p] <= Tries
                      /\ given[p] + (wrong[p] \div Tries) <= 1
    BY DEF OneReceiver
  <2>1. /\ given[p] \in Nat /\ wrong[p] \in Nat
        /\ given[p] <= 1 /\ wrong[p] <= Tries
        /\ given[p] = 1 => wrong[p] < Tries
    BY DEF TypeOK, IInv, Taken
  <2>2. wrong[p] \div Tries = IF wrong[p] = Tries THEN 1 ELSE 0
    BY <2>1, Limits, Quotient
  <2> QED
    BY <2>1, <2>2, Limits
<1> QED
  BY <1>1, Accounts, PTL

(* GuessesBounded: a window sees no more wrong guesses than its budget,    *)
(* one more for each other join under way, and those of handlers that died *)
(* before they had counted theirs.                                         *)
THEOREM GuessesAreBounded == Spec => []GuessesBounded
<1>1. TypeOK /\ IInv => GuessesBounded
  <2> SUFFICES ASSUME TypeOK, IInv, NEW t \in Windows
               PROVE  guesses[t] <=
                        MissLimit + (Cardinality(Callers) - 1) + uncounted
    BY DEF GuessesBounded, Windows
  <2>1. /\ guesses[t] \in Nat /\ misses[t] \in Nat /\ uncounted \in Nat
        /\ Cardinality(Missing(t)) \in Nat
        /\ IsFiniteSet(Spending(t)) /\ Cardinality(Spending(t)) \in Nat
        /\ guesses[t] <= misses[t] + Cardinality(Missing(t)) + uncounted
        /\ misses[t] + Cardinality(Spending(t))
               <= MissLimit - 1 + Cardinality(Callers)
    BY Sizes, SetTypes DEF TypeOK, IInv, Counting, Budget
  <2>2. Missing(t) \in SUBSET Spending(t)
    BY DEF Missing, Spending
  <2>3. Cardinality(Missing(t)) <= Cardinality(Spending(t))
    BY <2>1, <2>2, FS_Subset
  <2> QED
    BY <2>1, <2>3, Limits
<1> QED
  BY <1>1, Accounts, PTL

---------------------------------------------------------------------------
(* The limiter *)

WindowFields == {"key", "count", "limit", "resetAt", "place"}

(* The windows of a table, where those of the misses have one limit. *)
Sound(windows) ==
    \A w \in windows :
        /\ DOMAIN w = WindowFields
        /\ w.count \in Nat /\ w.limit \in Nat
        /\ \A k \in Callers : w.key = MissKey(k) => w.limit = WrongLimit

(* What a call adds to the table: its own window, one up or begun anew. *)
LEMMA CountedIs ==
    ASSUME NEW windows, Sound(windows), NEW key, NEW limit \in Nat, NEW span, NEW now,
           NEW w \in Counted(windows, key, limit, span, now)
    PROVE  \/ w \in windows
           \/ \E v \in windows : v.key = key /\ w = [v EXCEPT !.count = @ + 1]
           \/ \E place : w = [key |-> key, count |-> 1, limit |-> limit,
                              resetAt |-> now + span, place |-> place]
<1> DEFINE roomy == Roomy(windows, key, now)
           own == Own(roomy, key)
           fresh(place) == [key |-> key, count |-> 1, limit |-> limit,
                            resetAt |-> now + span, place |-> place]
<1>1. roomy \subseteq windows
  BY DEF Roomy, MakeRoom
<1>2. own \subseteq roomy /\ \A v \in own : v.key = key
  BY DEF Own
<1>3. \/ w \in roomy \ own
      \/ w \in {[v EXCEPT !.count = @ + 1] : v \in own}
      \/ w \in {fresh(v.place) : v \in own}
      \/ w = fresh(Last(roomy) + 1)
  BY DEF Counted
<1> HIDE DEF roomy, own
<1> QED
  BY <1>1, <1>2, <1>3

LEMMA CountedSound ==
    ASSUME NEW windows, Sound(windows), NEW key, NEW limit \in Nat, NEW span, NEW now,
           \A k \in Callers : key = MissKey(k) => limit = WrongLimit
    PROVE  Sound(Counted(windows, key, limit, span, now))
<1> SUFFICES ASSUME NEW w \in Counted(windows, key, limit, span, now)
             PROVE  /\ DOMAIN w = WindowFields
                    /\ w.count \in Nat /\ w.limit \in Nat
                    /\ \A k \in Callers : w.key = MissKey(k) => w.limit = WrongLimit
  BY DEF Sound
<1>1. CASE w \in windows
  BY <1>1 DEF Sound
<1>2. ASSUME NEW v \in windows, w = [v EXCEPT !.count = @ + 1]
      PROVE  /\ DOMAIN w = WindowFields
             /\ w.count \in Nat /\ w.limit = v.limit /\ w.key = v.key
  BY <1>2 DEF Sound, WindowFields
<1>3. ASSUME NEW place, w = [key |-> key, count |-> 1, limit |-> limit,
                             resetAt |-> now + span, place |-> place]
      PROVE  /\ DOMAIN w = WindowFields
             /\ w.count \in Nat /\ w.limit = limit /\ w.key = key
  BY <1>3 DEF WindowFields
<1> QED
  BY <1>1, <1>2, <1>3, CountedIs DEF Sound

(* No call of another key evicts a window that is spent, and none of its   *)
(* own sets it back.                                                       *)
LEMMA SpentStays ==
    ASSUME NEW windows, Sound(windows), NEW key, NEW limit \in Nat, NEW span, NEW now,
           NEW blocked, Blocked(windows, blocked, now)
    PROVE  Blocked(Counted(windows, key, limit, span, now), blocked, now)
<1> DEFINE roomy == Roomy(windows, key, now)
           own == Own(roomy, key)
<1>1. PICK w \in windows : /\ w.key = blocked /\ w.resetAt > now /\ w.count >= w.limit
                           /\ DOMAIN w = WindowFields /\ w.count \in Nat /\ w.limit \in Nat
  BY DEF Blocked, Running, Own, Sound
<1>2. w \in roomy
  <2>1. ~Evictable(w)
    BY <1>1 DEF Evictable
  <2> QED
    BY <1>1, <2>1 DEF Roomy, MakeRoom
<1>3. CASE blocked # key
  <2>1. w \in Counted(windows, key, limit, span, now)
    BY <1>1, <1>2, <1>3 DEF Counted, Own
  <2> QED
    BY <1>1, <2>1 DEF Blocked, Running, Own
<1>4. CASE blocked = key
  <2> DEFINE v == [w EXCEPT !.count = @ + 1]
  <2>1. w \in own /\ Running(roomy, key, now) # {}
    BY <1>1, <1>2, <1>4 DEF Running, Own
  <2>2. v \in Counted(windows, key, limit, span, now)
    BY <2>1 DEF Counted
  <2>3. v.key = blocked /\ v.resetAt > now /\ v.count >= v.limit
    BY <1>1 DEF WindowFields
  <2> HIDE DEF v
  <2> QED
    BY <2>2, <2>3 DEF Blocked, Running, Own
<1> QED
  BY <1>3, <1>4

LEMMA LimitTypes == JoinLimit \in Nat /\ WrongLimit \in Nat
BY PairingAssumption

LEMMA JoinIsNoMiss == \A k, l \in Callers : JoinKey(k) # MissKey(l)
BY DEF JoinKey, MissKey

LEMMA NextSound == Sound(table) /\ [Next]_vars => Sound(table)'
<1> SUFFICES ASSUME Sound(table), [Next]_vars PROVE Sound(table')
  BY DEF Sound, MissKey
<1>1. ASSUME NEW k \in Callers, Enter(k) PROVE Sound(table')
  <2>1. table' = Counted(table, JoinKey(k), JoinLimit, 1, clock)
    BY <1>1 DEF Enter
  <2> QED
    BY <2>1, LimitTypes, JoinIsNoMiss, CountedSound
<1>2. ASSUME NEW k \in Callers, CountMiss(k) PROVE Sound(table')
  <2>1. table' = Counted(table, MissKey(k), WrongLimit, WrongSpan, clock)
    BY <1>2 DEF CountMiss
  <2> QED
    BY <2>1, LimitTypes, CountedSound
<1>3. CASE Restart
  BY <1>3 DEF Restart, Sound
<1>4. CASE UNCHANGED table
  BY <1>4
<1> QED
  BY <1>1, <1>2, <1>3, <1>4
  DEF Next, vars, Claim, Crowded, Check, UnknownCode, RecordMiss, Match, WrongShape, Tick

(* A window that is spent stays so until its time is over or the instance  *)
(* ends. *)
LEMMA BlockedStays ==
    ASSUME Sound(table), [Next]_vars, NEW key, Blocked(table, key, clock')
    PROVE  Blocked(table', key, clock') \/ table' = {}
<1>1. ASSUME NEW k \in Callers, Enter(k) PROVE Blocked(table', key, clock')
  <2>1. table' = Counted(table, JoinKey(k), JoinLimit, 1, clock) /\ clock' = clock
    BY <1>1 DEF Enter
  <2> QED
    BY <2>1, LimitTypes, SpentStays
<1>2. ASSUME NEW k \in Callers, CountMiss(k) PROVE Blocked(table', key, clock')
  <2>1. table' = Counted(table, MissKey(k), WrongLimit, WrongSpan, clock) /\ clock' = clock
    BY <1>2 DEF CountMiss
  <2> QED
    BY <2>1, LimitTypes, SpentStays
<1>3. CASE Restart
  BY <1>3 DEF Restart
<1>4. CASE UNCHANGED table
  BY <1>4
<1> QED
  BY <1>1, <1>2, <1>3, <1>4
  DEF Next, vars, Claim, Crowded, Check, UnknownCode, RecordMiss, Match, WrongShape, Tick

(* And no join of its address gets past the limiter. *)
LEMMA BlockedIdle ==
    ASSUME TypeOK, Sound(table), [Next]_vars, NEW k \in Callers,
           Blocked(table, MissKey(k), clock), join[k].at = "idle"
    PROVE  join'[k].at = "idle"
<1>1. CASE Enter(k)
  <2> DEFINE counted == Counted(table, JoinKey(k), JoinLimit, 1, clock)
  <2>1. Blocked(counted, MissKey(k), clock) /\ Sound(counted)
    BY LimitTypes, JoinIsNoMiss, SpentStays, CountedSound
  <2>2. ~Allowed(k, counted)
    <3> HIDE DEF counted
    <3>1. PICK w \in Running(counted, MissKey(k), clock) : w.count >= w.limit
      BY <2>1 DEF Blocked
    <3>2. w.limit = WrongLimit /\ w.count \in Nat /\ WrongLimit \in Nat
      BY <2>1, <3>1, LimitTypes DEF Sound, Running, Own
    <3>3. ~(w.count < WrongLimit)
      BY <3>1, <3>2
    <3> QED
      BY <3>1, <3>3 DEF Allowed, Under
  <2>3. join' = join
    BY <1>1, <2>2 DEF Enter
  <2> QED
    BY <2>3
<1>2. ASSUME NEW l \in Callers, l # k,
             \/ Enter(l) \/ Check(l) \/ UnknownCode(l) \/ RecordMiss(l) \/ CountMiss(l)
             \/ \E c \in Codes : Match(l, c) \/ WrongShape(l, c)
      PROVE  join'[k] = join[k]
  BY <1>2 DEF TypeOK, Enter, Check, UnknownCode, RecordMiss, CountMiss, Match, WrongShape,
              Missed
<1>3. ~(\/ Check(k) \/ UnknownCode(k) \/ RecordMiss(k) \/ CountMiss(k)
        \/ \E c \in Codes : Match(k, c) \/ WrongShape(k, c))
  BY DEF Check, UnknownCode, RecordMiss, CountMiss, Match, WrongShape
<1>4. CASE Restart
  BY <1>4 DEF Restart, NoJoin
<1>5. CASE UNCHANGED join
  BY <1>5
<1> QED
  BY <1>1, <1>2, <1>3, <1>4, <1>5 DEF Next, vars, Claim, Crowded, Tick

(* BlockedWaits: "A window that has reached its limit is never evicted":   *)
(* however many keys flood a table of whatever size, an address that has   *)
(* spent its misses waits until its window is over or the instance ends,   *)
(* and starts no join in between.  (makeRoom, enforceRateLimit,            *)
(* assertUnderRateLimit)                                                   *)
THEOREM BlockedAddressesWait == Spec => BlockedWaits
<1> DEFINE Waits ==
        /\ \A key \in {MissKey(k) : k \in Callers} \cup {JoinKey(k) : k \in Callers} :
               Blocked(table, key, clock') => Blocked(table', key, clock') \/ table' = {}
        /\ \A k \in Callers :
               Blocked(table, MissKey(k), clock) /\ join[k].at = "idle" => join'[k].at = "idle"
<1>1. Init => Sound(table)
  BY DEF Init, Sound
<1>2. TypeOK /\ Sound(table) /\ [Next]_vars => [Waits]_vars
  BY BlockedStays, BlockedIdle
<1> QED
  BY <1>1, <1>2, NextSound, Accounts, PTL DEF Spec, BlockedWaits
===========================================================================
