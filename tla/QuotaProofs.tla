------------------------------ MODULE QuotaProofs ------------------------------
(***************************************************************************)
(* What a Quota promises, for any number of owners and requests: counting  *)
(* first and taking later exceeds the limit by fewer places than there are *)
(* requests.  A request that counted less than a cap stands for a place    *)
(* that may still be taken below that cap, so places taken and requests of *)
(* that kind are counted together, for every cap from the limit upwards:   *)
(* the limit may be raised between a count and the take.                   *)
(***************************************************************************)
EXTENDS Quota, FiniteSetTheorems, TLAPS

\* The hypotheses, of the instances in the systems too.
Finite == IsFiniteSet(Requests) /\ Requests # {}
Distinct == Nobody \notin Owners /\ NoCap \notin Nat

CountedBelow(o, c) == {r \in Requests : owner[r] = o /\ seen[r] < c}

PlacesBelow(o, c) == used[o] + Cardinality(CountedBelow(o, c)) < c + Cardinality(Requests)

WithinReach(o) ==
  ceiling[o] # NoCap => \A c \in Nat : ceiling[o] <= c => PlacesBelow(o, c)

QuotaInv == QuotaTypeOK /\ \A o \in Owners : WithinReach(o)

\* There is at least one request.
LEMMA SomeRequest ==
  ASSUME Finite PROVE Cardinality(Requests) \in Nat /\ Cardinality(Requests) >= 1
<1>1. Cardinality(Requests) \in Nat BY FS_CardinalityType DEF Finite
<1>2. Cardinality(Requests) # 0 BY FS_EmptySet DEF Finite
<1> QED BY <1>1, <1>2

\* The requests that counted less than a cap are at most all of them.
LEMMA CountedIsBounded ==
  ASSUME Finite, NEW o, NEW c
  PROVE  /\ IsFiniteSet(CountedBelow(o, c))
         /\ Cardinality(CountedBelow(o, c)) \in Nat
         /\ Cardinality(CountedBelow(o, c)) <= Cardinality(Requests)
<1>1. CountedBelow(o, c) \subseteq Requests BY DEF CountedBelow
<1> QED BY <1>1, FS_Subset, FS_CardinalityType DEF Finite

\* Nobody has counted at first.
LEMMA InitReach == ASSUME Finite, Distinct, Init PROVE QuotaInv
<1>1. QuotaTypeOK BY DEF Init, QuotaTypeOK, Caps
<1>2. ASSUME NEW o \in Owners, ceiling[o] # NoCap, NEW c \in Nat, ceiling[o] <= c
      PROVE  PlacesBelow(o, c)
  <2>1. CountedBelow(o, c) = {} BY DEF Init, CountedBelow, Distinct
  <2>2. Cardinality(CountedBelow(o, c)) = 0 BY <2>1, FS_EmptySet
  <2>3. used[o] \in Nat /\ ceiling[o] \in Nat /\ used[o] <= ceiling[o]
    BY <1>1, <1>2 DEF Init, QuotaTypeOK, Caps
  <2> QED BY <1>2, <2>2, <2>3, SomeRequest DEF PlacesBelow
<1> QED BY <1>1, <1>2 DEF QuotaInv, WithinReach

\* Every step keeps the types.
LEMMA TypeStep == ASSUME QuotaTypeOK, [Next]_quotaVars PROVE QuotaTypeOK'
<1>1. ASSUME NEW r \in Requests, NEW o \in Owners, Count(r, o) PROVE QuotaTypeOK'
  BY <1>1 DEF Count, QuotaTypeOK
<1>2. ASSUME NEW r \in Requests, Take(r) PROVE QuotaTypeOK'
  BY <1>2 DEF Take, QuotaTypeOK
<1>3. ASSUME NEW r \in Requests, GiveUp(r) PROVE QuotaTypeOK'
  BY <1>3 DEF GiveUp, QuotaTypeOK
<1>4. ASSUME NEW o \in Owners, Release(o) PROVE QuotaTypeOK'
  BY <1>4 DEF Release, QuotaTypeOK
<1>5. ASSUME NEW o \in Owners, Found(o) PROVE QuotaTypeOK'
  BY <1>5 DEF Found, QuotaTypeOK
<1>6. CASE Raise BY <1>6 DEF Raise, QuotaTypeOK
<1>7. CASE UNCHANGED quotaVars BY <1>7 DEF quotaVars, QuotaTypeOK
<1> QED BY <1>1, <1>2, <1>3, <1>4, <1>5, <1>6, <1>7 DEF Next

\* A request that counts below a cap finds a place free under it.
LEMMA CountReach ==
  ASSUME Finite, Distinct, QuotaInv, NEW r \in Requests, NEW p \in Owners, Count(r, p),
         NEW o \in Owners, ceiling[o] # NoCap, NEW c \in Nat, ceiling[o] <= c
  PROVE  PlacesBelow(o, c)'
<1>1. used' = used BY DEF Count
<1>2. used[o] \in Nat /\ PlacesBelow(o, c)
  BY DEF QuotaInv, QuotaTypeOK, WithinReach
<1>3. CASE p = o /\ used[o] < c
  <2>1. CountedBelow(o, c)' \subseteq Requests BY DEF CountedBelow
  <2>2. /\ Cardinality(CountedBelow(o, c)') \in Nat
        /\ Cardinality(CountedBelow(o, c)') <= Cardinality(Requests)
    BY <2>1, FS_Subset, FS_CardinalityType DEF Finite
  <2>3. Cardinality(CountedBelow(o, c))' = Cardinality(CountedBelow(o, c)')
    OBVIOUS
  <2> QED BY <1>1, <1>2, <1>3, <2>2, <2>3, SomeRequest DEF PlacesBelow
<1>4. CASE ~(p = o /\ used[o] < c)
  <2>1. CountedBelow(o, c)' = CountedBelow(o, c)
    BY <1>4 DEF Count, CountedBelow, QuotaInv, QuotaTypeOK, Distinct
  <2> QED BY <1>1, <1>2, <2>1 DEF PlacesBelow
<1> QED BY <1>3, <1>4

\* Whoever takes a place stops standing for one.
LEMMA TakeReach ==
  ASSUME Finite, Distinct, QuotaInv, NEW r \in Requests, Take(r),
         NEW o \in Owners, ceiling[o] # NoCap, NEW c \in Nat, ceiling[o] <= c
  PROVE  PlacesBelow(o, c)'
<1>1. used[o] \in Nat /\ ceiling[o] \in Nat /\ seen[r] \in Nat /\ PlacesBelow(o, c)
  BY DEF QuotaInv, QuotaTypeOK, WithinReach, Caps
<1>2. CASE owner[r] = o
  <2>1. r \in CountedBelow(o, c)
    BY <1>1, <1>2 DEF CountedBelow, Take, Below
  <2>2. CountedBelow(o, c)' = CountedBelow(o, c) \ {r}
    BY <1>2 DEF CountedBelow, Take, QuotaInv, QuotaTypeOK, Distinct
  <2>3. Cardinality(CountedBelow(o, c) \ {r}) = Cardinality(CountedBelow(o, c)) - 1
    BY <2>1, CountedIsBounded, FS_RemoveElement
  <2>4. used'[o] = used[o] + 1 BY <1>2 DEF Take, QuotaInv, QuotaTypeOK
  <2> QED BY <1>1, <2>2, <2>3, <2>4, CountedIsBounded, SomeRequest DEF PlacesBelow
<1>3. CASE owner[r] # o
  <2>1. CountedBelow(o, c)' = CountedBelow(o, c)
    BY <1>3 DEF CountedBelow, Take, QuotaInv, QuotaTypeOK, Distinct
  <2>2. used'[o] = used[o] BY <1>3 DEF Take, QuotaInv, QuotaTypeOK
  <2> QED BY <1>1, <2>1, <2>2 DEF PlacesBelow
<1> QED BY <1>2, <1>3

\* Giving up leaves fewer requests that stand for a place.
LEMMA GiveUpReach ==
  ASSUME Finite, Distinct, QuotaInv, NEW r \in Requests, GiveUp(r),
         NEW o \in Owners, ceiling[o] # NoCap, NEW c \in Nat, ceiling[o] <= c
  PROVE  PlacesBelow(o, c)'
<1>1. used[o] \in Nat /\ PlacesBelow(o, c) /\ used' = used
  BY DEF QuotaInv, QuotaTypeOK, WithinReach, GiveUp
<1>2. CountedBelow(o, c)' \subseteq CountedBelow(o, c)
  BY DEF CountedBelow, GiveUp, QuotaInv, QuotaTypeOK, Distinct
<1>3. /\ Cardinality(CountedBelow(o, c)') \in Nat
      /\ Cardinality(CountedBelow(o, c)') <= Cardinality(CountedBelow(o, c))
  BY <1>2, CountedIsBounded, FS_Subset, FS_CardinalityType
<1> QED BY <1>1, <1>3, CountedIsBounded, SomeRequest DEF PlacesBelow

\* Places given back or founded, and limits that are raised, leave the counts alone.
LEMMA ReleaseReach ==
  ASSUME Finite, QuotaInv, NEW p \in Owners, Release(p),
         NEW o \in Owners, ceiling[o] # NoCap, NEW c \in Nat, ceiling[o] <= c
  PROVE  PlacesBelow(o, c)'
<1>1. used[o] \in Nat /\ PlacesBelow(o, c)
  BY DEF QuotaInv, QuotaTypeOK, WithinReach
<1>2. used'[o] \in Nat /\ used'[o] <= used[o]
  BY DEF Release, QuotaInv, QuotaTypeOK
<1>3. CountedBelow(o, c)' = CountedBelow(o, c) BY DEF CountedBelow, Release
<1> QED BY <1>1, <1>2, <1>3, CountedIsBounded, SomeRequest DEF PlacesBelow

LEMMA FoundReach ==
  ASSUME Finite, QuotaInv, NEW p \in Owners, Found(p),
         NEW o \in Owners, ceiling[o] # NoCap, NEW c \in Nat, ceiling[o] <= c
  PROVE  PlacesBelow(o, c)'
<1>1. used[o] \in Nat /\ PlacesBelow(o, c) /\ ceiling[o] \in Nat \ {0}
  BY DEF QuotaInv, QuotaTypeOK, WithinReach, Caps
<1>2. CountedBelow(o, c)' = CountedBelow(o, c) BY DEF CountedBelow, Found
<1>3. CASE p = o
  <2>1. CountedBelow(o, c)' = {} BY <1>3 DEF CountedBelow, Found
  <2>2. Cardinality(CountedBelow(o, c)') = 0 BY <2>1, FS_EmptySet
  <2>3. used'[o] = 1 BY <1>3 DEF Found, QuotaInv, QuotaTypeOK
  <2> QED BY <1>1, <2>2, <2>3, SomeRequest DEF PlacesBelow
<1>4. CASE p # o
  <2>1. used'[o] = used[o] BY <1>4 DEF Found, QuotaInv, QuotaTypeOK
  <2> QED BY <1>1, <1>2, <2>1 DEF PlacesBelow
<1> QED BY <1>3, <1>4

\* Every step keeps the invariant.
LEMMA ReachStep == ASSUME Finite, Distinct, QuotaInv, [Next]_quotaVars PROVE QuotaInv'
<1>1. QuotaTypeOK' BY TypeStep DEF QuotaInv
<1>2. ASSUME NEW o \in Owners, ceiling'[o] # NoCap, NEW c \in Nat, ceiling'[o] <= c
      PROVE  PlacesBelow(o, c)'
  <2>1. ASSUME NEW r \in Requests, NEW p \in Owners, Count(r, p) PROVE PlacesBelow(o, c)'
    <3>1. ceiling' = ceiling BY <2>1 DEF Count
    <3> QED BY <1>2, <2>1, <3>1, CountReach
  <2>2. ASSUME NEW r \in Requests, Take(r) PROVE PlacesBelow(o, c)'
    <3>1. ceiling' = ceiling BY <2>2 DEF Take
    <3> QED BY <1>2, <2>2, <3>1, TakeReach
  <2>3. ASSUME NEW r \in Requests, GiveUp(r) PROVE PlacesBelow(o, c)'
    <3>1. ceiling' = ceiling BY <2>3 DEF GiveUp
    <3> QED BY <1>2, <2>3, <3>1, GiveUpReach
  <2>4. ASSUME NEW p \in Owners, Release(p) PROVE PlacesBelow(o, c)'
    <3>1. ceiling' = ceiling BY <2>4 DEF Release
    <3> QED BY <1>2, <2>4, <3>1, ReleaseReach
  <2>5. ASSUME NEW p \in Owners, Found(p) PROVE PlacesBelow(o, c)'
    <3>1. ceiling' = ceiling BY <2>5 DEF Found
    <3> QED BY <1>2, <2>5, <3>1, FoundReach
  <2>6. CASE Raise
    <3>1. ceiling[o] # NoCap /\ ceiling[o] <= ceiling'[o] BY <1>2, <2>6 DEF Raise
    <3>2. ceiling[o] \in Nat /\ ceiling'[o] \in Nat
      BY <1>1, <1>2, <3>1 DEF QuotaInv, QuotaTypeOK, Caps
    <3>3. ceiling[o] <= c BY <1>2, <3>1, <3>2
    <3>4. PlacesBelow(o, c) BY <3>1, <3>3 DEF QuotaInv, WithinReach
    <3> QED BY <2>6, <3>4 DEF Raise, PlacesBelow, CountedBelow
  <2>7. CASE UNCHANGED quotaVars
    <3>1. ceiling' = ceiling BY <2>7 DEF quotaVars
    <3>2. PlacesBelow(o, c) BY <1>2, <3>1 DEF QuotaInv, WithinReach
    <3> QED BY <2>7, <3>2 DEF quotaVars, PlacesBelow, CountedBelow
  <2> QED BY <2>1, <2>2, <2>3, <2>4, <2>5, <2>6, <2>7 DEF Next
<1> QED BY <1>1, <1>2 DEF QuotaInv, WithinReach

\* The invariant says what is promised: the limit is a cap like any other.
LEMMA ReachImpliesNear == ASSUME Finite, Distinct, QuotaInv PROVE NearCeiling
<1> SUFFICES ASSUME NEW o \in Owners, ceiling[o] # NoCap
             PROVE  used[o] <= ceiling[o] + Cardinality(Requests) - 1
  BY DEF NearCeiling
<1>1. ceiling[o] \in Nat /\ used[o] \in Nat BY DEF QuotaInv, QuotaTypeOK, Caps
<1>2. PlacesBelow(o, ceiling[o]) BY <1>1 DEF QuotaInv, WithinReach
<1> QED BY <1>1, <1>2, CountedIsBounded, SomeRequest DEF PlacesBelow

\* A limit that is counted first and taken later, as the code does for users and for
\* workspaces, is exceeded by fewer places than there are requests at once, however the
\* limits rise meanwhile.
THEOREM QuotaHolds == ASSUME Finite, Distinct PROVE Spec => []NearCeiling
<1>1. Init => QuotaInv BY InitReach
<1>2. QuotaInv /\ [Next]_quotaVars => QuotaInv' BY ReachStep
<1>3. QuotaInv => NearCeiling BY ReachImpliesNear
<1> QED BY <1>1, <1>2, <1>3, PTL DEF Spec
===============================================================================
