--------------------------------- MODULE Quota ---------------------------------
(***************************************************************************)
(* What a limit of the subscription promises.  Each is a count that is     *)
(* read, compared with the limit in force, and followed some awaits later  *)
(* by the insert, with nothing that holds the place: requests under way    *)
(* may have counted before one another's insert.  `used' counts what an    *)
(* owner has, `seen' what a request counted, `ceiling' the highest limit   *)
(* the owner ever had.                                                     *)
(***************************************************************************)
EXTENDS Integers, FiniteSets

CONSTANTS Owners, Requests, Nobody, NoCap

VARIABLES
  used,     \* seats taken, by owner
  owner,    \* the owner whose seats a request has counted, or Nobody
  seen,     \* how many there were
  ceiling

quotaVars == <<used, owner, seen, ceiling>>

Below(n, cap) == cap = NoCap \/ n < cap

Caps == (Nat \ {0}) \cup {NoCap}

Init ==
  /\ ceiling \in [Owners -> Caps]
  /\ used \in [Owners -> Nat]
  /\ \A o \in Owners : ceiling[o] # NoCap => used[o] <= ceiling[o]
  /\ owner = [r \in Requests |-> Nobody]
  /\ seen \in [Requests -> Nat]

\* A request counts, with an intention to take one more.
Count(r, o) ==
  /\ owner[r] = Nobody
  /\ owner' = [owner EXCEPT ![r] = o]
  /\ seen' = [seen EXCEPT ![r] = used[o]]
  /\ UNCHANGED <<used, ceiling>>

\* It takes one more, whatever the others did meanwhile.
Take(r) ==
  /\ owner[r] # Nobody
  /\ Below(seen[r], ceiling[owner[r]])
  /\ used' = [used EXCEPT ![owner[r]] = @ + 1]
  /\ owner' = [owner EXCEPT ![r] = Nobody]
  /\ UNCHANGED ceiling
  /\ seen' = [seen EXCEPT ![r] = 0]

GiveUp(r) ==
  /\ owner[r] # Nobody
  /\ owner' = [owner EXCEPT ![r] = Nobody]
  /\ seen' = [seen EXCEPT ![r] = 0]
  /\ UNCHANGED <<used, ceiling>>

Release(o) ==
  /\ used[o] > 0
  /\ used' = [used EXCEPT ![o] = @ - 1]
  /\ UNCHANGED <<owner, seen, ceiling>>

\* The first seat comes with the owner, uncounted.
Found(o) ==
  /\ used[o] = 0
  /\ \A r \in Requests : owner[r] # o
  /\ used' = [used EXCEPT ![o] = 1]
  /\ UNCHANGED <<owner, seen, ceiling>>

\* Some limits are raised.
Raise ==
  /\ ceiling' \in [Owners -> Caps]
  /\ \A o \in Owners :
        IF ceiling[o] = NoCap THEN ceiling'[o] = NoCap
        ELSE ceiling'[o] = NoCap \/ ceiling[o] <= ceiling'[o]
  /\ UNCHANGED <<used, owner, seen>>

Next ==
  \/ \E r \in Requests : (\E o \in Owners : Count(r, o)) \/ Take(r) \/ GiveUp(r)
  \/ \E o \in Owners : Release(o) \/ Found(o)
  \/ Raise

Spec == Init /\ [][Next]_quotaVars

-----------------------------------------------------------------------------
QuotaTypeOK ==
  /\ used \in [Owners -> Nat]
  /\ owner \in [Requests -> Owners \cup {Nobody}]
  /\ seen \in [Requests -> Nat]
  /\ ceiling \in [Owners -> Caps]

\* The limit may be passed, but only by the requests that counted at the same time: by
\* one seat less than there are requests at once.
NearCeiling ==
  \A o \in Owners :
     ceiling[o] # NoCap => used[o] <= ceiling[o] + Cardinality(Requests) - 1
===============================================================================
