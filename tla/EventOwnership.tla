---------------------------- MODULE EventOwnership ----------------------------
(***************************************************************************)
(* What the event ledger promises: each webhook event is owned at most     *)
(* once, by one handler, however often and however concurrently it is      *)
(* delivered; and once its owner is done no handler works on it again.     *)
(***************************************************************************)
EXTENDS Naturals

CONSTANT Handlers

VARIABLES
  claimed,   \* ids of the events that have been owned
  owners     \* owners[h]: the event h owns, 0 when it owns none

ownershipVars == <<claimed, owners>>

OwnershipInit ==
  /\ claimed = {}
  /\ owners = [h \in Handlers |-> 0]

Own(h, e) ==
  /\ e \notin claimed
  /\ owners[h] = 0
  /\ claimed' = claimed \cup {e}
  /\ owners' = [owners EXCEPT ![h] = e]

\* An event that needs no work is claimed and done at once.
OwnAndRelease(h, e) ==
  /\ e \notin claimed
  /\ owners[h] = 0
  /\ claimed' = claimed \cup {e}
  /\ UNCHANGED owners

Release(h) ==
  /\ owners[h] # 0
  /\ owners' = [owners EXCEPT ![h] = 0]
  /\ UNCHANGED claimed

OwnershipNext ==
  \E h \in Handlers :
     \/ Release(h)
     \/ \E e \in claimed' \ claimed : Own(h, e) \/ OwnAndRelease(h, e)

OwnershipSpec == OwnershipInit /\ [][OwnershipNext]_ownershipVars
===============================================================================
