------------------------------ MODULE Pipeline ------------------------------
(***************************************************************************)
(* What the selection of validators promises, whatever lists, statuses and *)
(* sorts it is made of.  Accounts register and become fit or unfit by      *)
(* their calls.  At a session end everybody moves one stage on:            *)
(*                                                                         *)
(*   waiting -> chosen -> queued -> active                                 *)
(*                                                                         *)
(* Only fit accounts enter, the Desired ones are always among those        *)
(* waiting, no place is wasted, and a registration is forgotten only when  *)
(* the account was unfit and is in no stage any more.                      *)
(***************************************************************************)
EXTENDS Naturals, FiniteSets

CONSTANTS Accounts, Desired, Capacity

VARIABLES
  registered,   \* accounts with a candidate entry
  fit,          \* those of them that are bonded, online and not leaving
  waiting, chosen, queued, active

stages == <<waiting, chosen, queued, active>>
vars == <<registered, fit, stages>>

Init ==
  /\ registered = {}
  /\ fit = {}
  /\ waiting = Desired /\ chosen = Desired /\ queued = Desired /\ active = Desired

-----------------------------------------------------------------------------
(* A new registration is not fit yet: it has no bond.                      *)
Register(who) ==
  /\ who \notin registered
  /\ registered' = registered \union {who}
  /\ UNCHANGED <<fit, stages>>

(* Fitness changes at any time, in whatever stage the account is.          *)
BecomeFit(who) ==
  /\ who \in registered
  /\ fit' = fit \union {who}
  /\ UNCHANGED <<registered, stages>>

BecomeUnfit(who) ==
  /\ fit' = fit \ {who}
  /\ UNCHANGED <<registered, stages>>

-----------------------------------------------------------------------------
(* A validator may be found stale.                                         *)
Slash == fit' \subseteq fit /\ fit \ fit' \subseteq active \ Desired

(* Who has no session keys is left out of the queued set.                  *)
Advance ==
  /\ chosen' = waiting
  /\ queued' \subseteq waiting
  /\ active' = queued

Enter ==
  \E picks \in SUBSET (fit' \ Desired) :
    /\ waiting' = Desired \union picks
    /\ Cardinality(waiting') <= Capacity
    /\ picks = fit' \ Desired \/ Cardinality(waiting') = Capacity

Forget ==
  /\ registered' \subseteq registered
  /\ \A who \in registered \ registered' :
       who \notin fit /\ who \notin (waiting' \union chosen' \union queued' \union active') \ Desired

Session == Slash /\ Advance /\ Enter /\ Forget

Next ==
  \/ \E who \in Accounts : Register(who) \/ BecomeFit(who) \/ BecomeUnfit(who)
  \/ Session

Spec == Init /\ [][Next]_vars
=============================================================================
