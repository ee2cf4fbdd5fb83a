-------------------------- MODULE GovernanceProofs --------------------------
(***************************************************************************)
(* Theorems about Governance, for any accounts, calls, proposals,          *)
(* thresholds, genesis members and bounds on the open motions.             *)
(***************************************************************************)
EXTENDS Governance, FiniteSetTheorems, TLAPS

(* The votes of a motion, by members.                                      *)
GoodVotes(ms, v) == v \in [threshold : Nat \ {0, 1}, ayes : SUBSET ms]

GoodMotions(ms, open, n) ==
  /\ IsFiniteSet(DOMAIN open)
  /\ Cardinality(DOMAIN open) <= n
  /\ \A p \in DOMAIN open : p \in Proposals /\ GoodVotes(ms, open[p])

(* Sound: what every dispatch preserves.                                   *)
Sound(st) ==
  /\ st.members \in [Committees -> SUBSET Accounts]
  /\ DOMAIN st.motions = Committees
  /\ \A c \in Committees : GoodMotions(st.members[c], st.motions[c], MaxProposals[c])
  /\ st.whitelisted \subseteq Calls
  /\ st.performed \subseteq Calls

(* GovInv: the inductive invariant.                                        *)
GovInv == Sound(Current) /\ performed \subseteq Calls /\ sudo_key \in BOOLEAN

LEMMA GovInvSuffices ==
  GovInv => TypeOK /\ VotersAreMembers
BY DEF GovInv, Sound, Current, State, GoodMotions, GoodVotes, TypeOK, VotersAreMembers

-----------------------------------------------------------------------------
(* Lemmas about the motions of one committee.                              *)

(* Ending a motion keeps the others as they are.                           *)
LEMMA WithoutMotionGood ==
  ASSUME NEW ms, NEW open, NEW n \in Nat, NEW p, GoodMotions(ms, open, n)
  PROVE  GoodMotions(ms, WithoutMotion(open, p), n)
<1>1. DOMAIN WithoutMotion(open, p) = DOMAIN open \ {p}
  BY DEF WithoutMotion
<1>2. /\ IsFiniteSet(DOMAIN open \ {p})
      /\ Cardinality(DOMAIN open \ {p}) <= Cardinality(DOMAIN open)
  BY FS_Subset DEF GoodMotions
<1>3. Cardinality(DOMAIN open) \in Nat /\ Cardinality(DOMAIN open \ {p}) \in Nat
  BY <1>2, FS_CardinalityType DEF GoodMotions
<1>4. \A q \in DOMAIN open \ {p} :
        q \in Proposals /\ GoodVotes(ms, WithoutMotion(open, p)[q])
  BY DEF GoodMotions, WithoutMotion
<1> QED
  BY <1>1, <1>2, <1>3, <1>4 DEF GoodMotions

(* A member leaves with its votes, for any set of the remaining members.   *)
LEMMA WithoutVoterGood ==
  ASSUME NEW ms, NEW open, NEW n \in Nat, NEW who, GoodMotions(ms, open, n)
  PROVE  GoodMotions(ms \ {who}, WithoutVoter(open, who), n)
<1>1. DOMAIN WithoutVoter(open, who) = DOMAIN open
  BY DEF WithoutVoter
<1>2. ASSUME NEW p \in DOMAIN open
      PROVE  GoodVotes(ms \ {who}, WithoutVoter(open, who)[p])
  BY DEF GoodMotions, GoodVotes, WithoutVoter, Votes
<1> QED
  BY <1>1, <1>2 DEF GoodMotions

(* More members, the same motions.                                         *)
LEMMA MoreMembersGood ==
  ASSUME NEW ms, NEW open, NEW n, NEW who, GoodMotions(ms, open, n)
  PROVE  GoodMotions(ms \union {who}, open, n)
BY DEF GoodMotions, GoodVotes

-----------------------------------------------------------------------------
(* Dispatch.                                                               *)

LEMMA StateSound ==
  ASSUME NEW ms \in [Committees -> SUBSET Accounts], NEW mo, DOMAIN mo = Committees,
         \A c \in Committees : GoodMotions(ms[c], mo[c], MaxProposals[c]),
         NEW wl \in SUBSET Calls, NEW pf \in SUBSET Calls
  PROVE  Sound(State(ms, mo, wl, pf))
BY DEF Sound, State

LEMMA EffectSound ==
  ASSUME NEW st, Sound(st), NEW call \in Calls
  PROVE  Sound(Effect(st, call))
<1> DEFINE c == call.committee
           r == Effect(st, call)
<1>0. c \in Committees /\ call.who \in Accounts /\ MaxProposals \in [Committees -> Nat]
  BY GovernanceAssumption
<1>s. /\ st.members \in [Committees -> SUBSET Accounts]
      /\ DOMAIN st.motions = Committees
      /\ \A k \in Committees : GoodMotions(st.members[k], st.motions[k], MaxProposals[k])
      /\ st.whitelisted \in SUBSET Calls
      /\ st.performed \in SUBSET Calls
  BY DEF Sound
<1>1. CASE call.op = "add_member"
  <2> DEFINE ms == [st.members EXCEPT ![c] = st.members[c] \union {call.who}]
  <2>1. r = State(ms, st.motions, st.whitelisted, st.performed)
    BY <1>1 DEF Effect
  <2>2. ms \in [Committees -> SUBSET Accounts]
    BY <1>0, <1>s
  <2>3. \A k \in Committees :
          ms[k] = IF k = c THEN st.members[k] \union {call.who} ELSE st.members[k]
    BY <1>s
  <2> HIDE DEF ms
  <2>4. ASSUME NEW k \in Committees
        PROVE  GoodMotions(ms[k], st.motions[k], MaxProposals[k])
    <3>1. GoodMotions(st.members[k] \union {call.who}, st.motions[k], MaxProposals[k])
      BY <1>s, MoreMembersGood
    <3> QED
      BY <1>s, <2>3, <3>1
  <2> QED
    BY <1>s, <2>1, <2>2, <2>4, StateSound
<1>2. CASE call.op = "remove_member"
  <2> DEFINE ms == [st.members EXCEPT ![c] = st.members[c] \ {call.who}]
             mo == [st.motions EXCEPT ![c] = WithoutVoter(st.motions[c], call.who)]
  <2>1. r = State(ms, mo, st.whitelisted, st.performed)
    BY <1>2 DEF Effect
  <2>2. ms \in [Committees -> SUBSET Accounts] /\ DOMAIN mo = Committees
    BY <1>0, <1>s
  <2>3. \A k \in Committees :
          /\ ms[k] = IF k = c THEN st.members[k] \ {call.who} ELSE st.members[k]
          /\ mo[k] = IF k = c THEN WithoutVoter(st.motions[k], call.who) ELSE st.motions[k]
    BY <1>s
  <2> HIDE DEF ms, mo
  <2>4. ASSUME NEW k \in Committees
        PROVE  GoodMotions(ms[k], mo[k], MaxProposals[k])
    <3>1. GoodMotions(st.members[k] \ {call.who}, WithoutVoter(st.motions[k], call.who),
                      MaxProposals[k])
      BY <1>0, <1>s, WithoutVoterGood
    <3> QED
      BY <1>s, <2>3, <3>1
  <2> QED
    BY <1>s, <2>1, <2>2, <2>4, StateSound
<1>3. CASE call.op # "add_member" /\ call.op # "remove_member"
  <2>1. r = State(st.members, st.motions, st.whitelisted, st.performed \union {call})
    BY <1>3 DEF Effect
  <2> QED
    BY <1>s, <2>1, StateSound
<1> QED
  BY <1>1, <1>2, <1>3

(* Ending a motion of a committee.                                         *)
LEMMA EndMotionSound ==
  ASSUME NEW st, Sound(st), NEW c \in Committees, NEW p
  PROVE  Sound(State(st.members,
                     [st.motions EXCEPT ![c] = WithoutMotion(st.motions[c], p)],
                     st.whitelisted, st.performed))
<1> DEFINE mo == [st.motions EXCEPT ![c] = WithoutMotion(st.motions[c], p)]
<1>1. DOMAIN mo = Committees
  BY DEF Sound
<1>2. ASSUME NEW k \in Committees
      PROVE  GoodMotions(st.members[k], mo[k], MaxProposals[k])
  <2>0. GoodMotions(st.members[k], st.motions[k], MaxProposals[k]) /\ MaxProposals[k] \in Nat
    BY GovernanceAssumption DEF Sound
  <2>1. CASE k = c
    <3>1. mo[k] = WithoutMotion(st.motions[k], p)
      BY <2>1 DEF Sound
    <3> QED
      BY <2>0, <3>1, WithoutMotionGood
  <2>2. CASE k # c
    BY <2>0, <2>2 DEF Sound
  <2> QED
    BY <2>1, <2>2
<1> HIDE DEF mo
<1>3. Sound(State(st.members, mo, st.whitelisted, st.performed))
  BY <1>1, <1>2, StateSound DEF Sound
<1> QED
  BY <1>3 DEF mo

LEMMA DispatchSound ==
  ASSUME NEW st, Sound(st), NEW o, NEW p \in Proposals
  PROVE  Sound(Dispatch(st, o, p))
<1> DEFINE r == Dispatch(st, o, p)
<1>0. p.call \in Calls /\ Treasury \in Committees /\ MaxProposals \in [Committees -> Nat]
  BY GovernanceAssumption DEF Committees
<1>1. CASE r = Effect(st, p.call)
  BY <1>0, <1>1, EffectSound
<1>2. CASE r = State(st.members, st.motions, st.whitelisted \union {p.call}, st.performed)
  BY <1>0, <1>2 DEF Sound, State
<1>3. CASE r = Effect(State(st.members, st.motions, st.whitelisted \ {p.call}, st.performed), p.call)
  <2>1. Sound(State(st.members, st.motions, st.whitelisted \ {p.call}, st.performed))
    BY DEF Sound, State
  <2> QED
    BY <1>0, <1>3, <2>1, EffectSound
<1>4. CASE r = State(st.members,
                     [st.motions EXCEPT ![Treasury] =
                        WithoutMotion(st.motions[Treasury], [via |-> "direct", call |-> p.call])],
                     st.whitelisted, st.performed)
  BY <1>0, <1>4, EndMotionSound
<1>5. CASE r = st
  BY <1>5
<1> QED
  BY <1>1, <1>2, <1>3, <1>4, <1>5 DEF Dispatch

-----------------------------------------------------------------------------
(* The inductive invariant.                                                *)

LEMMA BecomeSound ==
  ASSUME GovInv, NEW STATE st, Sound(st), Become(st), UNCHANGED sudo_key
  PROVE  GovInv'
BY DEF Become, GovInv, Current, State, Sound

LEMMA GovInvInit ==
  ASSUME Init
  PROVE  GovInv
<1>1. ASSUME NEW c \in Committees
      PROVE  GoodMotions(members[c], motions[c], MaxProposals[c])
  <2>1. motions[c] = [p \in {} |-> 0] /\ DOMAIN motions[c] = {}
    BY DEF Init
  <2>2. IsFiniteSet({}) /\ Cardinality({}) = 0
    BY FS_EmptySet
  <2>3. MaxProposals[c] \in Nat
    BY GovernanceAssumption
  <2> QED
    BY <2>1, <2>2, <2>3 DEF GoodMotions
<1>2. members \in [Committees -> SUBSET Accounts] /\ DOMAIN motions = Committees
  BY GovernanceAssumption DEF Init
<1>3. /\ whitelisted \in SUBSET Calls /\ {} \in SUBSET Calls
      /\ performed \subseteq Calls /\ sudo_key \in BOOLEAN
  BY DEF Init
<1> QED
  BY <1>1, <1>2, <1>3, StateSound DEF GovInv, Current

(* New votes on a motion, its first ones included, by members.             *)
LEMMA VotesSound ==
  ASSUME GovInv, NEW c \in Committees, NEW p \in Proposals, NEW v, GoodVotes(members[c], v),
         \/ p \in DOMAIN motions[c]
         \/ Cardinality(DOMAIN motions[c]) < MaxProposals[c],
         motions' = [motions EXCEPT ![c] =
           [q \in DOMAIN motions[c] \union {p} |-> IF q = p THEN v ELSE motions[c][q]]],
         performed' = {} /\ UNCHANGED <<members, whitelisted, sudo_key>>
  PROVE  GovInv'
<1> DEFINE open == [q \in DOMAIN motions[c] \union {p} |-> IF q = p THEN v ELSE motions[c][q]]
<1>s. /\ members \in [Committees -> SUBSET Accounts]
      /\ DOMAIN motions = Committees
      /\ \A k \in Committees : GoodMotions(members[k], motions[k], MaxProposals[k])
      /\ whitelisted \in SUBSET Calls
      /\ sudo_key \in BOOLEAN
  BY DEF GovInv, Current, State, Sound
<1>1. IsFiniteSet(DOMAIN motions[c]) /\ Cardinality(DOMAIN motions[c]) <= MaxProposals[c]
  BY <1>s DEF GoodMotions
<1>2. /\ IsFiniteSet(DOMAIN motions[c] \union {p})
      /\ Cardinality(DOMAIN motions[c] \union {p}) =
           IF p \in DOMAIN motions[c] THEN Cardinality(DOMAIN motions[c])
                                      ELSE Cardinality(DOMAIN motions[c]) + 1
  BY <1>1, FS_AddElement
<1>3. Cardinality(DOMAIN motions[c]) \in Nat /\ MaxProposals[c] \in Nat
  BY <1>1, FS_CardinalityType, GovernanceAssumption
<1>4. Cardinality(DOMAIN motions[c] \union {p}) <= MaxProposals[c]
  BY <1>1, <1>2, <1>3
<1>5. \A q \in DOMAIN motions[c] \union {p} : q \in Proposals /\ GoodVotes(members[c], open[q])
  BY <1>s DEF GoodMotions
<1>6. GoodMotions(members[c], open, MaxProposals[c])
  BY <1>2, <1>4, <1>5 DEF GoodMotions
<1> HIDE DEF open
<1>7. motions' = [motions EXCEPT ![c] = open]
  BY DEF open
<1>8. \A k \in Committees : motions'[k] = IF k = c THEN open ELSE motions[k]
  BY <1>s, <1>7
<1>9. \A k \in Committees : GoodMotions(members'[k], motions'[k], MaxProposals[k])
  BY <1>s, <1>6, <1>8
<1>10. DOMAIN motions' = Committees
  BY <1>s, <1>7
<1> QED
  BY <1>s, <1>9, <1>10 DEF GovInv, Current, State, Sound

LEMMA GovInvNext ==
  ASSUME GovInv, [Next]_vars
  PROVE  GovInv'
<1>a. \A c \in Committees : Agenda[c] \subseteq Proposals
  BY GovernanceAssumption
<1>1. ASSUME NEW c \in Committees, NEW who \in Accounts, NEW p \in Agenda[c],
             NEW threshold \in Thresholds, propose(c, who, p, threshold)
      PROVE  GovInv'
  <2>1. CASE Become(Dispatch(Current, Members(c, 1), p)) /\ UNCHANGED sudo_key
    <3>1. Sound(Dispatch(Current, Members(c, 1), p))
      BY <1>a, DispatchSound DEF GovInv
    <3> QED
      BY <2>1, <3>1, BecomeSound
  <2>2. CASE /\ threshold >= 2
             /\ Cardinality(DOMAIN motions[c]) < MaxProposals[c]
             /\ motions' = [motions EXCEPT ![c] =
                  [q \in DOMAIN motions[c] \union {p} |->
                     IF q = p THEN Votes(threshold, {}) ELSE motions[c][q]]]
             /\ performed' = {} /\ UNCHANGED <<members, whitelisted, sudo_key>>
    <3>1. GoodVotes(members[c], Votes(threshold, {}))
      BY <2>2, GovernanceAssumption DEF GoodVotes, Votes
    <3> QED
      BY <1>a, <2>2, <3>1, VotesSound
  <2> QED
    BY <1>1, <2>1, <2>2 DEF propose
<1>2. ASSUME NEW c \in Committees, NEW who \in Accounts, NEW p \in Agenda[c], vote(c, who, p)
      PROVE  GovInv'
  <2> DEFINE v == motions[c][p]
             ayes == IF who \in v.ayes THEN v.ayes \ {who} ELSE v.ayes \union {who}
  <2>1. p \in DOMAIN motions[c] /\ who \in members[c] /\ performed' = {} /\ UNCHANGED <<members, whitelisted, sudo_key>>
    BY <1>2 DEF vote
  <2>2. GoodVotes(members[c], v)
    BY <2>1 DEF GovInv, Current, State, Sound, GoodMotions
  <2>3. GoodVotes(members[c], Votes(v.threshold, ayes))
    BY <2>1, <2>2 DEF GoodVotes, Votes
  <2>4. motions' = [motions EXCEPT ![c] =
          [q \in DOMAIN motions[c] |-> IF q = p THEN Votes(v.threshold, ayes) ELSE motions[c][q]]]
    BY <1>2 DEF vote
  <2>5. DOMAIN motions[c] = DOMAIN motions[c] \union {p}
    BY <2>1
  <2> DEFINE w == Votes(v.threshold, ayes)
  <2>6. motions' = [motions EXCEPT ![c] =
          [q \in DOMAIN motions[c] \union {p} |-> IF q = p THEN w ELSE motions[c][q]]]
    BY <2>4, <2>5
  <2>7. GoodVotes(members[c], w)
    BY <2>3
  <2> HIDE DEF w
  <2> QED
    BY <1>a, <2>1, <2>6, <2>7, VotesSound
<1>3. ASSUME NEW c \in Committees, NEW p \in Agenda[c], close(c, p)
      PROVE  GovInv'
  <2> DEFINE v == motions[c][p]
             st == IF Cardinality(v.ayes) >= v.threshold
                   THEN Dispatch(Current, Members(c, Cardinality(v.ayes)), p)
                   ELSE Current
  <2>1. Sound(st)
    BY <1>a, DispatchSound DEF GovInv
  <2>2. Become(State(st.members,
                     [st.motions EXCEPT ![c] = WithoutMotion(st.motions[c], p)],
                     st.whitelisted, st.performed))
       /\ UNCHANGED sudo_key
    BY <1>3 DEF close
  <2> HIDE DEF st
  <2> QED
    BY <2>1, <2>2, EndMotionSound, BecomeSound
<1>4. ASSUME NEW p \in Proposals, sudo(p)
      PROVE  GovInv'
  <2>1. Sound(Dispatch(Current, Root, p))
    BY DispatchSound DEF GovInv
  <2> QED
    BY <1>4, <2>1, BecomeSound DEF sudo
<1>5. CASE remove_key
  BY <1>5 DEF remove_key, GovInv, Current, State, Sound
<1>6. CASE UNCHANGED vars
  BY <1>6 DEF vars, GovInv, Current, State, Sound
<1> QED
  BY <1>1, <1>2, <1>3, <1>4, <1>5, <1>6 DEF Next

(* GovernanceInductive: in every reachable state the motions of both
   committees are within bounds, ask for at least two ayes and have the ayes
   of members only.                                                        *)
THEOREM GovernanceInductive == Spec => []GovInv
BY GovInvInit, GovInvNext, PTL DEF Spec

(* AyesAreMembers: whatever the order of membership changes and votes, a
   removed member's aye counts in no motion (MembershipChanged reaches the
   collective).                                                            *)
THEOREM AyesAreMembers == Spec => [](TypeOK /\ VotersAreMembers)
BY GovernanceInductive, GovInvSuffices, PTL

(* MotionsBounded: no committee ever has more open motions than MaxProposals,
   and no motion, member, whitelisted or performed call of another type, a
   close and the dispatch that reenters the collective included.           *)
THEOREM MotionsBounded == Spec => []TypeOK
BY GovernanceInductive, GovInvSuffices, PTL

-----------------------------------------------------------------------------
(* Who stands behind a privileged call.                                    *)

(* What an origin other than Root has to be for the runtime's origins.     *)
Strong(o) == o.ayes * 3 > 2 * o.seats \/ o.ayes >= o.seats

(* What changes between two states.                                        *)
TechnicalChange(st, r) ==
  \/ r.members[Technical] # st.members[Technical]
  \/ r.whitelisted # st.whitelisted
  \/ \E call \in r.performed \ st.performed : call.op = "set_code"

TreasuryChange(st, r) ==
  \/ r.members[Treasury] # st.members[Treasury]
  \/ \E call \in r.performed \ st.performed : call.op = "spend_local"

(* The effect of a call, on the committee it names and no other.           *)
LEMMA EffectChanges ==
  ASSUME NEW st, Sound(st), NEW call \in Calls
  PROVE  LET r == Effect(st, call) IN
         /\ r.whitelisted = st.whitelisted
         /\ TechnicalChange(st, r) =>
              \/ call.op \in {"add_member", "remove_member"} /\ call.committee = Technical
              \/ call.op = "set_code"
         /\ TreasuryChange(st, r) =>
              \/ call.op \in {"add_member", "remove_member"} /\ call.committee = Treasury
              \/ call.op = "spend_local"
<1> DEFINE c == call.committee
           r == Effect(st, call)
<1>0. c \in Committees /\ Technical \in Committees /\ Treasury \in Committees
  BY GovernanceAssumption DEF Committees
<1>s. st.members \in [Committees -> SUBSET Accounts]
  BY DEF Sound
<1>1. CASE call.op \in {"add_member", "remove_member"}
  <2>1. r.whitelisted = st.whitelisted /\ r.performed = st.performed
    BY <1>1 DEF Effect, State
  <2>2. \A k \in Committees : k # c => r.members[k] = st.members[k]
    BY <1>1, <1>s DEF Effect, State
  <2> QED
    BY <1>0, <1>1, <2>1, <2>2 DEF TechnicalChange, TreasuryChange
<1>2. CASE call.op \notin {"add_member", "remove_member"}
  <2>1. /\ r.whitelisted = st.whitelisted
        /\ r.members = st.members
        /\ r.performed = st.performed \union {call}
    BY <1>2 DEF Effect, State
  <2> QED
    BY <2>1 DEF TechnicalChange, TreasuryChange
<1> QED
  BY <1>1, <1>2

(* What an origin other than Root can bring about.                         *)
LEMMA DispatchPower ==
  ASSUME NEW st, Sound(st), NEW o, ~o.root, NEW p \in Proposals
  PROVE  LET r == Dispatch(st, o, p) IN
         /\ TechnicalChange(st, r) => o.committee = Technical /\ Strong(o)
         /\ TreasuryChange(st, r) => o.committee \in {Technical, Treasury} /\ Strong(o)
<1> DEFINE r == Dispatch(st, o, p)
<1>0. p.call \in Calls
  BY GovernanceAssumption
<1>1. CASE p.via = "direct" /\ Allowed(o, p.call)
  <2>1. r = Effect(st, p.call)
    BY <1>1 DEF Dispatch
  <2>2. /\ p.call.op = "set_code" => FALSE
        /\ p.call.op = "spend_local" => o.committee = Treasury /\ Strong(o)
        /\ p.call.op \in {"add_member", "remove_member"} => o.committee = p.call.committee /\ Strong(o)
    BY <1>1 DEF Allowed, SpendOrigin, AddOrigin, RemoveOrigin, EnsureTwoThirds, EnsureAll, Strong
  <2> QED
    BY <1>0, <2>1, <2>2, EffectChanges
<1>2. CASE WhitelistOrigin(o)
  BY <1>2 DEF WhitelistOrigin, EnsureTwoThirds, Strong
<1>3. CASE ~(p.via = "direct" /\ Allowed(o, p.call)) /\ ~WhitelistOrigin(o)
  <2>1. r.members = st.members /\ r.whitelisted = st.whitelisted /\ r.performed = st.performed
    BY <1>3 DEF Dispatch, State
  <2> QED
    BY <2>1 DEF TechnicalChange, TreasuryChange
<1> QED
  BY <1>1, <1>2, <1>3

(* A committee's members are finitely many, and so are the ayes of a motion. *)
LEMMA Seats ==
  ASSUME GovInv, NEW c \in Committees
  PROVE  /\ IsFiniteSet(members[c]) /\ Cardinality(members[c]) \in Nat
         /\ \A ayes \in SUBSET members[c] : Cardinality(ayes) \in Nat
<1>1. members[c] \subseteq Accounts
  BY DEF GovInv, Current, State, Sound
<1>2. IsFiniteSet(members[c])
  BY <1>1, FS_Subset, GovernanceAssumption
<1> QED
  BY <1>2, FS_Subset, FS_CardinalityType

(* A motion that is closed with effect: its committee stands behind it.    *)
LEMMA ClosedIsBacked ==
  ASSUME GovInv, NEW c \in Committees, NEW p \in DOMAIN motions[c] \ DOMAIN motions'[c],
         Cardinality(motions[c][p].ayes) >= motions[c][p].threshold,
         Strong(Members(c, Cardinality(motions[c][p].ayes)))
  PROVE  Backed(c)
<1> DEFINE n == Cardinality(motions[c][p].ayes)
           m == Cardinality(members[c])
<1>1. GoodVotes(members[c], motions[c][p])
  BY DEF GovInv, Current, State, Sound, GoodMotions
<1>2. motions[c][p].threshold \in Nat \ {0, 1} /\ motions[c][p].ayes \in SUBSET members[c]
  BY <1>1 DEF GoodVotes
<1>3. n \in Nat /\ m \in Nat
  BY <1>2, Seats
<1>4. n * 3 > 2 * m \/ n >= m
  BY DEF Strong, Members
<1>5. n >= motions[c][p].threshold
  OBVIOUS
<1> HIDE DEF n, m
<1>6. n >= 1
  BY <1>2, <1>3, <1>5
<1>7. 3 * n > 2 * m
  BY <1>3, <1>4, <1>6
<1> QED
  BY <1>7 DEF n, m, Backed

(* A member that acts alone is the only one.                               *)
LEMMA AloneIsBacked ==
  ASSUME GovInv, NEW c \in Committees, NEW who \in members[c], Strong(Members(c, 1))
  PROVE  Backed(c)
<1>1. IsFiniteSet(members[c]) /\ Cardinality(members[c]) \in Nat
  BY Seats
<1>2. Cardinality(members[c]) # 0
  BY <1>1, FS_EmptySet
<1>3. 1 * 3 > 2 * Cardinality(members[c]) \/ 1 >= Cardinality(members[c])
  BY DEF Strong, Members
<1>4. Cardinality(members[c]) = 1
  BY <1>1, <1>2, <1>3
<1> QED
  BY <1>4 DEF Backed

(* The steps the two properties speak of.                                  *)
TechnicalStep ==
  \/ members'[Technical] # members[Technical]
  \/ whitelisted' # whitelisted
  \/ Did({"set_code"})

TreasuryStep == members'[Treasury] # members[Treasury] \/ Did({"spend_local"})

LEMMA StepIsChange ==
  ASSUME NEW STATE r, members' = r.members, whitelisted' = r.whitelisted, performed' = r.performed
  PROVE  /\ TechnicalStep => TechnicalChange(Current, r)
         /\ TreasuryStep => TreasuryChange(Current, r)
BY DEF TechnicalStep, TreasuryStep, TechnicalChange, TreasuryChange, Did, Current, State

(* A proposal that a committee's members bring about, alone or by a motion. *)
LEMMA CommitteeStep ==
  ASSUME GovInv, NEW c \in Committees, NEW p \in Proposals, NEW STATE n,
         Strong(Members(c, n)) => Backed(c),
         members' = Dispatch(Current, Members(c, n), p).members,
         whitelisted' = Dispatch(Current, Members(c, n), p).whitelisted,
         performed' = Dispatch(Current, Members(c, n), p).performed
  PROVE  /\ TechnicalStep => Backed(Technical)
         /\ TreasuryStep => Backed(Treasury) \/ Backed(Technical)
<1> DEFINE o == Members(c, n)
           r == Dispatch(Current, o, p)
<1>1. ~o.root /\ o.committee = c
  BY DEF Members
<1>2. /\ TechnicalChange(Current, r) => o.committee = Technical /\ Strong(o)
      /\ TreasuryChange(Current, r) => o.committee \in {Technical, Treasury} /\ Strong(o)
  BY <1>1, DispatchPower DEF GovInv
<1>3. /\ TechnicalStep => TechnicalChange(Current, r)
      /\ TreasuryStep => TreasuryChange(Current, r)
  BY StepIsChange
<1>4. Strong(o) => Backed(c)
  OBVIOUS
<1> HIDE DEF o, r
<1> QED
  BY <1>1, <1>2, <1>3, <1>4

LEMMA PowersNext ==
  ASSUME GovInv, Next
  PROVE  /\ TechnicalStep => Backed(Technical) \/ sudo_key
         /\ TreasuryStep => Backed(Treasury) \/ Backed(Technical) \/ sudo_key
<1> DEFINE Goal == /\ TechnicalStep => Backed(Technical) \/ sudo_key
                   /\ TreasuryStep => Backed(Treasury) \/ Backed(Technical) \/ sudo_key
<1>a. \A c \in Committees : Agenda[c] \subseteq Proposals
  BY GovernanceAssumption
<1>0. ASSUME performed' = {} /\ UNCHANGED <<members, whitelisted, sudo_key>>
      PROVE  Goal
  BY <1>0 DEF TechnicalStep, TreasuryStep, Did
<1>1. ASSUME NEW c \in Committees, NEW who \in Accounts, NEW p \in Agenda[c],
             NEW threshold \in Thresholds, propose(c, who, p, threshold)
      PROVE  Goal
  <2>1. CASE Become(Dispatch(Current, Members(c, 1), p)) /\ UNCHANGED sudo_key
    <3>1. Strong(Members(c, 1)) => Backed(c)
      BY <1>1, AloneIsBacked DEF propose
    <3> QED
      BY <1>a, <2>1, <3>1, CommitteeStep DEF Become
  <2>2. CASE performed' = {} /\ UNCHANGED <<members, whitelisted, sudo_key>>
    BY <1>0, <2>2
  <2> QED
    BY <1>1, <2>1, <2>2 DEF propose
<1>2. ASSUME NEW c \in Committees, NEW who \in Accounts, NEW p \in Agenda[c], vote(c, who, p)
      PROVE  Goal
  BY <1>0, <1>2 DEF vote
<1>3. ASSUME NEW c \in Committees, NEW p \in Agenda[c], close(c, p)
      PROVE  Goal
  <2> DEFINE v == motions[c][p]
             n == Cardinality(v.ayes)
             st == Dispatch(Current, Members(c, n), p)
  <2>1. CASE n >= v.threshold
    <3>0. p \in DOMAIN motions[c] /\ p \notin DOMAIN motions'[c]
      <4>1. DOMAIN st.motions = Committees
        BY <1>a, DispatchSound DEF GovInv, Sound
      <4>2. motions' = [st.motions EXCEPT ![c] = WithoutMotion(st.motions[c], p)]
        BY <1>3, <2>1 DEF close, Become, State
      <4> HIDE DEF st
      <4>3. motions'[c] = WithoutMotion(st.motions[c], p)
        BY <4>1, <4>2
      <4>4. p \in DOMAIN motions[c]
        BY <1>3 DEF close
      <4> QED
        BY <4>3, <4>4 DEF WithoutMotion
    <3>1. Strong(Members(c, n)) => Backed(c)
      BY <2>1, <3>0, ClosedIsBacked
    <3>2. /\ members' = Dispatch(Current, Members(c, n), p).members
          /\ whitelisted' = Dispatch(Current, Members(c, n), p).whitelisted
          /\ performed' = Dispatch(Current, Members(c, n), p).performed
      BY <1>3, <2>1 DEF close, Become, State
    <3> HIDE DEF n
    <3> QED
      BY <1>a, <3>1, <3>2, CommitteeStep
  <2>2. CASE ~(n >= v.threshold)
    <3>1. performed' = {} /\ UNCHANGED <<members, whitelisted, sudo_key>>
      BY <1>3, <2>2 DEF close, Become, State, Current
    <3> QED
      BY <1>0, <3>1
  <2> QED
    BY <2>1, <2>2
<1>4. ASSUME NEW p \in Proposals, sudo(p)
      PROVE  Goal
  BY <1>4 DEF sudo
<1>5. CASE remove_key
  BY <1>0, <1>5 DEF remove_key
<1> QED
  BY <1>1, <1>2, <1>3, <1>4, <1>5 DEF Next

(* RootIsTwoThirds: once the sudo key is gone, the Technical Committee's
   members, the whitelist and what is done as Root follow more than two thirds of the
   committee as it is at that moment.                                      *)
THEOREM RootIsTwoThirds == Spec => TechnicalPowers
<1>1. GovInv /\ [Next]_vars =>
        [(\/ members'[Technical] # members[Technical]
          \/ whitelisted' # whitelisted
          \/ Did({"set_code"})) => Backed(Technical) \/ sudo_key]_vars
  BY PowersNext DEF TechnicalStep
<1> QED
  BY <1>1, GovernanceInductive, PTL DEF Spec, TechnicalPowers

(* TreasuryIsTwoThirds: once the sudo key is gone, the Treasury Council's
   members and its spending follow more than two thirds of the council or of the Technical
   Committee.                                                              *)
THEOREM TreasuryIsTwoThirds == Spec => TreasuryPowers
<1>1. GovInv /\ [Next]_vars =>
        [(members'[Treasury] # members[Treasury] \/ Did({"spend_local"}))
           => Backed(Treasury) \/ Backed(Technical) \/ sudo_key]_vars
  BY PowersNext DEF TreasuryStep
<1> QED
  BY <1>1, GovernanceInductive, PTL DEF Spec, TreasuryPowers
=============================================================================
