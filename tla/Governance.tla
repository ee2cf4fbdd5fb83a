----------------------------- MODULE Governance -----------------------------
(***************************************************************************)
(* The two committees of runtime/src/configs/mod.rs, each a collective     *)
(* whose members a membership pallet manages, with the whitelist through   *)
(* which the Technical Committee acts as Root, and sudo.  The origins are  *)
(* this repository's; collective, membership, whitelist and sudo are       *)
(* external and modelled from how the runtime configures them.             *)
(*                                                                         *)
(* A motion that is not approved may be closed at any time: the model has  *)
(* neither the motion's duration nor the nays that close it early.  No     *)
(* prime member is set, so an abstention never counts as an aye.           *)
(***************************************************************************)
EXTENDS Integers, FiniteSets

CONSTANTS
  Accounts,
  Calls,            \* the privileged calls considered, records [op, committee, who]
  Proposals,        \* what may be proposed or sent by sudo, records [via, call]
  Agenda,           \* committee -> the proposals its members make
  Thresholds,       \* thresholds proposers may ask for
  GenesisMembers,   \* committee -> accounts
  MaxProposals      \* committee -> how many motions may be open

Technical == "TechnicalCommittee"
Treasury  == "TreasuryCouncil"
Committees == {Technical, Treasury}

Ops == {"spend_local", "set_code", "add_member", "remove_member"}
Vias == {"direct", "whitelist_call", "dispatch_whitelisted_call", "disapprove_proposal"}

ASSUME GovernanceAssumption ==
  /\ IsFiniteSet(Accounts)
  /\ Calls \subseteq [op : Ops, committee : Committees, who : Accounts]
  /\ Proposals \subseteq [via : Vias, call : Calls]
  /\ Agenda \in [Committees -> SUBSET Proposals]
  /\ Thresholds \subseteq Nat
  /\ GenesisMembers \in [Committees -> SUBSET Accounts]
  /\ MaxProposals \in [Committees -> Nat]

VARIABLES
  members,       \* committee -> accounts
  motions,       \* committee -> (open proposal -> [threshold, ayes])
  whitelisted,   \* calls on the whitelist
  sudo_key,      \* whether there is a sudo key
  performed      \* history: the calls, other than membership changes, of the last step

vars == <<members, motions, whitelisted, sudo_key, performed>>

(* Genesis seeds the membership pallets, which initialize the collectives,
   and sets a sudo key.                                                    *)
Init ==
  /\ members = GenesisMembers
  /\ motions = [c \in Committees |-> [p \in {} |-> 0]]
  /\ whitelisted = {}
  /\ sudo_key = TRUE
  /\ performed = {}

-----------------------------------------------------------------------------
(* Origins: Root, or `ayes` of the `seats` of a committee.                 *)

Root == [root |-> TRUE, committee |-> Technical, ayes |-> 0, seats |-> 0]

Members(c, ayes) ==
  [root |-> FALSE, committee |-> c, ayes |-> ayes, seats |-> Cardinality(members[c])]

(* Mutant: two thirds are enough.                                          *)
EnsureTwoThirds_AtLeast(c, o) == ~o.root /\ o.committee = c /\ o.ayes * 3 >= 2 * o.seats

(* EnsureProportionMoreThan<_, _, 2, 3>, for either committee.             *)
EnsureTwoThirds(c, o) == ~o.root /\ o.committee = c /\ o.ayes * 3 > 2 * o.seats

(* EnsureProportionAtLeast<_, _, 1, 1>.                                    *)
EnsureAll(c, o) == ~o.root /\ o.committee = c /\ o.ayes >= o.seats

(* Mutant: any motion of the council spends.                               *)
SpendOrigin_AnyMotion(o) == o.root \/ o.committee = Treasury

(* The origins of the treasury's spend calls, of the membership pallets' add
   and remove, of vetoes against the council and of both whitelist calls, of
   which the last does not accept Root.                                    *)
SpendOrigin(o) == o.root \/ EnsureTwoThirds(Treasury, o)
AddOrigin(c, o) == o.root \/ EnsureTwoThirds(c, o)
RemoveOrigin(c, o) == o.root \/ EnsureAll(c, o)
DisapproveOrigin(o) == o.root \/ EnsureAll(Technical, o)
WhitelistOrigin(o) == EnsureTwoThirds(Technical, o)

(* Who may make a privileged call; set_code, of the system pallet, is for Root
   alone.  (The freezer's origin is in AccountFreezer.)                    *)
Allowed(o, call) ==
  \/ call.op = "spend_local" /\ SpendOrigin(o)
  \/ call.op = "add_member" /\ AddOrigin(call.committee, o)
  \/ call.op = "remove_member" /\ RemoveOrigin(call.committee, o)
  \/ call.op = "set_code" /\ o.root

-----------------------------------------------------------------------------
(* Dispatch, as a function of the state: a call that fails changes nothing. *)

State(ms, mo, wl, pf) == [members |-> ms, motions |-> mo, whitelisted |-> wl, performed |-> pf]

Current == State(members, motions, whitelisted, {})

Become(st) ==
  /\ members' = st.members
  /\ motions' = st.motions
  /\ whitelisted' = st.whitelisted
  /\ performed' = st.performed

Votes(threshold, ayes) == [threshold |-> threshold, ayes |-> ayes]

(* A member that leaves takes its votes along.                             *)
WithoutVoter(open, who) ==
  [p \in DOMAIN open |-> Votes(open[p].threshold, open[p].ayes \ {who})]

WithoutMotion(open, p) == [q \in DOMAIN open \ {p} |-> open[q]]

(* Mutant: the collective keeps the votes of a member that leaves.         *)
Effect_VotesKept(st, call) ==
  LET c == call.committee IN
  IF call.op = "add_member"
  THEN State([st.members EXCEPT ![c] = st.members[c] \union {call.who}], st.motions,
             st.whitelisted, st.performed)
  ELSE IF call.op = "remove_member"
  THEN State([st.members EXCEPT ![c] = st.members[c] \ {call.who}], st.motions,
             st.whitelisted, st.performed)
  ELSE State(st.members, st.motions, st.whitelisted, st.performed \union {call})

(* A membership change reaches the collective through MembershipChanged.   *)
Effect(st, call) ==
  LET c == call.committee IN
  IF call.op = "add_member"
  THEN State([st.members EXCEPT ![c] = st.members[c] \union {call.who}], st.motions,
             st.whitelisted, st.performed)
  ELSE IF call.op = "remove_member"
  THEN State([st.members EXCEPT ![c] = st.members[c] \ {call.who}],
             [st.motions EXCEPT ![c] = WithoutVoter(st.motions[c], call.who)],
             st.whitelisted, st.performed)
  ELSE State(st.members, st.motions, st.whitelisted, st.performed \union {call})

(* A call made directly, its hash put on the whitelist (origin: two thirds of
   the Technical Committee, not Root), a whitelisted call made as Root, or a
   motion of the Treasury Council about it vetoed.                         *)
Dispatch(st, o, p) ==
  IF p.via = "direct" /\ Allowed(o, p.call)
  THEN Effect(st, p.call)
  ELSE IF p.via = "whitelist_call" /\ WhitelistOrigin(o)
  THEN State(st.members, st.motions, st.whitelisted \union {p.call}, st.performed)
  ELSE IF /\ p.via = "dispatch_whitelisted_call" /\ WhitelistOrigin(o)
          /\ p.call \in st.whitelisted /\ Allowed(Root, p.call)
  THEN Effect(State(st.members, st.motions, st.whitelisted \ {p.call}, st.performed), p.call)
  ELSE IF p.via = "disapprove_proposal" /\ DisapproveOrigin(o)
  THEN State(st.members,
             [st.motions EXCEPT ![Treasury] =
                WithoutMotion(st.motions[Treasury], [via |-> "direct", call |-> p.call])],
             st.whitelisted, st.performed)
  ELSE st

-----------------------------------------------------------------------------
(* The collective.                                                         *)

(* Mutant: the number of open motions is not bounded.                      *)
propose_Unbounded(c, who, p, threshold) ==
  /\ who \in members[c]
  /\ threshold >= 2
  /\ p \notin DOMAIN motions[c]
  /\ motions' = [motions EXCEPT ![c] =
       [q \in DOMAIN motions[c] \union {p} |->
          IF q = p THEN Votes(threshold, {}) ELSE motions[c][q]]]
  /\ performed' = {}
  /\ UNCHANGED <<members, whitelisted, sudo_key>>

(* Below a threshold of two the proposal is dispatched at once, with one aye. *)
propose(c, who, p, threshold) ==
  /\ who \in members[c]
  /\ p \notin DOMAIN motions[c]
  /\ \/ threshold < 2 /\ Become(Dispatch(Current, Members(c, 1), p)) /\ UNCHANGED sudo_key
     \/ /\ threshold >= 2
        /\ Cardinality(DOMAIN motions[c]) < MaxProposals[c]
        /\ motions' = [motions EXCEPT ![c] =
             [q \in DOMAIN motions[c] \union {p} |->
                IF q = p THEN Votes(threshold, {}) ELSE motions[c][q]]]
        /\ performed' = {}
        /\ UNCHANGED <<members, whitelisted, sudo_key>>

(* An aye, or an aye turned into a nay.                                    *)
vote(c, who, p) ==
  /\ who \in members[c]
  /\ p \in DOMAIN motions[c]
  /\ LET v == motions[c][p]
         ayes == IF who \in v.ayes THEN v.ayes \ {who} ELSE v.ayes \union {who}
     IN  motions' = [motions EXCEPT ![c] =
           [q \in DOMAIN motions[c] |->
              IF q = p THEN Votes(v.threshold, ayes) ELSE motions[c][q]]]
  /\ performed' = {}
  /\ UNCHANGED <<members, whitelisted, sudo_key>>

(* The motion ends whether or not its proposal can be dispatched.          *)
close(c, p) ==
  /\ p \in DOMAIN motions[c]
  /\ LET v == motions[c][p]
         st == IF Cardinality(v.ayes) >= v.threshold
               THEN Dispatch(Current, Members(c, Cardinality(v.ayes)), p)
               ELSE Current
     IN  Become(State(st.members,
                      [st.motions EXCEPT ![c] = WithoutMotion(st.motions[c], p)],
                      st.whitelisted, st.performed))
  /\ UNCHANGED sudo_key

sudo(p) == sudo_key /\ Become(Dispatch(Current, Root, p)) /\ UNCHANGED sudo_key

remove_key ==
  /\ sudo_key
  /\ sudo_key' = FALSE
  /\ performed' = {}
  /\ UNCHANGED <<members, motions, whitelisted>>

Next ==
  \/ \E c \in Committees, who \in Accounts : \E p \in Agenda[c] :
       \/ \E threshold \in Thresholds : propose(c, who, p, threshold)
       \/ vote(c, who, p)
  \/ \E c \in Committees : \E p \in Agenda[c] : close(c, p)
  \/ \E p \in Proposals : sudo(p)
  \/ remove_key

Spec == Init /\ [][Next]_vars

-----------------------------------------------------------------------------
(* TypeOK: types, and the bound on the number of open motions.             *)
TypeOK ==
  /\ members \in [Committees -> SUBSET Accounts]
  /\ DOMAIN motions = Committees
  /\ \A c \in Committees :
       /\ DOMAIN motions[c] \subseteq Proposals
       /\ Cardinality(DOMAIN motions[c]) <= MaxProposals[c]
       /\ \A p \in DOMAIN motions[c] : motions[c][p] \in [threshold : Nat, ayes : SUBSET Accounts]
  /\ whitelisted \subseteq Calls
  /\ sudo_key \in BOOLEAN
  /\ performed \subseteq Calls

(* VotersAreMembers: whatever membership changes are made while motions are
   open, by motion, as Root through the whitelist or by sudo, the ayes of a
   motion are those of members.                                            *)
VotersAreMembers ==
  \A c \in Committees : \A p \in DOMAIN motions[c] : motions[c][p].ayes \subseteq members[c]

(* A motion ends with more than two thirds of the members of c behind it, or
   c has a single member, that may act alone.                              *)
Backed(c) ==
  \/ \E p \in DOMAIN motions[c] \ DOMAIN motions'[c] :
       3 * Cardinality(motions[c][p].ayes) > 2 * Cardinality(members[c])
  \/ Cardinality(members[c]) = 1

Did(ops) == \E call \in performed' : call.op \in ops

(* TechnicalPowers: once the sudo key is gone, nobody enters or leaves the
   Technical Committee, nothing is put on the whitelist or taken off it and no
   code is replaced as Root, unless by a motion that more than two thirds of
   the committee as it is then stand behind ("Once Sudo is removed, Root is
   only reachable through a 2/3 Technical Committee motion").              *)
TechnicalPowers ==
  [][(\/ members'[Technical] # members[Technical]
      \/ whitelisted' # whitelisted
      \/ Did({"set_code"})) => Backed(Technical) \/ sudo_key]_vars

(* TreasuryPowers: once the sudo key is gone, the Treasury Council's members
   and the treasury's money follow a motion of two thirds of the council, or
   Root, that is a motion of two thirds of the Technical Committee.        *)
TreasuryPowers ==
  [][(members'[Treasury] # members[Treasury] \/ Did({"spend_local"}))
       => Backed(Treasury) \/ Backed(Technical) \/ sudo_key]_vars
=============================================================================
