----------------------------- MODULE XodeStaking -----------------------------
(***************************************************************************)
(* pallet-xode-staking driven by the session pallet: candidates bond and   *)
(* collect delegations, and at every session boundary they move one stage  *)
(* along the pipeline                                                      *)
(*                                                                         *)
(*   ProposedCandidates -> WaitingCandidates -> Invulnerables              *)
(*                      -> QueuedKeys -> Validators                        *)
(*                                                                         *)
(* A signed call either succeeds (an action) or is rolled back as a whole  *)
(* (no step).  A block is one action: the hooks that run at its start,     *)
(* XodeStaking::on_initialize and then Session::on_initialize, which ends  *)
(* the session when the block number is a multiple of SessionPeriod.       *)
(* Calls run after those hooks, inside the block.                          *)
(***************************************************************************)
EXTENDS Balances, Vectors

CONSTANTS
  DesiredCandidates,            \* genesis validators, a vector of accounts
  MaxCandidates,                \* capacity of every bounded vector below
  MaxDelegationsPerCandidate,
  MinCandidateBond,
  MaxStalingPeriod,             \* in blocks
  SessionPeriod,                \* in blocks
  Endowment,                    \* free balance of every account at genesis
  MaxBlock                      \* bound: the last block explored

CONSTANTS                       \* inputs: who signs which call, with what
  CandidateSigners, DelegatorSigners, CorrectionSigners, KeySigners,
  Bonds, Stakes, Commissions, Corrections

ASSUME DesiredAssumption ==
  /\ DesiredCandidates \in Seq(Accounts)
  /\ DesiredCandidates # <<>>
  /\ IsInjective(DesiredCandidates)
  /\ Len(DesiredCandidates) <= MaxCandidates

ASSUME ConfigAssumption ==
  /\ MaxCandidates \in Nat
  /\ MaxDelegationsPerCandidate \in Nat
  /\ MinCandidateBond \in Nat \ {0}
  /\ MaxStalingPeriod \in Nat
  /\ SessionPeriod \in Nat \ {0}
  /\ Endowment \in Nat
  /\ MaxBlock \in Nat

ASSUME InputAssumption ==
  /\ CandidateSigners \subseteq Accounts
  /\ DelegatorSigners \subseteq Accounts
  /\ CorrectionSigners \subseteq Accounts
  /\ KeySigners \subseteq Accounts
  /\ Bonds \subseteq Nat
  /\ Stakes \subseteq Nat
  /\ Commissions \subseteq Nat
  /\ Corrections \subseteq Nat

VARIABLES
  ProposedCandidates,   \* vector of CandidateInfo
  WaitingCandidates,    \* vector of accounts: the next Invulnerables
  Invulnerables,        \* vector of accounts: the set handed to the session pallet
  Delegations,          \* candidate -> (delegator -> stake)
  ActualAuthors,        \* who has authored in this session
  Validators,           \* session pallet: the active set
  QueuedKeys,           \* session pallet: the set of the next session
  NextKeys,             \* session pallet: the accounts that have session keys
  block_number          \* system pallet

session  == <<Validators, QueuedKeys, NextKeys>>
pipeline == <<WaitingCandidates, Invulnerables>>
vars == <<account, ProposedCandidates, pipeline, Delegations, ActualAuthors, session, block_number>>

Status == {"Offline", "Online", "Waiting", "Queuing", "Authoring"}

CandidateInfo ==
  [who : Accounts, bond : Nat, total_stake : Nat, last_updated : Nat, last_authored : Nat,
   leaving : BOOLEAN, offline : BOOLEAN, commission : 0 .. 100, status : Status]

(* The delegations to one candidate: each delegator has one entry.         *)
IsDelegations(f) ==
  /\ DOMAIN f \subseteq Accounts
  /\ IsFiniteSet(DOMAIN f)
  /\ Cardinality(DOMAIN f) <= MaxDelegationsPerCandidate
  /\ f \in [DOMAIN f -> Nat]

Desired == Range(DesiredCandidates)

Registered(who) == \E c \in Range(ProposedCandidates) : c.who = who

(* Mutant: the Invulnerables are not looked at.                            *)
OutOfPipeline_NoQueuingCheck(who) ==
  who \notin Range(WaitingCandidates) /\ who \notin Range(Validators)

(* The checks StillWaiting, StillQueuing and StillAuthoring.               *)
OutOfPipeline(who) ==
  /\ who \notin Range(WaitingCandidates)
  /\ who \notin Range(Invulnerables)
  /\ who \notin Range(Validators)

-----------------------------------------------------------------------------
(* The genesis presets endow every account alike, and give the validators
   they make desired candidates their session keys.                        *)
GenesisBalances == [a \in Accounts |-> Data(Endowment, 0, 0)]
GenesisKeys == Desired

(* Genesis.  The session pallet takes Validators from new_session(0) and
   QueuedKeys from new_session(1); XodeStaking is built before it.         *)
Init ==
  /\ account = GenesisBalances
  /\ ProposedCandidates = <<>>
  /\ WaitingCandidates = DesiredCandidates
  /\ Invulnerables = DesiredCandidates
  /\ Delegations = [a \in Accounts |-> [d \in {} |-> 0]]
  /\ ActualAuthors = {}
  /\ Validators = DesiredCandidates
  /\ QueuedKeys = DesiredCandidates
  /\ NextKeys = GenesisKeys
  /\ block_number = 0

-----------------------------------------------------------------------------
(* Ranking: online candidates first, then the highest bond + total_stake,
   then the one updated longest ago.  `sort_by` is stable.                 *)
Combined(c) == c.bond + c.total_stake

RanksBefore(a, b) ==
  \/ ~a.offline /\ b.offline
  \/ /\ a.offline = b.offline
     /\ \/ Combined(a) > Combined(b)
        \/ Combined(a) = Combined(b) /\ a.last_updated < b.last_updated

SortOrder(candidates) ==
  {p \in (DOMAIN candidates) \X (DOMAIN candidates) :
     \/ RanksBefore(candidates[p[1]], candidates[p[2]])
     \/ ~RanksBefore(candidates[p[2]], candidates[p[1]]) /\ p[1] <= p[2]}

sort_proposed_candidates(candidates) ==
  Arrange(candidates, DOMAIN candidates, SortOrder(candidates))

(* The list with the entry of c.who replaced by c.  A call finds the entry
   of an account (`find(|c| c.who == who)`), changes it and writes the list
   back; there is one such entry (UniqueCandidates).                       *)
Amend(candidates, c) ==
  [i \in DOMAIN candidates |-> IF candidates[i].who = c.who THEN c ELSE candidates[i]]

(* Mutant: sums the delegations as they were before the call.              *)
recompute_total_stake_Stale(candidate, delegations) ==
  \E c \in Range(ProposedCandidates) :
    /\ c.who = candidate
    /\ ProposedCandidates' = sort_proposed_candidates(
         Amend(ProposedCandidates, [c EXCEPT !.total_stake = Total(Delegations[candidate]),
                                             !.last_updated = block_number]))

(* Mutant: does not sort.                                                  *)
recompute_total_stake_Unsorted(candidate, delegations) ==
  \E c \in Range(ProposedCandidates) :
    /\ c.who = candidate
    /\ ProposedCandidates' =
         Amend(ProposedCandidates, [c EXCEPT !.total_stake = Total(delegations),
                                             !.last_updated = block_number])

(* Sets the sum of the delegations in the candidate and re-sorts; fails, and
   the whole call with it, when the candidate is not registered.           *)
recompute_total_stake(candidate, delegations) ==
  \E c \in Range(ProposedCandidates) :
    /\ c.who = candidate
    /\ ProposedCandidates' = sort_proposed_candidates(
         Amend(ProposedCandidates, [c EXCEPT !.total_stake = Total(delegations),
                                             !.last_updated = block_number]))

-----------------------------------------------------------------------------
(* The calls.                                                              *)

(* Mutant: the default status.                                             *)
NewCandidate_DefaultStatus(who) ==
  [who |-> who, bond |-> 0, total_stake |-> 0, last_updated |-> block_number,
   last_authored |-> block_number, leaving |-> FALSE, offline |-> FALSE,
   commission |-> 0, status |-> "Offline"]

NewCandidate(who) ==
  [who |-> who, bond |-> 0, total_stake |-> 0, last_updated |-> block_number,
   last_authored |-> block_number, leaving |-> FALSE, offline |-> FALSE,
   commission |-> 0, status |-> "Online"]

(* Mutant: an account that is registered may register again.               *)
register_candidate_Again(who) ==
  /\ Len(ProposedCandidates) < MaxCandidates
  /\ ProposedCandidates' = Append(ProposedCandidates, NewCandidate(who))
  /\ UNCHANGED <<account, pipeline, Delegations, ActualAuthors, session, block_number>>

register_candidate(who) ==
  /\ ~Registered(who)
  /\ Len(ProposedCandidates) < MaxCandidates
  /\ ProposedCandidates' = Append(ProposedCandidates, NewCandidate(who))
  /\ UNCHANGED <<account, pipeline, Delegations, ActualAuthors, session, block_number>>

(* Mutant: the freeze is not looked at.                                    *)
AdjustReserve_FreezeIgnored(who, bond, new_bond) ==
  \/ /\ new_bond > bond
     /\ account[who].free >= new_bond - bond + ExistentialDeposit
     /\ account' = [account EXCEPT ![who] =
                      Data(@.free - (new_bond - bond), @.reserved + (new_bond - bond), @.frozen)]
  \/ new_bond <= bond /\ unreserve(who, bond - new_bond)

(* Mutant: a reserve that fails is not noticed.                            *)
AdjustReserve_Unchecked(who, bond, new_bond) ==
  \/ new_bond > bond /\ (reserve(who, new_bond - bond) \/ UNCHANGED account)
  \/ new_bond <= bond /\ unreserve(who, bond - new_bond)

(* The bond grows by a reserve, shrinks by an unreserve.                   *)
AdjustReserve(who, bond, new_bond) ==
  \/ /\ new_bond > bond
     /\ account[who].free >= new_bond - bond
     /\ reserve(who, new_bond - bond)
  \/ new_bond < bond /\ unreserve(who, bond - new_bond)
  \/ new_bond = bond /\ UNCHANGED account

bond_candidate(who, new_bond) ==
  /\ new_bond = 0 => OutOfPipeline(who)
  /\ new_bond # 0 => new_bond >= MinCandidateBond
  /\ \E c \in Range(ProposedCandidates) :
       /\ c.who = who
       /\ AdjustReserve(who, c.bond, new_bond)
       /\ ProposedCandidates' = sort_proposed_candidates(
            Amend(ProposedCandidates, [c EXCEPT !.bond = new_bond,
                                                !.last_updated = block_number]))
  /\ UNCHANGED <<pipeline, Delegations, ActualAuthors, session, block_number>>

(* Changes last_updated, a sort key, but does not sort.                    *)
set_commission_of_candidate(who, commission) ==
  /\ commission \in 1 .. 100
  /\ \E c \in Range(ProposedCandidates) :
       /\ c.who = who
       /\ ProposedCandidates' =
            Amend(ProposedCandidates, [c EXCEPT !.commission = commission,
                                                !.last_updated = block_number])
  /\ UNCHANGED <<account, pipeline, Delegations, ActualAuthors, session, block_number>>

(* One more entry, or a larger one.                                        *)
AddDelegation(delegations, who, amount) ==
  [d \in DOMAIN delegations \union {who} |->
     IF d \notin DOMAIN delegations THEN amount
     ELSE IF d = who THEN delegations[d] + amount ELSE delegations[d]]

stake_candidate(who, candidate, amount) ==
  /\ who # candidate
  /\ Registered(candidate)
  /\ account[who].free >= amount
  /\ reserve(who, amount)
  /\ \/ who \in DOMAIN Delegations[candidate]
     \/ Cardinality(DOMAIN Delegations[candidate]) < MaxDelegationsPerCandidate
  /\ LET delegations == AddDelegation(Delegations[candidate], who, amount)
     IN  /\ Delegations' = [Delegations EXCEPT ![candidate] = delegations]
         /\ recompute_total_stake(candidate, delegations)
  /\ UNCHANGED <<pipeline, ActualAuthors, session, block_number>>

(* Mutant: the entry stays on record.                                      *)
RemoveDelegation_Forgotten(delegations, who) == delegations

RemoveDelegation(delegations, who) ==
  [d \in DOMAIN delegations \ {who} |-> delegations[d]]

unstake_candidate(who, candidate) ==
  /\ who \in DOMAIN Delegations[candidate]
  /\ unreserve(who, Delegations[candidate][who])
  /\ LET delegations == RemoveDelegation(Delegations[candidate], who)
     IN  /\ Delegations' = [Delegations EXCEPT ![candidate] = delegations]
         /\ recompute_total_stake(candidate, delegations)
  /\ UNCHANGED <<pipeline, ActualAuthors, session, block_number>>

(* set_offline, and the sort that follows it in both calls.                *)
set_offline(who, offline) ==
  \E c \in Range(ProposedCandidates) :
    /\ c.who = who
    /\ ProposedCandidates' = sort_proposed_candidates(
         Amend(ProposedCandidates, [c EXCEPT !.offline = offline,
                                             !.last_updated = block_number]))

offline_candidate(who) ==
  /\ set_offline(who, TRUE)
  /\ UNCHANGED <<account, pipeline, Delegations, ActualAuthors, session, block_number>>

online_candidate(who) ==
  /\ set_offline(who, FALSE)
  /\ UNCHANGED <<account, pipeline, Delegations, ActualAuthors, session, block_number>>

(* The closing remove_from_waiting finds nothing to remove: StillWaiting has
   been checked.                                                           *)
leave_candidate(who) ==
  /\ OutOfPipeline(who)
  /\ \E c \in Range(ProposedCandidates) :
       /\ c.who = who
       /\ c.offline
       /\ ProposedCandidates' =
            Amend(ProposedCandidates, [c EXCEPT !.leaving = TRUE,
                                                !.last_updated = block_number])
  /\ UNCHANGED <<account, pipeline, Delegations, ActualAuthors, session, block_number>>

(* Releases an amount the caller chooses, and does not sort.               *)
bond_correction(who, frozen_balance) ==
  /\ OutOfPipeline(who)
  /\ unreserve(who, frozen_balance)
  /\ \E c \in Range(ProposedCandidates) :
       /\ c.who = who
       /\ c.offline
       /\ ProposedCandidates' =
            Amend(ProposedCandidates, [c EXCEPT !.bond = 0, !.last_updated = block_number])
  /\ UNCHANGED <<pipeline, Delegations, ActualAuthors, session, block_number>>

-----------------------------------------------------------------------------
(* Session keys, calls of the session pallet.  Without keys an account is
   left out of QueuedKeys.                                                 *)
set_keys(who) ==
  /\ who \notin NextKeys
  /\ NextKeys' = NextKeys \union {who}
  /\ UNCHANGED <<account, ProposedCandidates, pipeline, Delegations, ActualAuthors,
                 Validators, QueuedKeys, block_number>>

purge_keys(who) ==
  /\ who \in NextKeys
  /\ NextKeys' = NextKeys \ {who}
  /\ UNCHANGED <<account, ProposedCandidates, pipeline, Delegations, ActualAuthors,
                 Validators, QueuedKeys, block_number>>

-----------------------------------------------------------------------------
(* The start of a block.                                                   *)

(* The author is resolved against the active set; `authors` has at most
   one account.                                                            *)
BlockAuthors ==
  IF Validators = <<>> THEN {{}} ELSE {{v} : v \in Range(Validators)}

Authored(c, now) == [c EXCEPT !.last_authored = now]

(* Mutant: last_authored is not updated.                                   *)
record_authored_block_Forgotten(candidates, authors, now) == candidates

record_authored_block(candidates, authors, now) ==
  [i \in DOMAIN candidates |->
     IF candidates[i].who \in authors THEN Authored(candidates[i], now) ELSE candidates[i]]

add_actual_author(authors) ==
  IF Cardinality(ActualAuthors) < MaxCandidates THEN ActualAuthors \union authors
                                                ELSE ActualAuthors

(* end_session, step by step, on the list of candidates.                   *)

WithStatus(c, status) == [c EXCEPT !.status = status]

queue_authors(candidates, waiting) ==
  [i \in DOMAIN candidates |->
     IF candidates[i].status = "Waiting" /\ candidates[i].who \in Range(waiting)
     THEN WithStatus(candidates[i], "Queuing")
     ELSE candidates[i]]

(* Mutant: the waiting list is added to the old set.                       *)
NextInvulnerables_Merged ==
  Invulnerables \o Retain(WaitingCandidates,
                          {i \in DOMAIN WaitingCandidates :
                             WaitingCandidates[i] \notin Range(Invulnerables)})

(* An empty waiting list keeps the old set.                                *)
NextInvulnerables ==
  IF WaitingCandidates = <<>> THEN Invulnerables ELSE WaitingCandidates

(* Mutant: one block too late.                                             *)
IsStale_OneLate(c, authors, now) ==
  /\ c.who \in Range(Validators)
  /\ c.who \notin authors
  /\ c.who \notin Desired
  /\ now > c.last_authored + MaxStalingPeriod + 1

IsStale(c, authors, now) ==
  /\ c.who \in Range(Validators)
  /\ c.who \notin authors
  /\ c.who \notin Desired
  /\ now > c.last_authored + MaxStalingPeriod

TakenOffline(c, now) == [c EXCEPT !.offline = TRUE, !.last_updated = now]

MarkStale(candidates, authors, now) ==
  [i \in DOMAIN candidates |->
     IF IsStale(candidates[i], authors, now) THEN TakenOffline(candidates[i], now)
                                             ELSE candidates[i]]

slash_stale_authors(candidates, authors, now) ==
  IF \E c \in Range(candidates) : IsStale(c, authors, now)
  THEN sort_proposed_candidates(MarkStale(candidates, authors, now))
  ELSE candidates

Fit(c) == c.bond # 0 /\ ~c.leaving /\ ~c.offline

(* Mutant: an author falls back two stages at once.                        *)
Downgraded_TwoStages(c) == IF Fit(c) THEN c ELSE WithStatus(c, "Waiting")

(* An unfit candidate falls back one stage per session, then is dropped.
   (The waiting list it is also removed from is rebuilt right after.)      *)
Downgraded(c) ==
  IF Fit(c) THEN c
  ELSE WithStatus(c, IF c.status = "Authoring" THEN "Queuing" ELSE "Waiting")

(* Mutant: a queued candidate is dropped.                                  *)
Kept_OnlyAuthors(c) == Fit(c) \/ c.status = "Authoring"

(* Mutant: a candidate at the bottom is kept as well.                      *)
Kept_Everybody(c) == Fit(c) \/ c.status \in {"Waiting", "Queuing", "Authoring"}

Kept(c) == Fit(c) \/ c.status \in {"Queuing", "Authoring"}

prepare_next_waiting_list(candidates) ==
  LET kept == Retain(candidates, {i \in DOMAIN candidates : Kept(candidates[i])})
  IN  [i \in DOMAIN kept |-> Downgraded(kept[i])]

(* Mutant: leaves no room for the desired candidates.                      *)
Chosen_NoRoom(candidates) ==
  LET fit == Retain(candidates, {i \in DOMAIN candidates :
                                   Fit(candidates[i]) /\ candidates[i].who \notin Desired})
  IN  SubSeq(fit, 1, MinOf(Len(fit), MaxCandidates))

(* Mutant: chooses a desired candidate once more.                          *)
Chosen_Again(candidates) ==
  LET fit == Retain(candidates, {i \in DOMAIN candidates : Fit(candidates[i])})
  IN  SubSeq(fit, 1, MinOf(Len(fit), MaxCandidates - Len(DesiredCandidates)))

(* Mutant: leaves one place empty.                                         *)
Chosen_OneLess(candidates) ==
  LET fit == Retain(candidates, {i \in DOMAIN candidates :
                                   Fit(candidates[i]) /\ candidates[i].who \notin Desired})
  IN  SubSeq(fit, 1, MinOf(Len(fit), MaxCandidates - Len(DesiredCandidates) - 1))

(* The fit candidates that are not desired, best first, as many as there is
   room for behind the desired ones.                                       *)
Chosen(candidates) ==
  LET fit == Retain(candidates, {i \in DOMAIN candidates :
                                   Fit(candidates[i]) /\ candidates[i].who \notin Desired})
  IN  SubSeq(fit, 1, MinOf(Len(fit), MaxCandidates - Len(DesiredCandidates)))

(* Mutant: a desired candidate that is offline loses its place.            *)
refresh_waiting_list_OnlineDesired(candidates) ==
  Retain(DesiredCandidates,
         {i \in DOMAIN DesiredCandidates :
            \A c \in Range(candidates) : c.who = DesiredCandidates[i] => ~c.offline})
    \o [k \in DOMAIN Chosen(candidates) |-> Chosen(candidates)[k].who]

(* Mutant: the desired candidates are only the fallback.                   *)
refresh_waiting_list_DesiredLast(candidates) ==
  IF Chosen(candidates) = <<>> THEN DesiredCandidates
  ELSE [k \in DOMAIN Chosen(candidates) |-> Chosen(candidates)[k].who]

refresh_waiting_list(candidates) ==
  DesiredCandidates \o [k \in DOMAIN Chosen(candidates) |-> Chosen(candidates)[k].who]

MarkWaiting(candidates) ==
  [i \in DOMAIN candidates |->
     IF candidates[i] \in Range(Chosen(candidates)) /\ candidates[i].status = "Online"
     THEN WithStatus(candidates[i], "Waiting")
     ELSE candidates[i]]

(* new_session, called by the session pallet after end_session.            *)
new_session(candidates, authors) ==
  [i \in DOMAIN candidates |->
     IF candidates[i].who \in Range(authors) THEN WithStatus(candidates[i], "Authoring")
                                             ELSE candidates[i]]

HasKeys(validators) ==
  Retain(validators, {i \in DOMAIN validators : validators[i] \in NextKeys})

(* The candidates at the end of on_initialize, and after each further step
   of a session change.                                                    *)
Prepared(authors, now) ==
  prepare_next_waiting_list(
    slash_stale_authors(
      queue_authors(record_authored_block(ProposedCandidates, authors, now), WaitingCandidates),
      add_actual_author(authors), now))

EndsSession(now) == now % SessionPeriod = 0

(* A block inside a session.                                               *)
Block(authors) ==
  /\ block_number < MaxBlock
  /\ ~EndsSession(block_number + 1)
  /\ block_number' = block_number + 1
  /\ ProposedCandidates' = record_authored_block(ProposedCandidates, authors, block_number + 1)
  /\ ActualAuthors' = add_actual_author(authors)
  /\ UNCHANGED <<account, pipeline, Delegations, session>>

(* rotate_session: end_session, the queued set becomes active, new_session,
   and its answer, restricted to the accounts that have keys, is queued.   *)
SessionBlock(authors) ==
  LET prepared == Prepared(authors, block_number + 1)
  IN  /\ block_number < MaxBlock
      /\ EndsSession(block_number + 1)
      /\ block_number' = block_number + 1
      /\ WaitingCandidates' = refresh_waiting_list(prepared)
      /\ ProposedCandidates' = new_session(MarkWaiting(prepared), NextInvulnerables)
      /\ Invulnerables' = NextInvulnerables
      /\ ActualAuthors' = {}
      /\ Validators' = QueuedKeys
      /\ QueuedKeys' = HasKeys(NextInvulnerables)
      /\ UNCHANGED <<account, Delegations, NextKeys>>

-----------------------------------------------------------------------------
CandidateCall ==
  \E who \in CandidateSigners :
    \/ register_candidate(who)
    \/ \E b \in Bonds : bond_candidate(who, b)
    \/ \E c \in Commissions : set_commission_of_candidate(who, c)
    \/ offline_candidate(who)
    \/ online_candidate(who)
    \/ leave_candidate(who)

CorrectionCall ==
  \E who \in CorrectionSigners, v \in Corrections : bond_correction(who, v)

DelegatorCall ==
  \E who \in DelegatorSigners, candidate \in CandidateSigners :
    \/ \E amount \in Stakes : stake_candidate(who, candidate, amount)
    \/ unstake_candidate(who, candidate)

KeyCall == \E who \in KeySigners : set_keys(who) \/ purge_keys(who)

Call == CandidateCall \/ CorrectionCall \/ DelegatorCall \/ KeyCall

(* Calls run inside a block, never before the first one.                   *)
Next ==
  \/ \E authors \in BlockAuthors : Block(authors) \/ SessionBlock(authors)
  \/ block_number > 0 /\ Call

Spec == Init /\ [][Next]_vars

-----------------------------------------------------------------------------
(* TypeOK: every storage item keeps its type and every bounded vector its
   capacity; the unchecked writes (sort, retain, the rebuilt lists) never
   exceed it.                                                              *)
TypeOK ==
  /\ account \in [Accounts -> AccountData]
  /\ ProposedCandidates \in Seq(CandidateInfo)
  /\ Len(ProposedCandidates) <= MaxCandidates
  /\ WaitingCandidates \in Seq(Accounts) /\ Len(WaitingCandidates) <= MaxCandidates
  /\ Invulnerables \in Seq(Accounts) /\ Len(Invulnerables) <= MaxCandidates
  /\ Validators \in Seq(Accounts) /\ Len(Validators) <= MaxCandidates
  /\ QueuedKeys \in Seq(Accounts) /\ Len(QueuedKeys) <= MaxCandidates
  /\ DOMAIN Delegations = Accounts
  /\ \A a \in Accounts : IsDelegations(Delegations[a])
  /\ ActualAuthors \subseteq Accounts
  /\ NextKeys \subseteq Accounts
  /\ block_number \in Nat

(* UniqueCandidates: no account is registered twice, whatever mixture of
   registrations, drops at session ends and re-registrations came before;
   every `find(|c| c.who == who)` relies on it.                            *)
UniqueWho(s) == \A i, j \in DOMAIN s : s[i].who = s[j].who => i = j

UniqueCandidates == UniqueWho(ProposedCandidates)

(* The accounts in any later stage of the pipeline.                        *)
InPipeline ==
  Range(WaitingCandidates) \union Range(Invulnerables)
    \union Range(QueuedKeys) \union Range(Validators)

(* PipelineBonded: an account that waits, is queued or validates, and is not
   a genesis validator, is a registered candidate whose bond is at least
   the minimum.  bond_candidate(0), bond_correction and the drop at a session
   end look at different things (three lists, the status); together they must
   never unbond or forget someone who is still on its way to, or in, the
   active set, although QueuedKeys is none of those lists.                 *)
PipelineBonded ==
  \A who \in InPipeline \ Desired :
    \E c \in Range(ProposedCandidates) : c.who = who /\ c.bond >= MinCandidateBond

(* StatusCoversStage: the status that decides when an unfit candidate is
   dropped never understates how far along the pipeline the candidate is.  *)
StatusCoversStage ==
  \A c \in Range(ProposedCandidates) : c.who \notin Desired =>
    /\ c.who \in Range(WaitingCandidates) => c.status \in {"Waiting", "Queuing", "Authoring"}
    /\ c.who \in Range(Invulnerables) => c.status = "Authoring"
    /\ c.who \in Range(Validators) => c.status \in {"Queuing", "Authoring"}

(* DesiredKept: the genesis validators are in the waiting list and in the set
   handed to the session pallet at all times, whatever they do as candidates;
   so the waiting list is never empty when queue_authors looks at it.      *)
DesiredKept ==
  Desired \subseteq Range(WaitingCandidates) \intersect Range(Invulnerables)

(* NoDoubleSlot: nobody holds two places in the same stage, not even a genesis
   validator that also registers as a candidate.                           *)
NoDoubleSlot ==
  /\ IsInjective(WaitingCandidates) /\ IsInjective(Invulnerables)
  /\ IsInjective(QueuedKeys) /\ IsInjective(Validators)

SessionEnds == block_number' # block_number /\ EndsSession(block_number')

(* TopRanked: the waiting list made at a session end takes the best fit
   candidates: nobody left out has more bond + total_stake than somebody
   taken, and nobody is left out while there is room.  The list is only as
   good as the order of ProposedCandidates, which not every call restores. *)
TopRanked ==
  [][SessionEnds =>
       \A c \in Range(ProposedCandidates') :
         Fit(c) /\ c.who \notin Range(WaitingCandidates') =>
           /\ Len(WaitingCandidates') = MaxCandidates
           /\ \A d \in Range(ProposedCandidates') :
                d.who \in Range(WaitingCandidates') \ Desired => Combined(d) >= Combined(c)]_vars

(* OnlineSorted: the online candidates stand in the order of bond + total_stake
   at all times, although a registration appends, a commission, a correction
   and a leave edit in place, and a session end drops entries: every edit that
   could put an online candidate out of place is followed by the sort.      *)
OnlineOrdered(s) ==
  \A i, j \in DOMAIN s :
    i <= j /\ ~s[i].offline /\ ~s[j].offline => Combined(s[i]) >= Combined(s[j])

OnlineSorted == OnlineOrdered(ProposedCandidates)

(* UnbondWindow: a registration disappears only at a session end, and only
   after the guards of bond_candidate(0) and bond_correction let the candidate
   through, so that it had a chance to take back its bond, which nothing else
   releases.  Genesis validators are excepted: they are in the pipeline for
   ever, and one that bonds and goes offline is dropped with its bond.     *)
UnbondWindow ==
  [][\A c \in Range(ProposedCandidates) :
       (\A d \in Range(ProposedCandidates') : d.who # c.who) =>
         SessionEnds /\ (c.who \in Desired \/ OutOfPipeline(c.who))]_vars

(* StakeBacked: a candidate never ranks by more stake than its delegators
   have on record, also across dropping out and registering again.         *)
StakeBacked ==
  \A c \in Range(ProposedCandidates) : c.total_stake <= Total(Delegations[c.who])

(* What an account has bonded, and what it has staked behind candidates.   *)
Bonded(a) == Total([c \in {c \in Range(ProposedCandidates) : c.who = a} |-> c.bond])
Staked(a) ==
  Total([c \in {c \in Accounts : a \in DOMAIN Delegations[c]} |-> Delegations[c][a]])

(* ReserveCoversClaims: the balance reserved for an account covers its bond
   and all its recorded delegations together, as long as the account does
   not use bond_correction: one reserve pool backs both kinds of claim.    *)
ReserveCoversClaims ==
  \A a \in Accounts \ CorrectionSigners : account[a].reserved >= Bonded(a) + Staked(a)

-----------------------------------------------------------------------------
(* IndInv: the invariants above in a form that every step preserves.  Beyond
   them it needs that a bond is zero or at least the minimum, that the status
   Offline is never stored (nothing would lift such a candidate to Waiting),
   and that the queued validators come from Invulnerables, which is why the
   guards need not look at QueuedKeys.                                     *)
BondsOK == \A c \in Range(ProposedCandidates) : c.bond = 0 \/ c.bond >= MinCandidateBond

NeverOffline == \A c \in Range(ProposedCandidates) : c.status # "Offline"

QueuedAreInvulnerable == Range(QueuedKeys) \subseteq Range(Invulnerables)

(* The accounts the guards StillWaiting, StillQueuing, StillAuthoring see. *)
Guarded ==
  (Range(WaitingCandidates) \union Range(Invulnerables) \union Range(Validators)) \ Desired

GuardedBonded ==
  \A who \in Guarded : \E c \in Range(ProposedCandidates) : c.who = who /\ c.bond # 0

IndInv ==
  /\ TypeOK
  /\ UniqueCandidates
  /\ BondsOK
  /\ NeverOffline
  /\ QueuedAreInvulnerable
  /\ GuardedBonded
  /\ StatusCoversStage
  /\ DesiredKept
=============================================================================
