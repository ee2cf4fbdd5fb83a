# Verification of the Xode solochain

TLA+ modules, TLC runs and TLAPS proofs for the parts of this repository that have logic
of their own: the staking pallet that selects validators (`pallets/xode-staking`), its
interplay with the session pallet and the consensus engines, the account freezer
(`pallets/account-freezer`), the committees whose origins `runtime/src/configs/mod.rs`
defines, and the node's tasks and slots (`node/src/service.rs`).
`PROJECT.json` has the machine-readable index: components, runs, mutants, the map from
definitions to source lines, findings, hazards, theorems.

## 1. Inventory

### Components, their state and their operations

| component | state | operations |
|---|---|---|
| staking pallet, calls | `ProposedCandidates` (bounded vector, meant to be sorted), `Delegations` (per candidate), the reserved balances | `register_candidate`, `bond_candidate`, `set_commission_of_candidate`, `stake_candidate`, `unstake_candidate`, `offline_candidate`, `online_candidate`, `leave_candidate`, `bond_correction` |
| staking pallet, hooks | `WaitingCandidates`, `Invulnerables`, `DesiredCandidates`, `ActualAuthors` | `on_initialize` (record the author); `end_session` = `queue_authors`, `slash_stale_authors`, `prepare_next_waiting_list`, `refresh_waiting_list`; `new_session` |
| session pallet (library) | `Validators`, `QueuedKeys`, session keys | `set_keys`, `purge_keys`, `rotate_session` every `SessionPeriod` blocks |
| freezer pallet | `Frozen` | `freeze_account`, `freeze_amount`, `thaw_account`, `thaw_amount` |
| balances (library) | free, reserved, frozen per account | reserve, unreserve, set_freeze, thaw, transfer |
| governance (library, configured here) | committees, members, motions, whitelisted calls | propose, vote, close, membership changes, whitelisted dispatch |
| genesis presets | - | endowment, genesis validators, keys, councils |
| Aura and GRANDPA (library, configured here) | the authorities of each, by position | `on_new_session`, from a slot to an index to an account (`FindAccountFromAuthorIndex`) |
| node service | the tasks that run, the slot duration the authoring task holds, the chain | `new_partial`, `new_full`, a task ends, a slot begins, block import, finality |
| runtime APIs | none | of them `slot_duration` and `authorities`, which the node asks |
| RPC, command line, weights, benchmarks | none of their own | I/O, cost tables |

### Interactions

* The session pallet drives the staking pallet by callbacks. In the block whose number is
  a multiple of `SessionPeriod` it calls `end_session`, makes `QueuedKeys` active, calls
  `new_session`, and queues the answer restricted to accounts that have session keys.
* `XodeStaking` is declared before `Session` in the runtime, so in that block the author
  is recorded first, against the old active set; and at genesis `Invulnerables` is filled
  before the session pallet asks for it.
* An account on its way to being a validator is in four places one after the other,
  `WaitingCandidates -> Invulnerables -> QueuedKeys -> Validators`, one session apart, and
  in several at once. The calls' guards look at three of them, the drop at a session end at
  none (it looks at `status`).
* The Technical Committee reaches Root by two motions (whitelist a call, dispatch it), adds
  and removes its own members by motions, and may veto motions of the Treasury Council;
  membership changes reach the collective, where they change open motions.
* Bond, delegations and freezes of one account share one balance; bond and delegations
  share one anonymous reserve.
* The session pallet hands its validators to both engines, unless it takes the queued set for
  unchanged. The author of a block is found by position: an index into Aura's list is used as
  an index into `Validators`, by a hook that runs before the rotation of the same block.
* The authoring task asks the runtime for the slot duration once, when the node starts; the
  import queue asks at every block; the runtime compares slot and timestamp by its own. An
  essential task that ends takes its node down, another one ends alone.

### What is hard

There is no concurrency inside the runtime: blocks and calls are serial and a failing call
is rolled back. What is hard there is the interleaving of calls of several accounts with session
boundaries, state kept redundantly in several lists and in `status`, records that outlive
what they belong to (delegations after a drop, a freeze record without a freeze), capacity
limits with silently ignored failures, comparisons of block numbers, and motions that are
voted on while the committee changes. Outside the runtime nodes fail and restart, their clocks
differ, and a runtime upgrade changes values they hold. Some things must happen at all: blocks,
finality, entering and leaving the set. `PROJECT.json`
lists these as hazards with the line and the property for each.

### What makes each component correct

* selection: whoever is in the pipeline is a registered candidate with a bond or a genesis
  validator; nobody twice; genesis validators always; best candidates first; a
  registration is forgotten only when it no longer matters;
* money: counted stake is on record, recorded claims are reserved;
* staleness: exactly the validators that did not author for too long are taken offline;
* governance: who has left has no vote; Root, memberships and treasury only with more than
  two thirds of the committee concerned;
* freezer: a freeze is on record, cannot be stacked, and holds against spending what is held, free
  and reserved together;
* consensus: both engines have the active set, the credited author is the one that sealed the
  block, no session end stops the chain;
* node: every authority's turn is taken and accepted, finality follows; what a change of the slot
  duration stops, and for how long, is known.

## 2. Modules

| module | models |
|---|---|
| `Vectors` | `retain`, stable `sort_by` and summation on Rust vectors, without recursion |
| `Balances` | the native balance, from how `src/` uses it (external code) |
| `XodeStaking` | the staking pallet with session rotation: state, all calls, blocks, properties, `IndInv` |
| `StakingClaims` | statements of comments in the pallet that the code does not keep |
| `StakingHistory` | `XodeStaking` plus history variables: who authored when, who entered the active set when |
| `AccountFreezer` | the freezer against transfers, reserves and unreserves |
| `FreezerHistory` | `AccountFreezer` plus a history variable: how much of each account the calls have frozen; what the pallet's comments promise and what the code keeps |
| `Governance` | the two committees: motions, votes, membership, whitelisted dispatch, vetoes, sudo |
| `Pipeline` | abstract specification: what the selection of validators promises |
| `StakingRefinement` | the mapping from `XodeStaking` to `Pipeline` |
| `Authorities` | `XodeStaking` with Aura and GRANDPA; fairness and liveness |
| `XodeRuntime` | `XodeStaking`, the freezer and transfers on the same balances |
| `NodeService` | the nodes: tasks, failures, restarts, slots, block import, finality, upgrades |
| `MCStaking`, `MCHistory`, `MCFreezer`, `MCGovernance`, `MCRuntime`, `MCAuthorities`, `MCNodes` | instances for TLC |
| `VectorsProofs` | lemmas about `Vectors`: retaining, sorting, sums |
| `XodeStakingProofs` | the inductive invariant of `XodeStaking` and what follows from it |
| `PipelineProofs` | `XodeStaking` implements `Pipeline`; places, unbonding, the order of the candidates |
| `LedgerProofs` | stakes, claims and reserves, in `XodeStaking` and in `XodeRuntime`; `XodeRuntime` implements `AccountFreezer` and `Pipeline` |
| `AuthoritiesProofs` | `Authorities` implements `XodeStaking`; engines and credited authors; staleness, about `StakingHistory` |
| `FreezerProofs`, `GovernanceProofs`, `NodeServiceProofs` | the proofs about those modules (`FreezerProofs` about `FreezerHistory` too) |

`XodeStaking` extends `Balances` and `Vectors`; `AccountFreezer` extends `Balances`;
`StakingRefinement` extends `XodeStaking` and instantiates `Pipeline`, `Authorities` extends it;
`XodeRuntime` extends `XodeStaking` and instantiates `AccountFreezer`, twice: once for its calls,
once as the specification it is shown to implement. The
history modules extend the specification they observe and constrain no step of it.

### How state and actions correspond to the code

Every storage item is a variable of the same name; a bounded vector is a sequence, the
delegations of a candidate a function from delegators to stakes (the code keeps one entry
per delegator, and their order has no effect), `ActualAuthors` a set (it is only asked for
membership). `DesiredCandidates` never changes after genesis and is a constant. `account`
is the account's balance data.

A signed call is one action; its guard is the conjunction of the call's `ensure!`s and of
the success of its currency calls, because a failing call is rolled back as a whole. A
block is one action `Block` or `SessionBlock`: all hooks that run at its start, with the
author chosen from the active set. The author's block number is `block_number + 1`, the
number the hooks see. Calls run after the hooks and before the next block. The steps of
`end_session` are operators on the list of candidates that are composed in the code's
order (`Prepared`, `MarkWaiting`, `new_session`). `set_status` and `find` act on the first
entry of an account; that there is only one is `UniqueCandidates`.

In `Governance` the operators named `...Origin` are the origins the runtime configures;
the collective, membership, whitelist and sudo pallets are library code, modelled from that
configuration. Dispatching is a function of the state (`Dispatch`), because a motion that is
closed, a lone proposer, a whitelisted call and sudo all dispatch, and a call that fails
leaves the state as it was while the motion ends all the same. `Agenda` says what each
committee's members propose, `Proposals` what sudo may send. A motion may be closed without
effect at any time before it has its threshold of ayes: this stands for its duration, for nays
that close it early and for vetoes against motions of the Technical Committee; vetoes against
the Treasury Council also end approved motions and are modelled. `performed` is a
history variable: what the last step did, whoever did it. While there is a sudo key its holder
may do everything; the two properties about powers speak of the time after `remove_key`, as
the comment at configs/mod.rs line 405 does. That Root may set a new sudo key is left out.

`Pipeline` knows no blocks, lists or statuses: `registered`, `fit` and the four stages are sets,
and a session end is one step. `StakingRefinement` maps the accounts in the lists to them.

In `Authorities` an account stands for its session keys: a node keeps its keystore when its
account purges its keys. `AuthorBlock(i)` is a block of the i-th Aura authority; which index is
next is left open, since a slot may be any number later than the last one. `signer` is a history
variable, whose key sealed the block; the account the pallet credits is `FindAuthor(i)`, taken
from the session pallet's list. `HandOver` is `on_new_session` of both engines;
`ImportAccepts` is what GRANDPA's block import refuses, an empty next set.

In `XodeRuntime` a step is one of `XodeStaking`, a call of the freezer or a transfer. The actions
of `AccountFreezer` are used as they are, on the same `account`.

In `NodeService` a node is the set of tasks that run, empty when it is down, as `new_partial` and
`new_full` start them for its role and configuration. `Wake` is one run of the slot worker: the
turn is not this node's, or the node is out of touch, or the runtime accepts the block and every
node that runs imports it, or the runtime panics and the slot is lost. The runtime's side is
`SlotDurationApi` (twice the minimum period, an integer division, so 4 for a constant of 5),
`Timestamp` and `Accepts`; the import queue's is `Verifies`. `Finalize` stands for the voting
rounds. A started authoring task waits for the next slot (`last_slot` is the current one). `Upgrade`
changes `SLOT_DURATION`, which nothing in the code prevents, to a shorter or to a longer one, once
there is a block; `period` in a block is a history variable, the slot duration of the runtime that
executed it, and no action reads it.

Details the model leaves out: events, weights, fees (the balances change only by the
operations modelled), the contents of session keys, commissions beyond their range (no
code reads them), saturation of 128-bit sums (balances are bounded by total issuance,
which is far below).

Operators with an underscore suffix such as `Kept_OnlyAuthors` are mutants: plausible
mistakes in the code. They are used by no specification; `PROJECT.json` says which
property each one must break when it replaces the definition that follows it.

## 3. Runs

| run | instance | what it shows |
|---|---|---|
| `lifecycle` | genesis validator g (also a candidate), candidate x, one-block sessions, 9 blocks, bonds 0 and 2, keys set and purged, corrections | the way through all stages and back: `IndInv`, `UniqueCandidates`, `PipelineBonded`, `StatusCoversStage`, `DesiredKept`, `NoDoubleSlot`, `UnbondWindow`, and `ImplementsPipeline`, the refinement |
| `ranking` | candidates x, y for one place, two bonds, delegation by g, commissions, 3 blocks | `TypeOK` (capacities are reached), `OnlineSorted`, `TopRanked` |
| `runtime` | g and x candidates, x also a delegator, g may use `bond_correction`; transfers of 2 and all four calls of the freezer; 3 blocks, accounts of 4, largest balance 9 | `StakeBacked`, `ReserveCoversClaims`, `FreezerHolds` (to the freezer, staking is reserves and unreserves), `FrozenAddNothing` |
| `staleness` | two-block sessions, staling period 2, 10 blocks, g may lose its keys | `SlashJustified`, `StaleAreSlashed` |
| `freezer` | two accounts of 5, existential deposit 2, largest balance 20, origins Root, 0/0, 2/3 and 3/3 of the committee | `TypeOK`, `FreezeOnRecord`, `NoStacking`, and `HoldingKept`: free and reserved balance together are not spent below what is frozen |
| `governance` | a Technical Committee of three, two of them also the Treasury Council, at most two and one open motions, thresholds 1 and 2; motions to remove a member, add one to either committee, whitelist and dispatch a new code, veto, spend | `TypeOK` (motions within their bound), `VotersAreMembers`, `TechnicalPowers`, `TreasuryPowers` |
| `authorities` | g and x, two-block sessions, staling period 6, 16 blocks, both set and purge keys | `EnginesAgree`, `CreditedIsSigner`, `AuthorsAreActive`; under fairness `NeverStuck`, `UnfitLeaves`, `FitEnters` |
| `nodes` | authorities a (clock one ahead) and b (forced to author), full node f without GRANDPA; slot duration 5, one upgrade to 2 or to 6; time 3 to 16 | `TurnsAccepted`; `StaleTasksRefused` (a shorter duration: nodes not restarted) and `LongerStalls` (a longer one: everybody); under fairness `TurnsTaken`, `FinalityFollows` |

Bounds. `MaxBlock` bounds time and with it everything else. It takes three session ends
from fit to active and up to four more from unfit to dropped, so nine one-block sessions
cover entering, leaving and registering again; a one-block session loses nothing for these
properties since any number of calls fits in a block. Two candidates for one place are
enough for a comparison in the ranking. `staleness` needs sessions of two blocks, to tell
the author of the last block from an earlier one; block 10 is the second session end of an
account that has become a validator. In the freezer's runs the amounts 0, 1, 3 and 4 lie on
both sides of the existential deposit and of what an account holds, and the largest balance
is more than all accounts hold together. In the staking and freezer runs accounts are not
symmetric (each has its own calls). In `governance` two open motions are enough for one to
change the membership under the other; the committee has two to four members, so both kinds of
proportion (unanimity needed, or three of four) happen, and a threshold below the proportion the
origin asks for is the interesting one. Two members with the same seats are interchangeable and
used as a symmetry set; that run checks no liveness property. Deadlock checking is on.

In `authorities` the staling period is longer than the way into the set, so that a validator is
taken offline after authoring as well as before; 16 blocks are eight sessions, of which leaving
takes four and entering three. `UnfitLeaves` and `FitEnters` promise something only where that
many session ends are left within the bound (`SessionsLeft`); `NeverStuck` says that the bound is
reached. In `nodes` the odd slot duration shows the integer division, the skew lies between zero
and the slot that import tolerates; two authorities are the fewest with turns, and both are needed
for finality, so that it stalls whenever one is down. Slot 0 is the genesis block's, so the first
block is at the earliest that of slot 1, b's, at time 4. From then on an upgrade happens at any
moment. With slots of two there are up to six more turns before the bound; a task that goes on with
slots of four is never right, since its slot numbers are half of the current ones. With slots of
six the block of slot 1 is followed by one of slot 2, a's, at time 11 (when a's clock shows 12),
where slots of four would have had slot 2 at 7: this is the wait of `LongerStalls`, and the block
that ends it is within the bound. The epoch is time 0, so the wait is short here; on a chain of
today it is decades.

Fairness. `authorities`: `NextBlock` is weakly fair. It is a step of `AuthorBlock`, told by its
guards and by the block number that no call changes: the node of at least one authority runs, and
its authoring task wakes in every slot, which is what `nodes` checks. Users owe the chain no call,
so no call is fair; a candidate that stays unfit leaves by blocks alone. `nodes`: time goes on
however often nodes fail and start in between (`SF` of `Tick`), and tasks that run are scheduled
(`WF` of `Wake(n)`, of `Finalize`). Nobody has to start a node, repair a task or upgrade. That no
slot ends before the tasks of a running node have been woken in it is in the guard of `Tick`. The
other specifications have no fairness condition and no liveness property.

### Where comments and code disagree

Four runs are expected to end in a violation; each checks what a comment says:

* `withdraw`: `unstake_candidate` fails for ever once the candidate is dropped (it calls
  `recompute_total_stake`, which wants the registration); only a new registration of the
  candidate helps. The candidate's own bond is likewise stuck when it is dropped bonded.
* `correction`: `bond_correction` takes the amount from the caller, so it can release the
  reserve behind the caller's own delegations; unstaking them later eats into the reserve
  of a new bond. `ReserveCoversClaims` is therefore stated for accounts that do not use it.
* `newcomer`: the staling clock starts at registration, not at becoming a validator.
* `transferable`: the freezer says that a freeze is of the free, transferable balance (lines 4 to 6,
  106 and 120 of its lib.rs). The balances pallet freezes the total, of which the reserve is a part:
  an account with 4 of 5 frozen and 1 reserved transfers 1 away, and has 3 free. Whoever bonds or
  delegates before an amount is frozen, or after it out of what is not frozen, may transfer that
  much of the frozen amount. `HoldingKept` is what holds instead, of free and reserved together.

Without a run:

* `register_candidate` "starts unbonded and un-staked" (line 213): the delegations of an earlier
  registration are still on record after a new one, and `total_stake`, which starts at zero, counts
  them all at the next stake or unstake. That it never counts more than is on record is `StakeBacked`.
* "Currently it is not possible to change the slot duration after the chain has started. Attempting
  to do so will brick block production." (runtime/src/lib.rs lines 88 and 89). Nothing prevents an
  upgrade that does it. Of a longer duration the sentence is true: slots are numbered from the epoch,
  so their numbers fall below the last used one, and nothing is accepted until the time since the
  epoch has grown in the same proportion, whoever restarts (`LongerStalls`). Of a shorter one it is
  true of the nodes that are not restarted: they hold the old duration, and their blocks fail the
  runtime's check (`StaleTasksRefused`). Nodes that are restarted go on (`TurnsAccepted`, `TurnsTaken`,
  which speak of nodes started under the current runtime, and of durations that are not made longer).
* `freeze_amount(0)` records a freeze that is not there, and the account then cannot be frozen
  before it is thawed.
* The origins ask for more than two thirds (`EnsureProportionMoreThan`), where the comments say
  2/3: in a committee of three, two ayes approve a motion whose call then fails, and the motion
  is gone.
* A fit candidate that is outranked keeps the status `Authoring`, which is "A candidate's place in
  the validator-selection pipeline" (lib.rs line 70).
* After `freeze_account` the freeze is the largest balance, so a thaw of all that the account
  holds neither lifts the freeze nor releases anything.
* "kept sorted by `bond + total_stake` descending" (lib.rs line 115) holds of the online
  candidates, always (`OnlineSorted`); the offline ones come after them when the list is sorted, and
  until then a new registration stands behind them and `bond_correction` leaves its caller where it is.
* "The current validator set" (line 104) is the set that becomes active two sessions later.
* A genesis validator that bonds as a candidate can never unbond, because it is always in the
  pipeline; when it goes offline its registration is dropped with the bond. `UnbondWindow` excepts
  genesis validators.

## 4. Proofs

Every invariant and every action property of a passing run, and every implementation of one
specification by another, is stated by a theorem. What each run shows of its instance thus holds
for every value of the constants that satisfies the assumptions below, all of which TLC evaluates
in the runs.

`XodeStakingProofs` proves, for any accounts, capacities, periods, inputs and number of
blocks that satisfy the named assumptions, that `Spec` implies always `IndInv` (theorem
`Inductive`), and from it `TypeCorrect`, `CandidatesUnique`, `PipelineIsBonded`,
`StatusIsSafe` and `DesiredStay`.

Assumptions: the genesis validators are a non-empty vector without duplicates that fits
the capacity (`DesiredAssumption`; the genesis build checks the capacity, the presets give
one or two distinct accounts), the configuration constants are naturals, the minimum bond
and the session period not zero (`ConfigAssumption`), and calls are signed by accounts and
carry naturals (`InputAssumption`).

The argument. `PipelineBonded` is not inductive: that nobody in the pipeline is dropped
depends on `status`, which `StatusCoversStage` ties to the stage; the guards do not look at
`QueuedKeys`, which is harmless only because queued accounts come from `Invulnerables`
(`QueuedAreInvulnerable`), and stay in it until the next session end makes them active; and
the climb of `status` starts from `Online`, so the status `Offline` must never be stored
(`NeverOffline`). `IndInv` is the conjunction of these. `SplitIndInv` separates what is said
of the candidates and of the four lists' accounts (`StageInv`) from the types of the rest.
A call replaces one entry by one of the same account and status and perhaps sorts:
`AmendStage`, with `SortStage`, covers all of them. A session end goes through the
intermediate assertions `QueuedInv` (who waited is at least Queuing), kept by the slash,
and `PreparedInv` (nobody who waited or is in `Invulnerables` is dropped, and who was in
`Invulnerables` is at least Queuing), from which `NewSessionLemma` gets `StageInv` for the
shifted lists. `SlashLemma` and all calls rest on `SortLemma`: sorting permutes. This is
proved from the definition of `Arrange` in `VectorsProofs`: the rank under a total order is
a bijection between a finite set of indices and an initial segment of the naturals.

`GovernanceProofs` proves, for any accounts (finitely many), calls, proposals, thresholds,
genesis members and bounds on open motions (`GovernanceAssumption`), that `Spec` implies always
`GovInv` (`GovernanceInductive`), and from it `MotionsBounded` (`TypeOK`), `AyesAreMembers` (with
`VotersAreMembers`), `RootIsTwoThirds` (`TechnicalPowers`) and `TreasuryIsTwoThirds`
(`TreasuryPowers`). `GovInv` says of a state that its motions are within bounds, ask for at
least two ayes and have ayes of members only (`Sound`); it is stated for the records that
`Dispatch` computes with, so that `DispatchSound` covers all four ways to dispatch. That motions
ask for two ayes is needed for the powers: the origin for removing a member, ayes >= seats, says
nothing of a committee without members, and a closed motion has at least two. `DispatchPower`
says which origins can bring about which changes; `ClosedIsBacked` and `AloneIsBacked` turn the
origin's numbers into members behind the motion that ends, or a single member.

`PipelineProofs` proves `StakingImplementsPipeline` (`Spec => ImplementsPipeline`), `OnePlaceEach`
(`NoDoubleSlot`) and `BondsCanBeTakenBack` (`UnbondWindow`). A call is one of three things
(`CallCases`): a registration, the replacement of one entry by one of the same account
(`EditsOne`), or a change of keys; each maps to one abstract step or a stutter. A session end is cut into what it does to the candidates and to the lists
(`SessionChange`). That nobody is forgotten while it is in a stage follows from `IndInv`
(`PipelineBonded` after the step). That no place is wasted compares the cardinality of a set with
the length of a list: the waiting list has no account twice, which is `NoDoubleSlot`, itself an
invariant together with `IndInv` since each list is the one before it, restricted.

It also proves `OnlineStaySorted` (`OnlineSorted`) and `BestAreTaken` (`TopRanked`). That a stable
sort orders, and not only permutes, is `ArrangeOrder` in `VectorsProofs`: positions follow ranks. The
invariant needs a reason for each of the four edits that no sort follows: a registration appends an
entry that ranks last among the online ones (no bond, and its `total_stake` starts at zero); a
commission is no sort key; `bond_correction` and `leave_candidate` want an offline candidate. What a
session end drops or takes offline leaves the rest in order (`RetainOrder`); the waiting list is the
first fit candidates of that order, hence the best.

`LedgerProofs` proves `StakeIsBacked` (`StakeBacked`) and `ClaimsAreCovered`
(`ReserveCoversClaims`). Every step of a session end only drops entries or changes their status, so
stakes and bonds survive it or are forgotten; a call either keeps the stake and the delegations or
recomputes one from the other. `ReserveCoversClaims` compares a reserve with a sum over all
candidates, registered or dropped, of what one account has staked on them. The sum is a cardinality,
so that it is finite has to be invariant too (`FewStaked`: only finitely many candidates have
delegations, though accounts may be infinitely many), and `TotalChange` in `VectorsProofs` says what
one changed summand does to it. From it follows `MoneyMoves`: each step either moves no balance and
raises nobody's claim, or one account reserves or unreserves exactly what its claim rises or falls by
(`MoneyStep`); only `bond_correction` releases something else, and its callers are excepted.
`MoneyStep` serves three more theorems about `XodeRuntime`: the reserve covers the claims among
transfers and freezes (`RuntimeClaimsAreCovered`, with `RuntimeStakeIsBacked`), a frozen account
pledges nothing (`FrozenPledgesNothing`), and every step is one of the freezer's specification or
leaves it alone (`FreezerIsImplemented`). The last two need that what an account holds is a Balance,
that is, at most `MaxBalance`. No step tells that of one account: `NoneMinted` bounds the sum of all
balances by the endowments, which no step raises (dust only lowers it). `Ledger` is the inductive
invariant of all this. `RuntimeFreezesOnRecord` then takes over for the runtime what `FreezerProofs`
proves of the freezer alone, and `RuntimeImplementsPipeline` says that the selection of validators
does not notice the transfers and freezes. `RuntimeAssumption` says that amounts and the total
issuance are Balances, as pallet_balances keeps them, and that the accounts are finitely many.

`AuthoritiesProofs` proves `EnginesFollow` (`EnginesAgree`), `AuthoritiesImplementStaking`
(`AuthorsAreActive`: the composition implements `XodeStaking`, so that all its theorems hold of the
composition) and `SignerIsCredited` (`CreditedIsSigner`). `EnginesInv` adds to `EnginesAgree` what
makes it inductive: when the session pallet takes the queued set for unchanged, it is the active
one. The credited author then is the signer because the two lists are the same; that nobody else
is credited needs `AuthoredInPast`, that nobody is recorded as author of a block to come.

It proves `OnlyStaleAreSlashed` (`SlashJustified`) and `AllStaleAreSlashed` (`StaleAreSlashed`) of
`StakingHistory`. The pallet compares its own record, `last_authored`, which a registration sets as
well as a block does; the properties speak of the blocks that were authored. `HistInv` relates the
two: the record is never behind (`RecordNotBehind`); of a validator it is ahead at most until its
entry into the set (`RecordNotAhead`), because nobody in the pipeline is dropped and so can register
anew; and whoever is in `ActualAuthors` has authored in this session (`AuthorsOfSession`), which is a
statement about `block_number % SessionPeriod`. `PeriodAssumption` says that a session is no longer
than the staling period and the block after it (the runtime has one hour, configs/mod.rs line 129,
and fourteen days, line 166); otherwise an author of the ending session could count as stale and
still be protected.

`FreezerProofs` proves `BalancesTyped` (`TypeOK`), `FreezesOnRecord` (with `FreezeOnRecord`),
`FreezesNotStacked` (`NoStacking`) and `HoldingsAreKept` (`HoldingKept`) for any accounts, amounts
and origins. `TypeOK` and `FreezeOnRecord` together are
inductive (`FreezerInv`); what a transfer or a reserve may not touch is at least the existential
deposit, so a frozen account is never reaped, and only the freezer's calls, which keep the record,
change a freeze. `PromiseInv` adds that the freeze in force is what the calls add up to; a holding that
falls stays at or above it whether the account's money is free, reserved or both (`SpendsFreely`).

`NodeServiceProofs` proves `EveryTurnAccepted` (`TurnsAccepted`), `StaleAreRefused`
(`StaleTasksRefused`) and `LongerMustWait` (`LongerStalls`) for any nodes, slot durations of at least
2, any number of upgrades to any of them, and clocks ahead by at most the slot that import tolerates
(`SkewAssumption`). `SlotInv` says that slots grow along the chain (`SlotsGrow`), that each is its
block's timestamp divided by the duration of the time (`SlotsTimed`), and that a node started under
the current runtime holds its duration. The rest is arithmetic. When the last block was late, its
timestamp plus the minimum period still falls into the slot that is claimed. With a duration that is
not longer the slot of the last block has not got a larger number, so a slot after it is larger than
the one in its header. A clock divided by two durations gives two different slots once the clock
shows at least their product (`DivShorter`). Of two blocks, the later one with the longer slots, the
later slot has the larger number and therefore begins later by more than the factor
(`ProportionLemma`).

Only model-checked: the liveness properties `NeverStuck`, `UnfitLeaves`, `FitEnters`, `TurnsTaken`
and `FinalityFollows`. They rest on fairness and on actions being enabled, which are out of the
prover's reach. Induction over data and recursive operators are as well; the modules avoid recursion
for that reason (a sum is the cardinality of a set of units, a sort is defined by ranks). The four
statements of section 3 that the code does not keep have counterexamples and no theorem.

## 5. Not modelled

Library pallets configured with constants only (treasury, assets, contracts, indices,
preimage, utility, randomness), the runtime APIs that delegate to library pallets, RPC, the
command line, the chain specification, weights and benchmarks: they have no logic or state of
this repository.

Of consensus: voting rounds, equivocations and forks are library code; nodes that run are
connected and import a block at once. Clocks ahead by more than a slot, for which import defers a
block, are outside the assumption. How an upgrade comes about (`set_code`, by governance or sudo) is
in `Governance` and not composed with the nodes; a migration of Aura's current slot, which could end
the wait of `LongerStalls`, is not in the code. Of the node: the tasks of the network, of telemetry
and of RPC. `NodeService` keeps its authorities, `Authorities` its slots open; the two are not
composed.

Of governance: the prime member (none is set at genesis; with one, abstentions count as its
vote after a motion's end), `swap_member`, `reset_members` and `change_key`, preimages, and the
collective's `set_members`, by which Root or the whole committee can make the collective differ
from its membership pallet.

## 6. Plan

1. Done: `Vectors`, `Balances`, `XodeStaking`, `StakingHistory`, `AccountFreezer`, `Governance`,
   their runs and inductive invariants.
2. Done: `Pipeline` and its refinement, checked and proved; `Authorities` with fairness and
   liveness; `XodeRuntime`; `NodeService` with failures, restarts and upgrades.
3. Left to model: the remaining membership calls, nays and the prime member, the freezer's calls
   as motions; transaction fees against reserves and freezes.
4. Done: a theorem for every invariant, action property and implementation that a passing run checks.
5. Left to prove: of `Authorities`, the safety parts of liveness, e.g. that a session end always leaves
   a set to make active when a genesis validator keeps its keys, and that an unfit candidate's status
   falls with every session end; that `HoldingsAreKept` carries over to the runtime, which needs the
   history variable there.
