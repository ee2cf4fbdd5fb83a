----------------------------- MODULE NodeService -----------------------------
(***************************************************************************)
(* The nodes of the network: which tasks `new_full` starts, which of them  *)
(* take the node down with them, and how the authoring task, the runtime   *)
(* and the import queues of the other nodes agree on what a slot is.       *)
(*                                                                         *)
(* The authoring task asks the runtime for the slot duration once, when    *)
(* the node starts; the import queue asks at the parent of every block;    *)
(* the runtime compares the slot in the header with the timestamp in the   *)
(* block.  Nodes that run are connected, and import a block at once; forks *)
(* are not modelled.  The Aura authorities stay the same.                  *)
(*                                                                         *)
(* The runtime's source says that the slot duration cannot be changed after *)
(* the chain has started.  Nothing in the code keeps an upgrade from doing *)
(* it; Upgrade does, to a longer or to a shorter one, and the properties   *)
(* say what then stands still and for how long.                            *)
(***************************************************************************)
EXTENDS Naturals, Sequences, FiniteSets

CONSTANTS
  Nodes,
  Authorities,        \* vector of nodes: whose key has which Aura (and GRANDPA) index
  AuthorityRole,      \* nodes started with the role authority
  ForceAuthoring,     \* nodes with force_authoring
  DisableGrandpa,     \* nodes with disable_grandpa
  OffchainWorker,     \* nodes with offchain_worker.enabled
  SkewOf,             \* how far each node's clock is ahead
  SLOT_DURATION,      \* of the runtime at genesis
  NewDurations,       \* that an upgraded runtime may have
  StartTime, MaxTime, \* the time of genesis; bound: the last moment explored
  MaxUpgrades         \* bound: how many runtime upgrades there are

ASSUME NodeAssumption ==
  /\ Authorities \in Seq(Nodes) /\ Authorities # <<>>
  /\ AuthorityRole \subseteq Nodes /\ ForceAuthoring \subseteq Nodes
  /\ DisableGrandpa \subseteq Nodes /\ OffchainWorker \subseteq Nodes
  /\ SkewOf \in [Nodes -> Nat]
  /\ SLOT_DURATION \in Nat \ {0, 1} /\ NewDurations \subseteq Nat \ {0, 1}
  /\ {StartTime, MaxTime, MaxUpgrades} \subseteq Nat

(* No clock is ahead by more than the slot that the import queue tolerates. *)
ASSUME SkewAssumption ==
  \A n \in Nodes, d \in NewDurations \union {SLOT_DURATION} : SkewOf[n] <= 2 * (d \div 2)

VARIABLES
  now,             \* real time
  tasks,           \* node -> the tasks it runs, none when it is down
  slot_duration,   \* node -> what its authoring task took at its start
  last_slot,       \* node -> the last slot its authoring task has been woken for
  started_under,   \* node -> how many upgrades there had been at its start
  blocks,          \* the chain, genesis first: slot and timestamp of each block, and
                   \* (history) what a slot was to the runtime that executed it
  finalized,       \* position of the last finalized block
  duration,        \* SLOT_DURATION of the runtime at the head of the chain
  upgrades         \* how many upgrades there have been

node == <<tasks, slot_duration, last_slot, started_under>>
chain == <<blocks, finalized, duration, upgrades>>
vars == <<now, node, chain>>

-----------------------------------------------------------------------------
(* What the nodes run.                                                     *)

Up(n) == tasks[n] # {}

IsAuthority(n) == n \in AuthorityRole

(* Mutant: the authoring task is spawned with spawn_handle.                *)
Essential_NotAura == {"transaction-pool", "import-queue", "grandpa-voter"}

(* The tasks spawned with spawn_essential_handle.                          *)
Essential == {"transaction-pool", "import-queue", "aura", "grandpa-voter"}

PartialTasks == {"transaction-pool", "import-queue"}

OffchainTasks(n) == IF n \in OffchainWorker THEN {"offchain-workers-runner"} ELSE {}

AuthoringTasks(n) == IF IsAuthority(n) THEN {"aura"} ELSE {}

GrandpaTasks(n) == IF n \notin DisableGrandpa THEN {"grandpa-voter"} ELSE {}

(* Mutant: the authority's node is the one without a keystore.             *)
Keystore_Swapped(n) == ~IsAuthority(n)

(* Whether the voter is given the keystore.                                *)
Keystore(n) == IsAuthority(n)

-----------------------------------------------------------------------------
(* Slots, as the runtime has them.  Aura's slot duration is twice the minimum
   period of the timestamp pallet, an integer division of the constant.    *)
MinimumPeriod == duration \div 2

(* Mutant: the constant of the runtime crate instead of its API's answer.  *)
SlotDurationApi_Constant == duration

SlotDurationApi == 2 * MinimumPeriod

BestBlock == blocks[Len(blocks)]

Clock(n) == now + SkewOf[n]

(* The slot in the header, by the duration the authoring task holds.       *)
Slot(n) == Clock(n) \div slot_duration[n]

AuthorOf(slot) == Authorities[(slot % Len(Authorities)) + 1]

(* The timestamp inherent moves on by at least the minimum period.         *)
Timestamp(n) ==
  IF Clock(n) > BestBlock.timestamp + MinimumPeriod THEN Clock(n) ELSE BestBlock.timestamp + MinimumPeriod

(* Mutant: AllowMultipleBlocksPerSlot.                                     *)
Accepts_SameSlot(n) ==
  /\ Slot(n) >= BestBlock.slot
  /\ Timestamp(n) \div (2 * MinimumPeriod) = Slot(n)

(* Mutant: the timestamp pallet does not tell Aura, OnTimestampSet = ().   *)
Accepts_Untimed(n) == Slot(n) > BestBlock.slot

(* on_initialize and on_timestamp_set of the Aura pallet panic otherwise.  *)
Accepts(n) ==
  /\ Slot(n) > BestBlock.slot
  /\ Timestamp(n) \div (2 * MinimumPeriod) = Slot(n)

(* The verifier of the import queue, with the duration at the parent.      *)
Verifies(n, slot) == slot <= Clock(n) \div SlotDurationApi + 1

-----------------------------------------------------------------------------
Block(slot, timestamp) == [slot |-> slot, timestamp |-> timestamp, period |-> SlotDurationApi]

Init ==
  /\ now = StartTime
  /\ tasks = [n \in Nodes |-> {}]
  /\ slot_duration = [n \in Nodes |-> 0]
  /\ last_slot = [n \in Nodes |-> 0]
  /\ started_under = [n \in Nodes |-> 0]
  /\ duration = SLOT_DURATION
  /\ blocks = <<Block(0, 0)>>
  /\ finalized = 1
  /\ upgrades = 0

(* new_full.  The slot stream of the authoring task waits for the slot after
   the one in which it is made.                                            *)
Start(n) ==
  /\ ~Up(n)
  /\ tasks' = [tasks EXCEPT ![n] =
                 PartialTasks \union OffchainTasks(n) \union AuthoringTasks(n) \union GrandpaTasks(n)]
  /\ slot_duration' = [slot_duration EXCEPT ![n] = IF IsAuthority(n) THEN SlotDurationApi ELSE 0]
  /\ last_slot' = [last_slot EXCEPT ![n] = IF IsAuthority(n) THEN Clock(n) \div SlotDurationApi ELSE 0]
  /\ started_under' = [started_under EXCEPT ![n] = upgrades]
  /\ UNCHANGED <<now, chain>>

(* A task ends.  The task manager takes the node down if it is essential, and
   with the node goes what its authoring task knew.                        *)
GoesDown(n) ==
  /\ tasks' = [tasks EXCEPT ![n] = {}]
  /\ slot_duration' = [slot_duration EXCEPT ![n] = 0]
  /\ last_slot' = [last_slot EXCEPT ![n] = 0]
  /\ started_under' = [started_under EXCEPT ![n] = 0]

Fail(n, t) ==
  /\ \/ t \in Essential /\ GoesDown(n)
     \/ /\ t \notin Essential
        /\ tasks' = [tasks EXCEPT ![n] = @ \ {t}]
        /\ UNCHANGED <<slot_duration, last_slot, started_under>>
  /\ UNCHANGED <<now, chain>>

(* The slot stream yields each slot once.                                  *)
Due(n) == "aura" \in tasks[n] /\ Slot(n) > last_slot[n]

Offline(n) == \A m \in Nodes \ {n} : ~Up(m)

(* The slot worker does not author when it is not its turn, nor when the node
   is offline, unless it is forced to or is the only authority.  There is no
   back-off when finality lags.                                            *)
Claims(n) ==
  /\ AuthorOf(Slot(n)) = n
  /\ Offline(n) => n \in ForceAuthoring \/ Len(Authorities) = 1

(* The authoring task wakes: a block is made, or the slot is skipped, or the
   runtime panics and the slot is lost.                                    *)
Wake(n) ==
  /\ Due(n)
  /\ last_slot' = [last_slot EXCEPT ![n] = Slot(n)]
  /\ \/ /\ Claims(n) /\ Accepts(n)
        /\ blocks' = Append(blocks, Block(Slot(n), Timestamp(n)))
     \/ ~(Claims(n) /\ Accepts(n)) /\ UNCHANGED blocks
  /\ UNCHANGED <<now, tasks, slot_duration, started_under, finalized, duration, upgrades>>

Votes(n) == "grandpa-voter" \in tasks[n] /\ Keystore(n)

Supermajorities ==
  {q \in SUBSET DOMAIN Authorities : 3 * Cardinality(q) > 2 * Len(Authorities)}

(* The default voting rules stay two blocks behind the best one.           *)
Finalize ==
  /\ {i \in DOMAIN Authorities : Votes(Authorities[i])} \in Supermajorities
  /\ finalized' \in finalized + 1 .. Len(blocks) - 2
  /\ UNCHANGED <<now, node, blocks, duration, upgrades>>

(* A block of the chain replaces the runtime, by one with another slot duration. *)
Upgrade ==
  /\ Len(blocks) > 1
  /\ upgrades < MaxUpgrades
  /\ upgrades' = upgrades + 1
  /\ duration' \in NewDurations
  /\ UNCHANGED <<now, node, blocks, finalized>>

(* A node that runs is woken in time: no slot ends before.                 *)
Tick ==
  /\ now < MaxTime
  /\ \A n \in Nodes : ~Due(n)
  /\ now' = now + 1
  /\ UNCHANGED <<node, chain>>

Next ==
  \/ \E n \in Nodes : Start(n) \/ Wake(n) \/ \E t \in tasks[n] : Fail(n, t)
  \/ Finalize
  \/ Upgrade
  \/ Tick

(* Time goes on, however often nodes fail and start in between, and tasks that
   run are scheduled; nobody has to start a node.                          *)
Fairness ==
  /\ SF_vars(Tick) /\ WF_vars(Finalize)
  /\ \A n \in Nodes : WF_vars(Wake(n))

Spec == Init /\ [][Next]_vars /\ Fairness

-----------------------------------------------------------------------------
Current(n) == Up(n) /\ IsAuthority(n) /\ started_under[n] = upgrades

(* A slot is at most as long as it was to the last block: so it is as long as
   nobody changes the slot duration, and again from the first block after a
   change on.                                                              *)
NotLonger == SlotDurationApi <= BestBlock.period

AfterBest(slot) == slot > BestBlock.timestamp \div SlotDurationApi

(* TurnsAccepted: while the slot duration is not made longer, every slot after
   the last block is accepted of a node started under the current runtime: the
   runtime computes the same slot from the timestamp in the block, even when
   the last block was late and the timestamp is moved on, and no other node
   finds it too far in the future, even when its clock is behind.          *)
TurnsAccepted ==
  \A n \in Nodes :
    Current(n) /\ NotLonger /\ AfterBest(Slot(n)) =>
      /\ Accepts(n)
      /\ \A m \in Nodes : Up(m) => Verifies(m, Slot(n))

(* StaleTasksRefused: after an upgrade to a shorter slot duration no authoring
   task that was started before it gets a block accepted, until its node is
   restarted: the task has read the duration once (service.rs line 248).  The
   clock is to show more than the product of the two durations, an hour or so
   after 1970 for durations of seconds.                                    *)
StaleTasksRefused ==
  \A n \in Nodes :
    /\ "aura" \in tasks[n]
    /\ SlotDurationApi < slot_duration[n]
    /\ Clock(n) >= slot_duration[n] * SlotDurationApi
    => ~Accepts(n)

(* LongerStalls: after an upgrade to a longer slot duration there is no block
   until the time since the epoch has grown in the same proportion, whatever is
   restarted and however often the duration is changed: a slot is numbered from
   the epoch and must be later than the last block's.  For a chain of today
   that is decades for twice the duration ("will brick block production",
   runtime/src/lib.rs line 89).                                            *)
LongerStalls ==
  \A i, j \in DOMAIN blocks :
    i < j /\ blocks[i].period < blocks[j].period =>
      blocks[j].timestamp * blocks[i].period > blocks[i].timestamp * blocks[j].period

(* SlotInv: what every step preserves: slots grow along the chain and are what
   the runtime of the time made of the timestamps, and a node started under the
   current runtime has its slot duration.                                  *)
AllTasks == Essential \union {"offchain-workers-runner"}

Blocks == [slot : Nat, timestamp : Nat, period : Nat \ {0}]

NodeTypes ==
  /\ now \in Nat
  /\ tasks \in [Nodes -> SUBSET AllTasks]
  /\ slot_duration \in [Nodes -> Nat]
  /\ last_slot \in [Nodes -> Nat]
  /\ started_under \in [Nodes -> Nat]
  /\ blocks \in Seq(Blocks) /\ blocks # <<>>
  /\ finalized \in Nat
  /\ duration \in NewDurations \union {SLOT_DURATION}
  /\ upgrades \in Nat

SlotsGrow == \A i, j \in DOMAIN blocks : i < j => blocks[i].slot < blocks[j].slot

SlotsTimed ==
  \A i \in DOMAIN blocks : blocks[i].slot = blocks[i].timestamp \div blocks[i].period

DurationsKnown ==
  \A n \in Nodes :
    /\ "aura" \in tasks[n] => IsAuthority(n)
    /\ Up(n) /\ IsAuthority(n) =>
         /\ slot_duration[n] # 0
         /\ started_under[n] <= upgrades
         /\ started_under[n] = upgrades => slot_duration[n] = SlotDurationApi

SlotInv == NodeTypes /\ SlotsGrow /\ SlotsTimed /\ DurationsKnown

InTouch(n) == ~Offline(n) \/ n \in ForceAuthoring \/ Len(Authorities) = 1

FutureSlots == 1 .. MaxTime \div 2

(* Slot s of the current runtime is to come, and begins within the bound.  *)
Ahead(n, s) ==
  Slot(n) < s /\ AfterBest(s) /\ s * SlotDurationApi <= MaxTime

Able(n) == Current(n) /\ InTouch(n) /\ NotLonger

(* TurnsTaken: a node with the role authority that is up, was started under
   the current runtime and is in touch takes every turn that comes, whether
   or not finality goes on and whichever other nodes are down, unless the slot
   duration is made longer.                                                *)
TurnsTaken ==
  \A n \in Nodes, s \in FutureSlots :
    AuthorOf(s) = n =>
      (Able(n) /\ Ahead(n, s) ~> ((\E b \in DOMAIN blocks : blocks[b].slot = s) \/ ~Able(n)))

MayVote(n) == Up(n) /\ IsAuthority(n) /\ n \notin DisableGrandpa

EnoughUp == {i \in DOMAIN Authorities : MayVote(Authorities[i])} \in Supermajorities

(* FinalityFollows: while the nodes of more than two thirds of the authorities
   are up and vote, finality catches up with the chain to within two blocks,
   also after it has been stalled for any time.                            *)
FinalityFollows ==
  EnoughUp ~> (finalized + 2 >= Len(blocks) \/ ~EnoughUp)
=============================================================================
