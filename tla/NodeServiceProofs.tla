-------------------------- MODULE NodeServiceProofs --------------------------
(***************************************************************************)
(* Slots of NodeService, proved for any nodes, configurations, clocks and  *)
(* slot durations within the assumptions.                                  *)
(***************************************************************************)
EXTENDS NodeService, TLAPS

(* Euclid's division, the only fact about \div used below.                 *)
LEMMA DivLemma ==
  ASSUME NEW x \in Nat, NEW d \in Nat \ {0}
  PROVE  /\ x \div d \in Nat
         /\ (x \div d) * d <= x
         /\ x < (x \div d) * d + d
  OBVIOUS

LEMMA DivUnique ==
  ASSUME NEW x \in Nat, NEW d \in Nat \ {0}, NEW k \in Nat,
         k * d <= x, x < k * d + d
  PROVE  x \div d = k
  OBVIOUS

(* Multiplication is monotone.                                             *)
LEMMA TimesMonotone ==
  ASSUME NEW i \in Nat, NEW j \in Nat, NEW d \in Nat, i < j
  PROVE  i * d + d <= j * d
  OBVIOUS

LEMMA DivMonotone ==
  ASSUME NEW x \in Nat, NEW y \in Nat, NEW d \in Nat \ {0}, x <= y
  PROVE  x \div d <= y \div d
<1> DEFINE k == y \div d
           l == x \div d
<1>1. k \in Nat /\ y < k * d + d
  BY DivLemma
<1>2. l \in Nat /\ l * d <= x
  BY DivLemma
<1> HIDE DEF k, l
<1>3. l * d \in Nat /\ k * d \in Nat
  BY <1>1, <1>2
<1>4. ASSUME k < l PROVE FALSE
  BY <1>1, <1>2, <1>3, <1>4, TimesMonotone
<1>5. l <= k
  BY <1>1, <1>2, <1>4
<1> QED  BY <1>5 DEF k, l

(* In longer slots there are not more of them.                             *)
LEMMA DivLonger ==
  ASSUME NEW x \in Nat, NEW d \in Nat \ {0}, NEW e \in Nat \ {0}, d <= e
  PROVE  x \div e <= x \div d
<1> DEFINE k == x \div d
           l == x \div e
<1>1. k \in Nat /\ x < k * d + d
  BY DivLemma
<1>2. l \in Nat /\ l * e <= x
  BY DivLemma
<1> HIDE DEF k, l
<1>3. l * d <= l * e /\ l * d \in Nat /\ l * e \in Nat /\ k * d \in Nat
  BY <1>1, <1>2
<1>4. ASSUME k < l PROVE FALSE
  BY <1>1, <1>2, <1>3, <1>4, TimesMonotone
<1>5. l <= k
  BY <1>1, <1>2, <1>4
<1> QED  BY <1>5 DEF k, l

-----------------------------------------------------------------------------
(* Every runtime has a positive slot duration.                             *)
LEMMA DurationPositive ==
  ASSUME NodeTypes
  PROVE  /\ MinimumPeriod \in Nat \ {0}
         /\ SlotDurationApi \in Nat \ {0}
         /\ SlotDurationApi = 2 * MinimumPeriod
<1>1. duration \in Nat \ {0, 1}
  BY NodeAssumption DEF NodeTypes
<1> QED
  BY <1>1 DEF MinimumPeriod, SlotDurationApi

LEMMA BestBlockType ==
  ASSUME NodeTypes
  PROVE  /\ BestBlock \in Blocks
         /\ BestBlock.slot \in Nat /\ BestBlock.timestamp \in Nat
         /\ BestBlock.period \in Nat \ {0}
         /\ Len(blocks) \in DOMAIN blocks
<1>1. Len(blocks) \in DOMAIN blocks /\ BestBlock \in Blocks
  BY DEF NodeTypes, BestBlock
<1> QED
  BY <1>1 DEF Blocks

LEMMA ClockType ==
  ASSUME NodeTypes, NEW n \in Nodes
  PROVE  Clock(n) \in Nat
<1>1. now \in Nat
  BY DEF NodeTypes
<1>2. SkewOf[n] \in Nat
  BY NodeAssumption
<1> QED
  BY <1>1, <1>2 DEF Clock

LEMMA SlotInvInit == Init => SlotInv
<1> SUFFICES ASSUME Init PROVE SlotInv
  OBVIOUS
<1>1. SlotDurationApi \in Nat \ {0}
  BY NodeAssumption DEF Init, SlotDurationApi, MinimumPeriod
<1>2. Block(0, 0) \in Blocks
  BY <1>1 DEF Block, Blocks
<1>3. NodeTypes
  BY <1>2, NodeAssumption DEF Init, NodeTypes
<1>4. SlotsGrow
  BY <1>2 DEF Init, SlotsGrow
<1>5. SlotsTimed
  BY <1>1 DEF Init, SlotsTimed, Block
<1>6. DurationsKnown
  BY DEF Init, DurationsKnown, Up
<1> QED
  BY <1>3, <1>4, <1>5, <1>6 DEF SlotInv

LEMMA StartKeeps ==
  ASSUME SlotInv, NEW n \in Nodes, Start(n)
  PROVE  SlotInv'
<1> DEFINE started == PartialTasks \union OffchainTasks(n) \union AuthoringTasks(n) \union GrandpaTasks(n)
<1>1. SlotDurationApi \in Nat \ {0}
  BY DurationPositive DEF SlotInv
<1>2. started \subseteq AllTasks /\ ("aura" \in started => IsAuthority(n))
  BY DEF AllTasks, Essential, PartialTasks, OffchainTasks, AuthoringTasks, GrandpaTasks
<1>3. tasks' = [tasks EXCEPT ![n] = started]
  BY DEF Start
<1>4. NodeTypes'
  <2>1. tasks' \in [Nodes -> SUBSET AllTasks]
    BY <1>2, <1>3 DEF SlotInv, NodeTypes
  <2>2. Clock(n) \div SlotDurationApi \in Nat
    BY <1>1, ClockType, DivLemma DEF SlotInv
  <2> QED
    BY <1>1, <2>1, <2>2 DEF Start, SlotInv, NodeTypes, chain
<1>5. SlotsGrow' /\ SlotsTimed'
  BY DEF Start, SlotInv, SlotsGrow, SlotsTimed, chain
<1>6. SlotDurationApi' = SlotDurationApi /\ upgrades' = upgrades
  BY DEF Start, chain, SlotDurationApi, MinimumPeriod
<1>7. DurationsKnown'
  <2> SUFFICES ASSUME NEW m \in Nodes
               PROVE  /\ "aura" \in tasks'[m] => IsAuthority(m)
                      /\ tasks'[m] # {} /\ IsAuthority(m) =>
                           /\ slot_duration'[m] # 0
                           /\ started_under'[m] <= upgrades
                           /\ started_under'[m] = upgrades => slot_duration'[m] = SlotDurationApi
    BY <1>6 DEF DurationsKnown, Up, IsAuthority
  <2>1. CASE m = n
    BY <2>1, <1>1, <1>2, <1>3 DEF Start, SlotInv, NodeTypes
  <2>2. CASE m # n
    BY <2>2, <1>3 DEF Start, SlotInv, NodeTypes, DurationsKnown, Up
  <2> QED
    BY <2>1, <2>2
<1> QED
  BY <1>4, <1>5, <1>7 DEF SlotInv

LEMMA FailKeeps ==
  ASSUME SlotInv, NEW n \in Nodes, NEW t \in tasks[n], Fail(n, t)
  PROVE  SlotInv'
<1>1. /\ UNCHANGED <<now, blocks, finalized, duration, upgrades>>
      /\ SlotDurationApi' = SlotDurationApi
  BY DEF Fail, chain, SlotDurationApi, MinimumPeriod
<1>2. SlotsGrow' /\ SlotsTimed'
  BY <1>1 DEF SlotInv, SlotsGrow, SlotsTimed
<1>3. CASE GoesDown(n)
  <2>1. NodeTypes'
    BY <1>1, <1>3 DEF GoesDown, SlotInv, NodeTypes
  <2>2. DurationsKnown'
    BY <1>1, <1>3 DEF GoesDown, SlotInv, NodeTypes, DurationsKnown, Up, IsAuthority
  <2> QED
    BY <2>1, <2>2, <1>2 DEF SlotInv
<1>4. CASE /\ tasks' = [tasks EXCEPT ![n] = @ \ {t}]
           /\ UNCHANGED <<slot_duration, last_slot, started_under>>
  <2>1. tasks' \in [Nodes -> SUBSET AllTasks] /\ \A m \in Nodes : tasks'[m] \subseteq tasks[m]
    BY <1>4 DEF SlotInv, NodeTypes
  <2>2. NodeTypes'
    BY <1>1, <1>4, <2>1 DEF SlotInv, NodeTypes
  <2>3. DurationsKnown'
    BY <1>1, <1>4, <2>1 DEF SlotInv, DurationsKnown, Up, IsAuthority
  <2> QED
    BY <2>2, <2>3, <1>2 DEF SlotInv
<1> QED
  BY <1>3, <1>4 DEF Fail

(* Only an authority's node runs the authoring task, so the slot it is woken
   for is defined.                                                         *)
LEMMA WokenSlot ==
  ASSUME SlotInv, NEW n \in Nodes, slot_duration[n] # 0
  PROVE  Slot(n) \in Nat
<1>1. Clock(n) \in Nat /\ slot_duration[n] \in Nat \ {0}
  BY ClockType DEF SlotInv, NodeTypes
<1> QED
  BY <1>1, DivLemma DEF Slot

LEMMA TimestampType ==
  ASSUME SlotInv, NEW n \in Nodes
  PROVE  Timestamp(n) \in Nat
  BY ClockType, BestBlockType, DurationPositive DEF SlotInv, Timestamp

LEMMA AppendGrows ==
  ASSUME NodeTypes, SlotsGrow, SlotsTimed, NEW block \in Blocks,
         block.slot > BestBlock.slot, block.slot = block.timestamp \div block.period,
         blocks' = Append(blocks, block)
  PROVE  /\ blocks' \in Seq(Blocks) /\ blocks' # <<>>
         /\ SlotsGrow' /\ SlotsTimed'
<1>0. blocks \in Seq(Blocks)
  BY DEF NodeTypes
<1>1. blocks' \in Seq(Blocks) /\ blocks' # <<>>
  BY <1>0
<1>2. /\ DOMAIN blocks' = 1 .. (Len(blocks) + 1) /\ Len(blocks) \in Nat
      /\ \A i \in 1 .. Len(blocks) : blocks'[i] = blocks[i]
      /\ blocks'[Len(blocks) + 1] = block
      /\ DOMAIN blocks = 1 .. Len(blocks)
  BY <1>0
<1>3. SlotsGrow'
  <2> SUFFICES ASSUME NEW i \in DOMAIN blocks', NEW j \in DOMAIN blocks', i < j
               PROVE  blocks'[i].slot < blocks'[j].slot
    BY DEF SlotsGrow
  <2>1. CASE j \in 1 .. Len(blocks)
    BY <1>2, <2>1 DEF SlotsGrow
  <2>2. CASE j = Len(blocks) + 1
    <3>0. i \in 1 .. Len(blocks) /\ BestBlock.slot \in Nat
      BY <1>2, <2>2, BestBlockType
    <3>1. i \in 1 .. Len(blocks) /\ blocks[i].slot \in Nat /\ BestBlock.slot \in Nat
      <4>1. blocks[i] \in Blocks
        BY <1>0, <3>0
      <4> QED
        BY <4>1, <3>0 DEF Blocks
    <3>2. blocks[i].slot <= BestBlock.slot
      <4>1. CASE i = Len(blocks)
        BY <4>1, <3>1 DEF BestBlock
      <4>2. CASE i < Len(blocks)
        <5>1. Len(blocks) \in DOMAIN blocks /\ i \in DOMAIN blocks
          BY <3>1, <1>2, BestBlockType
        <5>2. blocks[i].slot < blocks[Len(blocks)].slot
          BY <5>1, <4>2 DEF SlotsGrow
        <5> QED
          BY <5>2, <3>1 DEF BestBlock
      <4> QED
        BY <4>1, <4>2, <3>1, <1>2
    <3>3. blocks'[i].slot = blocks[i].slot /\ blocks'[j].slot = block.slot
      BY <3>1, <2>2, <1>2
    <3>4. block.slot \in Nat
      BY DEF Blocks
    <3> QED
      BY <3>1, <3>2, <3>3, <3>4
  <2> QED
    BY <2>1, <2>2, <1>2
<1>4. SlotsTimed'
  BY <1>2 DEF SlotsTimed
<1> QED
  BY <1>1, <1>3, <1>4

LEMMA WakeKeeps ==
  ASSUME SlotInv, NEW n \in Nodes, Wake(n)
  PROVE  SlotInv'
<1>1. Up(n) /\ slot_duration[n] # 0
  BY DEF Wake, Due, Up, SlotInv, DurationsKnown
<1>2. Slot(n) \in Nat /\ Timestamp(n) \in Nat
  BY <1>1, WokenSlot, TimestampType
<1>3. /\ blocks' \in Seq(Blocks) /\ blocks' # <<>>
      /\ SlotsGrow' /\ SlotsTimed'
  <2>1. CASE Claims(n) /\ Accepts(n) /\ blocks' = Append(blocks, Block(Slot(n), Timestamp(n)))
    <3> DEFINE block == Block(Slot(n), Timestamp(n))
    <3>1. /\ block.slot = Slot(n) /\ block.timestamp = Timestamp(n)
          /\ block.period = SlotDurationApi
      BY DEF Block
    <3>2. block \in Blocks
      BY <1>2, DurationPositive DEF Block, Blocks, SlotInv
    <3>3. block.slot > BestBlock.slot /\ block.slot = block.timestamp \div block.period
      BY <2>1, <3>1 DEF Accepts, SlotDurationApi
    <3> QED
      BY <2>1, <3>2, <3>3, AppendGrows DEF SlotInv
  <2>2. CASE UNCHANGED blocks
    BY <2>2 DEF SlotInv, NodeTypes, SlotsGrow, SlotsTimed
  <2> QED
    BY <2>1, <2>2 DEF Wake
<1>4. NodeTypes'
  BY <1>2, <1>3 DEF Wake, SlotInv, NodeTypes
<1>5. DurationsKnown'
  BY DEF Wake, SlotInv, DurationsKnown, Up, IsAuthority, SlotDurationApi, MinimumPeriod
<1> QED
  BY <1>3, <1>4, <1>5 DEF SlotInv

LEMMA OtherKeeps ==
  ASSUME SlotInv, Finalize \/ Upgrade \/ Tick \/ UNCHANGED vars
  PROVE  SlotInv'
<1>0. NodeTypes /\ SlotsGrow /\ SlotsTimed /\ DurationsKnown
  BY DEF SlotInv
<1>1. UNCHANGED <<node, blocks>>
  BY DEF Finalize, Upgrade, Tick, vars, chain
<1>2. SlotsGrow' /\ SlotsTimed'
  BY <1>0, <1>1 DEF SlotsGrow, SlotsTimed
<1>3. CASE Upgrade
  <2>1. NodeTypes'
    BY <1>0, <1>1, <1>3 DEF Upgrade, NodeTypes, node
  <2>2. DurationsKnown'
    <3>1. \A n \in Nodes : started_under[n] \in Nat /\ upgrades \in Nat /\ upgrades' = upgrades + 1
      BY <1>0, <1>3 DEF Upgrade, NodeTypes
    <3>2. UNCHANGED <<tasks, slot_duration, started_under>>
      BY <1>1 DEF node
    <3> QED
      BY <1>0, <3>1, <3>2 DEF DurationsKnown, Up, IsAuthority
  <2> QED
    BY <2>1, <2>2, <1>2 DEF SlotInv
<1>4. CASE Finalize \/ Tick \/ UNCHANGED vars
  <2>1. UNCHANGED <<duration, upgrades>> /\ now' \in Nat /\ finalized' \in Nat
    BY <1>0, <1>4 DEF Finalize, Tick, vars, chain, NodeTypes
  <2>2. NodeTypes'
    BY <1>0, <1>1, <2>1 DEF NodeTypes, node
  <2>3. DurationsKnown'
    BY <1>0, <1>1, <2>1 DEF DurationsKnown, Up, IsAuthority, node, SlotDurationApi, MinimumPeriod
  <2> QED
    BY <2>2, <2>3, <1>2 DEF SlotInv
<1> QED
  BY <1>3, <1>4

LEMMA SlotInvStep == SlotInv /\ [Next]_vars => SlotInv'
  BY StartKeeps, FailKeeps, WakeKeeps, OtherKeeps DEF Next

-----------------------------------------------------------------------------
(* The slot that a node of the current runtime computes from its clock is the
   one that the runtime computes from the timestamp, which is moved on to at
   most half a slot after the last block.                                  *)
LEMMA SlotMatchesTimestamp ==
  ASSUME SlotInv, NEW n \in Nodes, Current(n), NotLonger, AfterBest(Slot(n))
  PROVE  Accepts(n)
<1> DEFINE d == SlotDurationApi
           s == Slot(n)
           last == BestBlock.timestamp
<1>1. d \in Nat \ {0} /\ MinimumPeriod \in Nat \ {0} /\ d = 2 * MinimumPeriod
  BY DurationPositive DEF SlotInv
<1>2. last \in Nat /\ BestBlock.slot \in Nat /\ Clock(n) \in Nat
  BY BestBlockType, ClockType DEF SlotInv
<1>3. slot_duration[n] = d
  BY DEF SlotInv, DurationsKnown, Current
<1>4. s = Clock(n) \div d
  BY <1>3 DEF Slot
<1>5. s \in Nat /\ s * d <= Clock(n) /\ Clock(n) < s * d + d /\ s * d \in Nat
  <2> HIDE DEF d, s
  <2>1. s \in Nat /\ s * d <= Clock(n) /\ Clock(n) < s * d + d
    BY <1>1, <1>2, <1>4, DivLemma
  <2> QED
    BY <2>1, <1>1
<1>6. last < s * d
  <2>1. last \div d < s
    BY DEF AfterBest
  <2> HIDE DEF d, s, last
  <2>2. last \div d \in Nat /\ last < (last \div d) * d + d
    BY <1>1, <1>2, DivLemma
  <2>3. (last \div d) * d + d <= s * d
    BY <1>1, <1>5, <2>1, <2>2, TimesMonotone
  <2>4. (last \div d) * d \in Nat
    BY <2>2, <1>1
  <2> QED
    BY <2>2, <2>3, <2>4, <1>1, <1>2, <1>5
<1>7. Timestamp(n) \in Nat /\ s * d <= Timestamp(n) /\ Timestamp(n) < s * d + d
  <2>1. Timestamp(n) = IF Clock(n) > last + MinimumPeriod THEN Clock(n) ELSE last + MinimumPeriod
    BY DEF Timestamp
  <2> HIDE DEF d, s, last
  <2> QED
    BY <2>1, <1>1, <1>2, <1>5, <1>6
<1>8. Timestamp(n) \div d = s
  <2> HIDE DEF d, s
  <2> QED
    BY <1>1, <1>5, <1>7, DivUnique
<1>9. s > BestBlock.slot
  <2>1. BestBlock.slot = last \div BestBlock.period
    BY BestBlockType DEF SlotInv, SlotsTimed, BestBlock
  <2>2. BestBlock.period \in Nat \ {0} /\ d <= BestBlock.period
    BY BestBlockType DEF SlotInv, NotLonger
  <2>3. last \div d < s
    BY DEF AfterBest
  <2> HIDE DEF d, s, last
  <2>4. last \div BestBlock.period <= last \div d /\ last \div d \in Nat
    BY <1>1, <1>2, <2>2, DivLonger, DivLemma
  <2> QED
    BY <2>1, <2>3, <2>4, <1>2, <1>5
<1> QED
  BY <1>1, <1>8, <1>9 DEF Accepts

(* A clock behind by at most a slot is behind by at most one slot number.  *)
LEMMA NeighboursVerify ==
  ASSUME SlotInv, NEW n \in Nodes, NEW m \in Nodes, Current(n)
  PROVE  Verifies(m, Slot(n))
<1> DEFINE d == SlotDurationApi
           s == Slot(n)
           k == Clock(m) \div d
<1>1. d \in Nat \ {0}
  BY DurationPositive DEF SlotInv
<1>2. Clock(n) \in Nat /\ Clock(m) \in Nat
  BY ClockType DEF SlotInv
<1>3. Clock(n) <= Clock(m) + d
  <2>1. SkewOf[n] <= d
    BY SkewAssumption DEF SlotInv, NodeTypes, SlotDurationApi, MinimumPeriod
  <2>2. SkewOf[n] \in Nat /\ SkewOf[m] \in Nat /\ now \in Nat
    BY NodeAssumption DEF SlotInv, NodeTypes
  <2> HIDE DEF d
  <2> QED
    BY <2>1, <2>2, <1>1 DEF Clock
<1>4. s = Clock(n) \div d
  BY DEF SlotInv, DurationsKnown, Current, Slot
<1> HIDE DEF d
<1>5. s \in Nat /\ s * d <= Clock(n) /\ s * d \in Nat
  BY <1>1, <1>2, <1>4, DivLemma
<1>6. k \in Nat /\ Clock(m) < k * d + d /\ k * d \in Nat
  BY <1>1, <1>2, DivLemma
<1> HIDE DEF s, k
<1>7. ASSUME k + 1 < s PROVE FALSE
  <2>1. (k + 1) * d + d <= s * d
    BY <1>1, <1>5, <1>6, <1>7, TimesMonotone
  <2>2. (k + 1) * d = k * d + d
    BY <1>1, <1>6
  <2> QED
    BY <2>1, <2>2, <1>1, <1>2, <1>3, <1>5, <1>6
<1>8. s <= k + 1
  BY <1>5, <1>6, <1>7
<1> QED
  BY <1>8 DEF Verifies, d, s, k

(* EveryTurnAccepted: whatever the slot durations, clocks within a slot of each
   other, failures and restarts, the turn of a node that runs with the current
   runtime's slot duration is never refused, after an upgrade to a shorter one
   as well; what a longer one stops, LongerMustWait says.                  *)
THEOREM EveryTurnAccepted == Spec => []TurnsAccepted
<1>1. SlotInv => TurnsAccepted
  BY SlotMatchesTimestamp, NeighboursVerify DEF TurnsAccepted
<1> QED
  BY <1>1, SlotInvInit, SlotInvStep, PTL DEF Spec

-----------------------------------------------------------------------------
(* A task that holds a longer slot duration counts fewer slots, at least one
   less once the clock shows the product of the two.                       *)
LEMMA DivShorter ==
  ASSUME NEW x \in Nat, NEW d \in Nat \ {0}, NEW e \in Nat \ {0}, d < e, x >= e * d
  PROVE  x \div e < x \div d
<1> DEFINE k == x \div d
           l == x \div e
<1>1. k \in Nat /\ x < k * d + d
  BY DivLemma
<1>2. l \in Nat /\ l * e <= x /\ x < l * e + e
  BY DivLemma
<1> HIDE DEF k, l
<1>3. l >= d
  <2>1. ASSUME l < d PROVE FALSE
    <3>1. l * e + e <= d * e
      BY <1>2, <2>1, TimesMonotone
    <3>2. d * e = e * d /\ e * d \in Nat /\ l * e \in Nat
      BY <1>2
    <3> QED  BY <1>2, <3>1, <3>2
  <2> QED  BY <1>2, <2>1
<1>4. l * d + d <= l * e
  <2>1. d * l + l <= e * l
    BY <1>2, TimesMonotone
  <2>2. d * l = l * d /\ e * l = l * e /\ l * d \in Nat /\ l * e \in Nat
    BY <1>2
  <2> QED  BY <1>2, <1>3, <2>1, <2>2
<1>5. ASSUME k <= l PROVE FALSE
  <2>1. k * d <= l * d
    <3>1. CASE k = l
      BY <3>1, <1>1
    <3>2. CASE k < l
      <4>1. k * d + d <= l * d /\ k * d \in Nat /\ l * d \in Nat
        BY <3>2, <1>1, <1>2, TimesMonotone
      <4> QED  BY <4>1
    <3> QED  BY <3>1, <3>2, <1>1, <1>2, <1>5
  <2>2. k * d \in Nat /\ l * d \in Nat /\ l * e \in Nat
    BY <1>1, <1>2
  <2> QED  BY <1>1, <1>2, <1>4, <2>1, <2>2
<1>6. l < k
  BY <1>1, <1>2, <1>5
<1> QED  BY <1>6 DEF k, l

LEMMA StaleIsRefused ==
  ASSUME SlotInv, NEW n \in Nodes, SlotDurationApi < slot_duration[n],
         Clock(n) >= slot_duration[n] * SlotDurationApi
  PROVE  ~Accepts(n)
<1> DEFINE d == SlotDurationApi
           e == slot_duration[n]
<1>1. d \in Nat \ {0} /\ MinimumPeriod \in Nat /\ d = 2 * MinimumPeriod
  BY DurationPositive DEF SlotInv
<1>2. e \in Nat \ {0} /\ d < e
  BY <1>1 DEF SlotInv, NodeTypes
<1>3. Clock(n) \in Nat /\ Timestamp(n) \in Nat /\ BestBlock.timestamp \in Nat
  BY ClockType, TimestampType, BestBlockType DEF SlotInv
<1>4. Timestamp(n) >= Clock(n)
  BY <1>1, <1>3 DEF Timestamp
<1>5. Slot(n) = Clock(n) \div e /\ Clock(n) >= e * d
  BY DEF Slot
<1>6. Accepts(n) => Timestamp(n) \div d = Slot(n)
  BY DEF Accepts, SlotDurationApi
<1> HIDE DEF d, e
<1>7. Timestamp(n) >= e * d /\ e * d \in Nat
  BY <1>1, <1>2, <1>3, <1>4, <1>5
<1>8. Timestamp(n) \div e < Timestamp(n) \div d
  BY <1>1, <1>2, <1>3, <1>7, DivShorter
<1>9. Clock(n) \div e <= Timestamp(n) \div e
  BY <1>2, <1>3, <1>4, DivMonotone
<1>10. Clock(n) \div e \in Nat /\ Timestamp(n) \div e \in Nat /\ Timestamp(n) \div d \in Nat
  BY <1>1, <1>2, <1>3, DivLemma
<1> QED  BY <1>5, <1>6, <1>8, <1>9, <1>10

(* StaleAreRefused: whichever upgrades there are, an authoring task that holds
   a slot duration longer than the current runtime's gets no block accepted,
   because the runtime counts more slots than the task.                    *)
THEOREM StaleAreRefused == Spec => []StaleTasksRefused
<1>1. SlotInv => StaleTasksRefused
  BY StaleIsRefused DEF StaleTasksRefused
<1> QED
  BY <1>1, SlotInvInit, SlotInvStep, PTL DEF Spec

-----------------------------------------------------------------------------
(* The time of the later of two slots, counted in the durations each has.  *)
LEMMA ProportionLemma ==
  ASSUME NEW s \in Nat, NEW t \in Nat, NEW p \in Nat \ {0}, t < s * p + p,
         NEW r \in Nat, NEW u \in Nat, NEW q \in Nat \ {0}, r * q <= u, s < r
  PROVE  u * p > t * q
<1>1. s * q + q <= r * q /\ s * q \in Nat /\ r * q \in Nat
  BY TimesMonotone
<1>2. s * q + q <= u
  BY <1>1
<1>3. (s * q + q) * p <= u * p
  BY <1>1, <1>2
<1>4. t * q < (s * p + p) * q
  OBVIOUS
<1>5. (s * p + p) * q = (s * q + q) * p
  OBVIOUS
<1>6. t * q \in Nat /\ u * p \in Nat /\ (s * q + q) * p \in Nat
  BY <1>1
<1> QED  BY <1>3, <1>4, <1>5, <1>6

(* LongerMustWait: whatever is restarted, whoever's turn it is and however
   often the slot duration is changed, two blocks of which the later one has
   longer slots are as far apart as the time since the epoch takes to grow in
   the proportion of the durations.                                        *)
THEOREM LongerMustWait == Spec => []LongerStalls
<1>1. SlotInv => LongerStalls
  <2> SUFFICES ASSUME SlotInv, NEW i \in DOMAIN blocks, NEW j \in DOMAIN blocks, i < j
               PROVE  blocks[j].timestamp * blocks[i].period > blocks[i].timestamp * blocks[j].period
    BY DEF LongerStalls
  <2>1. blocks[i] \in Blocks /\ blocks[j] \in Blocks
    BY DEF SlotInv, NodeTypes
  <2>2. /\ blocks[i].slot \in Nat /\ blocks[i].timestamp \in Nat /\ blocks[i].period \in Nat \ {0}
        /\ blocks[j].slot \in Nat /\ blocks[j].timestamp \in Nat /\ blocks[j].period \in Nat \ {0}
    BY <2>1 DEF Blocks
  <2>3. /\ blocks[i].slot = blocks[i].timestamp \div blocks[i].period
        /\ blocks[j].slot = blocks[j].timestamp \div blocks[j].period
        /\ blocks[i].slot < blocks[j].slot
    BY DEF SlotInv, SlotsTimed, SlotsGrow
  <2>4. /\ blocks[i].timestamp < blocks[i].slot * blocks[i].period + blocks[i].period
        /\ blocks[j].slot * blocks[j].period <= blocks[j].timestamp
    BY <2>2, <2>3, DivLemma
  <2> QED  BY <2>2, <2>3, <2>4, ProportionLemma
<1> QED
  BY <1>1, SlotInvInit, SlotInvStep, PTL DEF Spec
=============================================================================
