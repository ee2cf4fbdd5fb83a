---------------------------- MODULE FreezerProofs ----------------------------
(***************************************************************************)
(* The freezer's record, the freezes in force and what they keep from being *)
(* spent, proved for any accounts, amounts, origins and existential deposit. *)
(***************************************************************************)
EXTENDS FreezerHistory, TLAPS

(* What every step preserves.                                              *)
FreezerInv == TypeOK /\ FreezeOnRecord

LEMMA FreezerInit == Init => FreezerInv
  BY FreezerAssumption DEF Init, FreezerInv, TypeOK, FreezeOnRecord, AccountData, Data

(* A transfer leaves a frozen sender the existential deposit.              *)
LEMMA TransferKeeps ==
  ASSUME FreezerInv, NEW from \in Accounts, NEW to \in Accounts, NEW v \in Nat,
         transfer_allow_death(from, to, v), UNCHANGED Frozen
  PROVE  FreezerInv'
<1> USE EDAssumption
<1> DEFINE sender   == Data(Undusted(account[from].free - v), account[from].reserved, account[from].frozen)
           receiver == Data(account[to].free + v, account[to].reserved, account[to].frozen)
<1>1. account[from] \in AccountData /\ account[to] \in AccountData
  BY DEF FreezerInv, TypeOK
<1>2. account' = [account EXCEPT ![from] = sender, ![to] = receiver] /\ from # to
  BY <1>1 DEF transfer_allow_death
<1>3. account[from].free >= v + Untouchable(from) /\ Untouchable(from) \in Nat
  BY <1>1 DEF transfer_allow_death, Untouchable, AccountData
<1>4. sender \in AccountData /\ receiver \in AccountData
  BY <1>1, <1>3 DEF AccountData, Data, Undusted
<1>5. account[from].frozen > 0 => sender.free >= ExistentialDeposit
  <2> SUFFICES ASSUME account[from].frozen > 0 PROVE sender.free >= ExistentialDeposit
    OBVIOUS
  <2>1. Untouchable(from) >= ExistentialDeposit
    BY <1>1 DEF Untouchable, AccountData
  <2>2. account[from].free - v >= ExistentialDeposit
    BY <1>1, <1>3, <2>1 DEF AccountData
  <2> QED
    BY <2>2, <1>1 DEF AccountData, Data, Undusted
<1>6. account[to].frozen > 0 => receiver.free >= ExistentialDeposit
  BY <1>1 DEF FreezerInv, FreezeOnRecord, AccountData, Data
<1>7. TypeOK'
  BY <1>2, <1>4 DEF FreezerInv, TypeOK
<1>8. FreezeOnRecord'
  <2> SUFFICES ASSUME NEW a \in Accounts, account'[a].frozen > 0
               PROVE  a \in Frozen /\ account'[a].free >= ExistentialDeposit
    BY DEF FreezeOnRecord
  <2>1. account'[a] = IF a = to THEN receiver ELSE IF a = from THEN sender ELSE account[a]
    BY <1>2 DEF FreezerInv, TypeOK
  <2>2. account'[a].frozen = account[a].frozen
    BY <2>1 DEF Data
  <2> QED
    BY <2>1, <2>2, <1>5, <1>6 DEF FreezerInv, FreezeOnRecord
<1> QED
  BY <1>7, <1>8 DEF FreezerInv

(* So do reserves, which leave the deposit, and unreserves, which add to it. *)
LEMMA ReserveKeeps ==
  ASSUME FreezerInv, NEW who \in Accounts, NEW v \in Nat,
         reserve(who, v) \/ unreserve(who, v), UNCHANGED Frozen
  PROVE  FreezerInv'
<1> USE EDAssumption
<1>1. account[who] \in AccountData
  BY DEF FreezerInv, TypeOK
<1>2. PICK d \in AccountData :
        /\ account' = [account EXCEPT ![who] = d]
        /\ d.frozen = account[who].frozen
        /\ d.free >= account[who].free \/ d.free >= ExistentialDeposit
  <2>1. CASE reserve(who, v)
    <3> DEFINE d == Data(account[who].free - v, account[who].reserved + v, account[who].frozen)
    <3>1. d \in AccountData /\ (d.free >= account[who].free \/ d.free >= ExistentialDeposit)
      BY <1>1, <2>1 DEF reserve, AccountData, Data
    <3> QED
      BY <3>1, <2>1 DEF reserve, Data
  <2>2. CASE unreserve(who, v)
    <3> DEFINE released == MinOf(v, account[who].reserved)
               d == Data(account[who].free + released, account[who].reserved - released,
                         account[who].frozen)
    <3>1. d \in AccountData /\ d.free >= account[who].free
      BY <1>1 DEF MinOf, AccountData, Data
    <3> QED
      BY <3>1, <2>2 DEF unreserve, Data
  <2> QED
    BY <2>1, <2>2
<1>3. TypeOK'
  BY <1>2 DEF FreezerInv, TypeOK
<1>4. FreezeOnRecord'
  <2> SUFFICES ASSUME NEW a \in Accounts, account'[a].frozen > 0
               PROVE  a \in Frozen /\ account'[a].free >= ExistentialDeposit
    BY DEF FreezeOnRecord
  <2>1. account'[a] = IF a = who THEN d ELSE account[a]
    BY <1>2 DEF FreezerInv, TypeOK
  <2> QED
    BY <2>1, <1>1, <1>2 DEF FreezerInv, FreezeOnRecord, AccountData
<1> QED
  BY <1>3, <1>4 DEF FreezerInv

(* The four calls set one account's freeze, and its record with it.        *)
LEMMA CallKeeps ==
  ASSUME FreezerInv, NEW origin, NEW who \in Accounts, NEW amount \in Nat,
         \/ freeze_account(origin, who)
         \/ freeze_amount(origin, who, amount)
         \/ thaw_account(origin, who)
         \/ thaw_amount(origin, who, amount)
  PROVE  FreezerInv'
<1> USE EDAssumption, FreezerAssumption
<1>1. account[who] \in AccountData
  BY DEF FreezerInv, TypeOK
<1>2. PICK left \in Nat :
        /\ account' = [account EXCEPT ![who] =
                         Data(account[who].free, account[who].reserved, left)]
        /\ left > 0 => who \in Frozen' /\ account[who].free >= ExistentialDeposit
        /\ Frozen' \subseteq Accounts /\ Frozen \ {who} \subseteq Frozen'
  <2>1. CASE freeze_account(origin, who)
    BY <2>1 DEF freeze_account, set_freeze, FreezerInv, TypeOK
  <2>2. CASE freeze_amount(origin, who, amount)
    BY <2>2 DEF freeze_amount, set_freeze, FreezerInv, TypeOK
  <2>3. CASE thaw_account(origin, who)
    <3>1. /\ account' = [account EXCEPT ![who] = Data(account[who].free, account[who].reserved, 0)]
          /\ Frozen' = Frozen \ {who} /\ Frozen \subseteq Accounts
      BY <2>3 DEF thaw_account, thaw, FreezerInv, TypeOK
    <3>2. 0 \in Nat /\ ~(0 > 0)
      OBVIOUS
    <3> QED
      BY <3>1, <3>2
  <2>4. CASE thaw_amount(origin, who, amount)
    <3>1. CASE amount = account[who].frozen
      BY <2>4, <3>1, <1>1 DEF thaw_amount, thaw, FreezerInv, TypeOK, AccountData
    <3>2. CASE amount < account[who].frozen
      <4>1. account[who].frozen - amount \in Nat
        BY <3>2, <1>1 DEF AccountData
      <4>2. set_freeze(who, account[who].frozen - amount) /\ UNCHANGED Frozen /\ who \in Frozen
        BY <2>4, <3>2, <1>1 DEF thaw_amount, AccountData
      <4> QED
        BY <4>1, <4>2 DEF set_freeze, FreezerInv, TypeOK
    <3> QED
      BY <2>4, <3>1, <3>2, <1>1 DEF thaw_amount, AccountData
  <2> QED
    BY <2>1, <2>2, <2>3, <2>4
<1>3. TypeOK'
  BY <1>1, <1>2 DEF FreezerInv, TypeOK, AccountData, Data
<1>4. FreezeOnRecord'
  <2> SUFFICES ASSUME NEW a \in Accounts, account'[a].frozen > 0
               PROVE  a \in Frozen' /\ account'[a].free >= ExistentialDeposit
    BY DEF FreezeOnRecord
  <2>1. account'[a] = IF a = who THEN Data(account[who].free, account[who].reserved, left)
                                 ELSE account[a]
    BY <1>2 DEF FreezerInv, TypeOK
  <2>2. CASE a = who
    BY <2>1, <2>2, <1>2 DEF Data
  <2>3. CASE a # who
    BY <2>1, <2>3, <1>2 DEF FreezerInv, FreezeOnRecord
  <2> QED
    BY <2>2, <2>3
<1> QED
  BY <1>3, <1>4 DEF FreezerInv

LEMMA FreezerStep == FreezerInv /\ [Next]_vars => FreezerInv'
<1> SUFFICES ASSUME FreezerInv, [Next]_vars PROVE FreezerInv'
  OBVIOUS
<1> USE FreezerAssumption
<1>1. CASE FreezerCall
  <2>1. PICK origin \in Origins, who \in Accounts :
          \/ freeze_account(origin, who)
          \/ \E amount \in Amounts : freeze_amount(origin, who, amount)
          \/ thaw_account(origin, who)
          \/ \E amount \in Amounts : thaw_amount(origin, who, amount)
    BY <1>1 DEF FreezerCall
  <2>2. CASE freeze_account(origin, who) \/ thaw_account(origin, who)
    BY <2>2, CallKeeps
  <2>3. CASE \E amount \in Amounts : freeze_amount(origin, who, amount)
                                     \/ thaw_amount(origin, who, amount)
    BY <2>3, CallKeeps
  <2> QED
    BY <2>1, <2>2, <2>3
<1>2. CASE BalanceCall
  <2>1. PICK who \in Accounts, amount \in Amounts :
          \/ reserve(who, amount)
          \/ unreserve(who, amount)
          \/ \E to \in Accounts : transfer_allow_death(who, to, amount)
    BY <1>2 DEF BalanceCall
  <2>2. UNCHANGED Frozen /\ amount \in Nat
    BY <1>2 DEF BalanceCall
  <2>3. CASE reserve(who, amount) \/ unreserve(who, amount)
    BY <2>2, <2>3, ReserveKeeps
  <2>4. CASE \E to \in Accounts : transfer_allow_death(who, to, amount)
    BY <2>2, <2>4, TransferKeeps
  <2> QED
    BY <2>1, <2>3, <2>4
<1>3. CASE UNCHANGED vars
  BY <1>3 DEF vars, FreezerInv, TypeOK, FreezeOnRecord
<1> QED
  BY <1>1, <1>2, <1>3 DEF Next

(* FreezesOnRecord: in every behaviour of the pallet and of the balances below
   it, the types hold and every freeze in force is on record, on an account
   that is alive.                                                          *)
THEOREM FreezesOnRecord == Spec => [](TypeOK /\ FreezeOnRecord)
  BY FreezerInit, FreezerStep, PTL DEF Spec, FreezerInv

(* A step raises the freeze of nobody on record.                           *)
LEMMA StackingStep ==
  ASSUME FreezerInv, [Next]_vars, NEW a \in Frozen
  PROVE  account'[a].frozen <= account[a].frozen
<1> USE FreezerAssumption
<1>0. a \in Accounts /\ account \in [Accounts -> AccountData] /\ account[a].frozen \in Nat
  BY DEF FreezerInv, TypeOK, AccountData
<1>1. CASE FreezerCall
  <2>1. PICK origin \in Origins, who \in Accounts :
          \/ freeze_account(origin, who)
          \/ \E amount \in Amounts : freeze_amount(origin, who, amount)
          \/ thaw_account(origin, who)
          \/ \E amount \in Amounts : thaw_amount(origin, who, amount)
    BY <1>1 DEF FreezerCall
  <2>2. CASE freeze_account(origin, who)
    BY <2>2, <1>0 DEF freeze_account, set_freeze
  <2>3. CASE \E amount \in Amounts : freeze_amount(origin, who, amount)
    BY <2>3, <1>0 DEF freeze_amount, set_freeze
  <2>4. CASE thaw_account(origin, who)
    BY <2>4, <1>0 DEF thaw_account, thaw, Data
  <2>5. CASE \E amount \in Amounts : thaw_amount(origin, who, amount)
    BY <2>5, <1>0 DEF thaw_amount, set_freeze, thaw, Data
  <2> QED
    BY <2>1, <2>2, <2>3, <2>4, <2>5
<1>2. CASE BalanceCall
  <2>1. PICK who \in Accounts, amount \in Amounts :
          \/ reserve(who, amount)
          \/ unreserve(who, amount)
          \/ \E to \in Accounts : transfer_allow_death(who, to, amount)
    BY <1>2 DEF BalanceCall
  <2>2. CASE reserve(who, amount)
    BY <2>2, <1>0 DEF reserve, Data
  <2>3. CASE unreserve(who, amount)
    BY <2>3, <1>0 DEF unreserve, Data
  <2>4. CASE \E to \in Accounts : transfer_allow_death(who, to, amount)
    BY <2>4, <1>0 DEF transfer_allow_death, Data
  <2> QED
    BY <2>1, <2>2, <2>3, <2>4, <1>0
<1>3. CASE UNCHANGED vars
  BY <1>3, <1>0 DEF vars
<1> QED
  BY <1>1, <1>2, <1>3 DEF Next

(* FreezesNotStacked: no call and no movement of balance ever raises the freeze
   of an account on record, whatever origin calls with whatever amount.    *)
THEOREM FreezesNotStacked == Spec => NoStacking
<1>1. FreezerInv /\ [Next]_vars => [\A a \in Frozen : account'[a].frozen <= account[a].frozen]_vars
  BY StackingStep
<1> QED
  BY <1>1, FreezerInit, FreezerStep, PTL DEF Spec, NoStacking

(* BalancesTyped: no call and no movement of balance leaves the naturals: no
   subtraction of an amount, a reserve or a freeze underflows.             *)
THEOREM BalancesTyped == Spec => []TypeOK
  BY FreezerInit, FreezerStep, PTL DEF Spec, FreezerInv

-----------------------------------------------------------------------------
(* The freeze in force is what the calls add up to.                        *)
PromiseInv ==
  /\ FreezerInv
  /\ promised = [a \in Accounts |-> account[a].frozen]

LEMMA PromiseInit == HInit => PromiseInv
<1> SUFFICES ASSUME HInit PROVE PromiseInv
  OBVIOUS
<1>1. FreezerInv
  BY FreezerInit DEF HInit
<1>2. \A a \in Accounts : account[a].frozen = 0
  BY DEF HInit, Init, Data
<1>3. promised = [a \in Accounts |-> 0]
  BY DEF HInit
<1> QED  BY <1>1, <1>2, <1>3 DEF PromiseInv

(* What a movement of balance does: the freezes stay, and a holding that falls
   stays at or above its freeze.                                           *)
SpendsFreely(a) ==
  /\ account'[a].frozen = account[a].frozen
  /\ Holding(a)' < Holding(a) => Holding(a)' >= account[a].frozen

LEMMA TransferSpends ==
  ASSUME FreezerInv, NEW from \in Accounts, NEW to \in Accounts, NEW v \in Nat,
         transfer_allow_death(from, to, v), NEW a \in Accounts
  PROVE  SpendsFreely(a)
<1> USE EDAssumption
<1> DEFINE sender   == Data(Undusted(account[from].free - v), account[from].reserved, account[from].frozen)
           receiver == Data(account[to].free + v, account[to].reserved, account[to].frozen)
<1>1. account[from] \in AccountData /\ account[to] \in AccountData
  BY DEF FreezerInv, TypeOK
<1>2. account'[a] = IF a = to THEN receiver ELSE IF a = from THEN sender ELSE account[a]
  BY <1>1 DEF transfer_allow_death, FreezerInv, TypeOK
<1>3. account[from].free >= v + Untouchable(from)
  BY DEF transfer_allow_death
<1>4. CASE a = to
  BY <1>1, <1>2, <1>4 DEF SpendsFreely, Holding, AccountData, Data
<1>5. CASE a = from /\ a # to
  <2> DEFINE free     == account[from].free
             reserved == account[from].reserved
             frozen   == account[from].frozen
  <2>1. free \in Nat /\ reserved \in Nat /\ frozen \in Nat
    BY <1>1 DEF AccountData
  <2>2. /\ account'[a].free = Undusted(free - v)
        /\ account'[a].reserved = reserved
        /\ account'[a].frozen = frozen
    BY <1>2, <1>5 DEF Data
  <2>3. /\ Untouchable(from) \in Nat
        /\ Untouchable(from) >= frozen - reserved
        /\ reserved > 0 \/ frozen > 0 => Untouchable(from) >= ExistentialDeposit
    BY <2>1 DEF Untouchable
  <2> HIDE DEF free, reserved, frozen
  <2>4. free - v >= Untouchable(from)
    BY <1>3, <2>1, <2>3 DEF free
  <2>5. Undusted(free - v) + reserved >= frozen
    BY <2>1, <2>3, <2>4 DEF Undusted
  <2> QED  BY <1>5, <2>2, <2>5 DEF SpendsFreely, Holding, frozen
<1>6. CASE a # from /\ a # to
  BY <1>1, <1>2, <1>6 DEF SpendsFreely, Holding, FreezerInv, TypeOK, AccountData
<1> QED  BY <1>4, <1>5, <1>6

LEMMA ReserveSpends ==
  ASSUME FreezerInv, NEW who \in Accounts, NEW v \in Nat,
         reserve(who, v) \/ unreserve(who, v), NEW a \in Accounts
  PROVE  SpendsFreely(a)
<1>1. account[who] \in AccountData /\ account[a] \in AccountData
  BY DEF FreezerInv, TypeOK
<1>2. CASE reserve(who, v)
  <2>1. account'[a] = IF a = who
                      THEN Data(account[who].free - v, account[who].reserved + v, account[who].frozen)
                      ELSE account[a]
    BY <1>2 DEF reserve, FreezerInv, TypeOK
  <2> QED  BY <1>1, <2>1 DEF SpendsFreely, Holding, AccountData, Data
<1>3. CASE unreserve(who, v)
  <2> DEFINE r == MinOf(v, account[who].reserved)
  <2>1. account'[a] = IF a = who
                      THEN Data(account[who].free + r, account[who].reserved - r, account[who].frozen)
                      ELSE account[a]
    BY <1>3 DEF unreserve, FreezerInv, TypeOK
  <2>2. r \in Nat
    BY <1>1 DEF MinOf, AccountData
  <2> HIDE DEF r
  <2> QED  BY <1>1, <2>1, <2>2 DEF SpendsFreely, Holding, AccountData, Data
<1> QED  BY <1>2, <1>3

(* The freezer's calls change a freeze and what is promised alike, and move no
   balance.                                                                *)
Refreezes(who, amount) ==
  /\ amount \in Nat
  /\ account' = [account EXCEPT ![who] = Data(account[who].free, account[who].reserved, amount)]
  /\ promised' = [promised EXCEPT ![who] = amount]

LEMMA CallRefreezes ==
  ASSUME PromiseInv, HFreezerCall
  PROVE  FreezerCall /\ \E who \in Accounts : \E left : Refreezes(who, left)
<1> USE FreezerAssumption
<1>1. PICK origin \in Origins, who \in Accounts :
        \/ freeze_account(origin, who) /\ Promise(who, MaxBalance)
        \/ thaw_account(origin, who) /\ Promise(who, 0)
        \/ \E amount \in Amounts :
             \/ freeze_amount(origin, who, amount) /\ Promise(who, amount)
             \/ thaw_amount(origin, who, amount) /\ Promise(who, promised[who] - amount)
  BY DEF HFreezerCall
<1>2. account[who] \in AccountData /\ promised[who] = account[who].frozen
  BY DEF PromiseInv, FreezerInv, TypeOK
<1>3. CASE freeze_account(origin, who) /\ Promise(who, MaxBalance)
  BY <1>3 DEF FreezerCall, freeze_account, set_freeze, Promise, Refreezes
<1>4. CASE thaw_account(origin, who) /\ Promise(who, 0)
  BY <1>4 DEF FreezerCall, thaw_account, thaw, Promise, Refreezes
<1>5. ASSUME NEW amount \in Amounts, freeze_amount(origin, who, amount), Promise(who, amount)
      PROVE  FreezerCall /\ \E left : Refreezes(who, left)
  BY <1>5 DEF FreezerCall, freeze_amount, set_freeze, Promise, Refreezes
<1>6. ASSUME NEW amount \in Amounts, thaw_amount(origin, who, amount),
             Promise(who, promised[who] - amount)
      PROVE  FreezerCall /\ \E left : Refreezes(who, left)
  <2>0. amount \in Nat /\ account[who].frozen \in Nat /\ amount <= account[who].frozen
    BY <1>2, <1>6 DEF thaw_amount, AccountData
  <2>1. account[who].frozen - amount \in Nat
    BY <2>0
  <2>2. account' = [account EXCEPT ![who] = Data(account[who].free, account[who].reserved,
                                                 account[who].frozen - amount)]
    BY <1>2, <1>6 DEF thaw_amount, thaw, set_freeze, AccountData
  <2>3. Refreezes(who, account[who].frozen - amount)
    BY <1>2, <1>6, <2>1, <2>2 DEF Promise, Refreezes
  <2>4. FreezerCall
    BY <1>6 DEF FreezerCall
  <2> QED  BY <2>3, <2>4
<1> QED  BY <1>1, <1>3, <1>4, <1>5, <1>6

KeptPromises == \A a \in Accounts : Holding(a)' < Holding(a) => Holding(a)' >= promised[a]

LEMMA PromiseStep == PromiseInv /\ [HNext]_<<vars, promised>> => PromiseInv' /\ KeptPromises
<1> SUFFICES ASSUME PromiseInv, [HNext]_<<vars, promised>>
             PROVE  PromiseInv' /\ KeptPromises
  OBVIOUS
<1> USE FreezerAssumption
<1>0. /\ account \in [Accounts -> AccountData]
      /\ promised = [a \in Accounts |-> account[a].frozen]
  BY DEF PromiseInv, FreezerInv, TypeOK
<1>1. CASE HFreezerCall
  <2>1. FreezerCall /\ \E who \in Accounts : \E left : Refreezes(who, left)
    BY <1>1, CallRefreezes
  <2>2. PICK who \in Accounts : \E left : Refreezes(who, left)
    BY <2>1
  <2>3. PICK left : Refreezes(who, left)
    BY <2>2
  <2>4. FreezerInv'
    BY <2>1, FreezerStep DEF PromiseInv, Next
  <2>5. \A a \in Accounts : account'[a] =
          IF a = who THEN Data(account[who].free, account[who].reserved, left) ELSE account[a]
    BY <1>0, <2>3 DEF Refreezes
  <2>6. \A a \in Accounts : promised'[a] = account'[a].frozen
    BY <1>0, <2>3, <2>5 DEF Refreezes, Data
  <2>7. promised' = [a \in Accounts |-> account'[a].frozen]
    <3>1. promised' = [a \in Accounts |-> promised'[a]]
      BY <1>0, <2>3 DEF Refreezes
    <3> QED  BY <2>6, <3>1
  <2>8. \A a \in Accounts : Holding(a)' = Holding(a)
    BY <2>5 DEF Holding, Data
  <2>9. \A a \in Accounts : Holding(a) \in Nat
    BY <1>0 DEF Holding, AccountData
  <2> QED  BY <2>4, <2>7, <2>8, <2>9 DEF PromiseInv, KeptPromises
<1>2. CASE BalanceCall /\ UNCHANGED promised
  <2>1. PICK who \in Accounts, amount \in Amounts :
          \/ reserve(who, amount)
          \/ unreserve(who, amount)
          \/ \E to \in Accounts : transfer_allow_death(who, to, amount)
    BY <1>2 DEF BalanceCall
  <2>2. \A a \in Accounts : SpendsFreely(a)
    BY <2>1, ReserveSpends, TransferSpends DEF PromiseInv
  <2>3. FreezerInv'
    BY <1>2, FreezerStep DEF PromiseInv, Next
  <2> QED  BY <1>0, <1>2, <2>2, <2>3 DEF PromiseInv, SpendsFreely, KeptPromises
<1>3. CASE UNCHANGED <<vars, promised>>
  <2>1. FreezerInv'
    BY <1>3, FreezerStep DEF PromiseInv
  <2>2. \A a \in Accounts : Holding(a)' = Holding(a) /\ Holding(a) \in Nat
    BY <1>0, <1>3 DEF vars, Holding, AccountData
  <2> QED  BY <1>3, <2>1, <2>2 DEF vars, PromiseInv, KeptPromises
<1> QED  BY <1>1, <1>2, <1>3 DEF HNext

(* HoldingsAreKept: whatever is frozen, thawed in part, transferred, reserved
   and unreserved, in any order and by any amounts, a holding is never spent
   below what the freezer's calls add up to.                               *)
THEOREM HoldingsAreKept == HSpec => HoldingKept
<1>1. PromiseInv /\ [HNext]_<<vars, promised>> =>
        [\A a \in Accounts :
           Holding(a)' < Holding(a) => Holding(a)' >= promised[a]]_<<vars, promised>>
  BY PromiseStep DEF KeptPromises
<1> QED  BY <1>1, PromiseInit, PromiseStep, PTL DEF HSpec, HoldingKept
=============================================================================
