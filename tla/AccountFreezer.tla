--------------------------- MODULE AccountFreezer ---------------------------
(***************************************************************************)
(* pallet-xode-account-freezer on top of the native balances.  The calls   *)
(* are the pallet's; beside them an account may spend its balance and      *)
(* reserve and unreserve it (what staking does), since the freeze has to   *)
(* hold against exactly those.                                             *)
(***************************************************************************)
EXTENDS Balances

CONSTANTS
  MaxBalance,    \* Balance::max_value(), more than an account can hold
  Origins,       \* origins tried: [root, ayes, seats], ayes of a committee motion
  Amounts,       \* amounts tried in calls and transfers
  Issuance       \* free balance of every account at genesis

ASSUME FreezerAssumption ==
  /\ MaxBalance \in Nat \ {0}
  /\ Issuance \in Nat
  /\ Amounts \subseteq Nat
  /\ Origins \subseteq [root : BOOLEAN, ayes : Nat, seats : Nat]

VARIABLE Frozen    \* accounts currently frozen by this pallet

vars == <<account, Frozen>>

Init ==
  /\ account = [a \in Accounts |-> Data(Issuance, 0, 0)]
  /\ Frozen = {}

(* RootOrTwoThirdsTechnicalCommittee: strictly more than two thirds.       *)
FreezeOrigin(origin) == origin.root \/ origin.ayes * 3 > 2 * origin.seats

(* Mutant: freezes the free balance of the moment.                         *)
freeze_account_FreeNow(origin, who) ==
  /\ FreezeOrigin(origin)
  /\ who \notin Frozen
  /\ set_freeze(who, account[who].free)
  /\ Frozen' = Frozen \union {who}

freeze_account(origin, who) ==
  /\ FreezeOrigin(origin)
  /\ who \notin Frozen
  /\ set_freeze(who, MaxBalance)
  /\ Frozen' = Frozen \union {who}

(* Mutant: freezes an account that is frozen already.                      *)
freeze_amount_Again(origin, who, amount) ==
  /\ FreezeOrigin(origin)
  /\ set_freeze(who, amount)
  /\ Frozen' = Frozen \union {who}

freeze_amount(origin, who, amount) ==
  /\ FreezeOrigin(origin)
  /\ who \notin Frozen
  /\ set_freeze(who, amount)
  /\ Frozen' = Frozen \union {who}

thaw_account(origin, who) ==
  /\ FreezeOrigin(origin)
  /\ who \in Frozen
  /\ thaw(who)
  /\ Frozen' = Frozen \ {who}

(* Mutant: does not check that the amount is frozen.                       *)
thaw_amount_Unchecked(origin, who, amount) ==
  /\ FreezeOrigin(origin)
  /\ who \in Frozen
  /\ set_freeze(who, account[who].frozen - amount)
  /\ UNCHANGED Frozen

(* Mutant: takes the account off the record after a partial thaw.          *)
thaw_amount_OffRecord(origin, who, amount) ==
  /\ FreezeOrigin(origin)
  /\ who \in Frozen
  /\ amount <= account[who].frozen
  /\ set_freeze(who, account[who].frozen - amount)
  /\ Frozen' = Frozen \ {who}

(* Thaws, or sets a smaller freeze and leaves the account on record.       *)
thaw_amount(origin, who, amount) ==
  /\ FreezeOrigin(origin)
  /\ who \in Frozen
  /\ amount <= account[who].frozen
  /\ \/ /\ amount = account[who].frozen
        /\ thaw(who)
        /\ Frozen' = Frozen \ {who}
     \/ /\ amount < account[who].frozen
        /\ set_freeze(who, account[who].frozen - amount)
        /\ UNCHANGED Frozen

FreezerCall ==
  \E origin \in Origins, who \in Accounts :
    \/ freeze_account(origin, who)
    \/ \E amount \in Amounts : freeze_amount(origin, who, amount)
    \/ thaw_account(origin, who)
    \/ \E amount \in Amounts : thaw_amount(origin, who, amount)

(* Everything else that moves the native balance.                          *)
BalanceCall ==
  /\ \E who \in Accounts, amount \in Amounts :
       \/ reserve(who, amount)
       \/ unreserve(who, amount)
       \/ \E to \in Accounts : transfer_allow_death(who, to, amount)
  /\ UNCHANGED Frozen

Next == FreezerCall \/ BalanceCall

Spec == Init /\ [][Next]_vars

-----------------------------------------------------------------------------
(* TypeOK: the balances and the record of frozen accounts keep their types. *)
TypeOK ==
  /\ account \in [Accounts -> AccountData]
  /\ Frozen \subseteq Accounts

Holding(a) == account[a].free + account[a].reserved

(* FreezeOnRecord: no freeze is in force that the pallet does not have on
   record, so none can be stacked on it and every one can be thawed; and the
   account is alive, never reaped under its freeze.                        *)
FreezeOnRecord ==
  \A a \in Accounts : account[a].frozen > 0 =>
    a \in Frozen /\ account[a].free >= ExistentialDeposit

(* NoStacking: while an account is on record its freeze is never raised or
   replaced by a larger one.                                               *)
NoStacking ==
  [][\A a \in Frozen : account'[a].frozen <= account[a].frozen]_vars
=============================================================================
