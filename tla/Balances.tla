------------------------------ MODULE Balances ------------------------------
(***************************************************************************)
(* pallet_balances as this runtime uses it (external: the code is in the   *)
(* Polkadot SDK; src/runtime/src/configs/mod.rs configures it).  An        *)
(* account has a free balance, a reserved balance (ReservableCurrency, the *)
(* StakingCurrency of xode-staking) and one freeze (MutateFreeze, the      *)
(* Currency of xode-account-freezer; the runtime has one freeze reason, so *)
(* the account's `frozen` is that freeze).                                 *)
(*                                                                         *)
(* Each operation is an action formula on `account`: its guard is the      *)
(* operation's success, because a dispatchable whose currency call fails   *)
(* is rolled back as a whole.                                              *)
(***************************************************************************)
EXTENDS Naturals

CONSTANTS Accounts, ExistentialDeposit

ASSUME EDAssumption == ExistentialDeposit \in Nat

VARIABLE account

AccountData == [free : Nat, reserved : Nat, frozen : Nat]

Data(free, reserved, frozen) == [free |-> free, reserved |-> reserved, frozen |-> frozen]

MinOf(a, b) == IF a <= b THEN a ELSE b

(* reserve: nothing to do for zero; otherwise the free balance that stays
   must cover the existential deposit (the reserve holds a reference on
   the account) and the freeze.                                            *)
reserve(who, v) ==
  /\ \/ v = 0
     \/ /\ account[who].free >= v + ExistentialDeposit
        /\ account[who].free >= v + account[who].frozen
  /\ account' = [account EXCEPT ![who] = Data(@.free - v, @.reserved + v, @.frozen)]

(* unreserve: moves back at most what is reserved, and never fails.        *)
unreserve(who, v) ==
  LET released == MinOf(v, account[who].reserved)
  IN  account' = [account EXCEPT ![who] =
                     Data(@.free + released, @.reserved - released, @.frozen)]

(* The part of the free balance a transfer out must leave: the freeze applies
   to the total, so the reserve counts towards it, and an account that is
   reserved or frozen must stay alive.                                     *)
Untouchable(who) ==
  LET a == account[who]
      frozen == IF a.frozen > a.reserved THEN a.frozen - a.reserved ELSE 0
  IN  IF (a.reserved > 0 \/ a.frozen > 0) /\ frozen < ExistentialDeposit
      THEN ExistentialDeposit ELSE frozen

(* What stays in an account that holds less than the existential deposit is
   dust, and burned with the account.                                      *)
Undusted(free) == IF free < ExistentialDeposit THEN 0 ELSE free

transfer_allow_death(from, to, v) ==
  /\ from # to
  /\ v > 0
  /\ account[from].free >= v + Untouchable(from)
  /\ account[to].free + v >= ExistentialDeposit
  /\ account' = [account EXCEPT
                   ![from] = Data(Undusted(@.free - v), @.reserved, @.frozen),
                   ![to]   = Data(@.free + v, @.reserved, @.frozen)]

(* set_freeze: zero thaws; anything else needs a live account to hold it.  *)
set_freeze(who, amount) ==
  /\ amount > 0 => account[who].free >= ExistentialDeposit
  /\ account' = [account EXCEPT ![who] = Data(@.free, @.reserved, amount)]

thaw(who) == account' = [account EXCEPT ![who] = Data(@.free, @.reserved, 0)]
=============================================================================
