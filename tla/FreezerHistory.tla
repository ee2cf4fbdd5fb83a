--------------------------- MODULE FreezerHistory ---------------------------
(***************************************************************************)
(* AccountFreezer with a record of what its calls add up to for each       *)
(* account: freeze_account freezes all of it, what arrives later included; *)
(* a thaw takes its amount back.  The history variable constrains no step. *)
(*                                                                         *)
(* A freeze is of free balance, the pallet says.  FrozenNotTransferable    *)
(* states that, and is violated by a run of its own; HoldingKept is what   *)
(* the code keeps.                                                         *)
(***************************************************************************)
EXTENDS AccountFreezer

VARIABLE promised

HInit == Init /\ promised = [a \in Accounts |-> 0]

Promise(who, amount) == promised' = [promised EXCEPT ![who] = amount]

HFreezerCall ==
  \E origin \in Origins, who \in Accounts :
    \/ freeze_account(origin, who) /\ Promise(who, MaxBalance)
    \/ thaw_account(origin, who) /\ Promise(who, 0)
    \/ \E amount \in Amounts :
         \/ freeze_amount(origin, who, amount) /\ Promise(who, amount)
         \/ thaw_amount(origin, who, amount) /\ Promise(who, promised[who] - amount)

HNext ==
  \/ HFreezerCall
  \/ BalanceCall /\ UNCHANGED promised

HSpec == HInit /\ [][HNext]_<<vars, promised>>

-----------------------------------------------------------------------------
(* HoldingKept: over any sequence of freezes, partial thaws, transfers in and
   out, reserves and unreserves, what an account holds, free and reserved
   together, never falls below what the freezer's calls add up to, or falls
   at all while it is below.  So nothing of an account under freeze_account
   can be spent, later income included; of a freeze_amount the reserve counts
   towards the amount.                                                     *)
HoldingKept ==
  [][\A a \in Accounts :
       Holding(a)' < Holding(a) => Holding(a)' >= promised[a]]_<<vars, promised>>

(* FrozenNotTransferable: "Freeze `amount` of `who`'s transferable native
   balance indefinitely" (freeze_amount): what was frozen of the free balance
   stays there, and a free balance below it does not fall.  Violated: freeze
   and reserve overlap, so an account that has a bond or a delegation reserved
   may transfer as much of the frozen amount away.                         *)
FrozenNotTransferable ==
  [][\A a \in Accounts :
       account'[a].free < account[a].free => account'[a].free >= promised[a]]_<<vars, promised>>
=============================================================================
