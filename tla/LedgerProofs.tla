---------------------------- MODULE LedgerProofs ----------------------------
(***************************************************************************)
(* Proofs about what is written down of each candidate and delegator, and  *)
(* what their balances hold of it: the total_stake of a candidate is       *)
(* backed by delegations on record, the reserve of an account by what it   *)
(* may claim back; and both stay so in the runtime, where transfers and    *)
(* the freezer work on the same balances, and where what staking does is   *)
(* to the freezer no more than a reserve or an unreserve.                  *)
(***************************************************************************)
EXTENDS XodeRuntime, PipelineProofs

(* The stakes on record are naturals.                                      *)
LEMMA TotalsNat ==
  ASSUME IndInv, NEW a \in Accounts
  PROVE  Total(Delegations[a]) \in Nat
<1>1. IsDelegations(Delegations[a])
  BY Typing DEF OtherTypes
<1> QED  BY <1>1, TotalNat DEF IsDelegations

-----------------------------------------------------------------------------
(* The stake behind a candidate.                                           *)

LEMMA EditBacked ==
  ASSUME IndInv, IndInv', StakeBacked, EditsOne
  PROVE  StakeBacked'
<1> DEFINE s == ProposedCandidates
<1>0. PICK c \in Range(s) : \E d : Edits(c, d)
  BY DEF EditsOne
<1>1. PICK d : Edits(c, d)
  BY <1>0
<1>2. d \in CandidateInfo /\ d.who = c.who /\ StakeKept(c, d)
  BY <1>1 DEF Edits
<1>3. \A e \in Range(s') : e = d \/ (e \in Range(s) /\ e.who # c.who)
  BY <1>1, EditedEntries
<1> SUFFICES ASSUME NEW e \in Range(s')
             PROVE  e.total_stake <= Total(Delegations'[e.who])
  BY DEF StakeBacked
<1>4. e \in CandidateInfo
  BY <1>2, <1>3, Typing
<1>5. e.who \in Accounts /\ e.total_stake \in Nat
  BY <1>4 DEF CandidateInfo
<1>6. CASE e = d
  <2>1. CASE d.total_stake = c.total_stake /\ UNCHANGED Delegations
    BY <1>2, <1>6, <2>1 DEF StakeBacked
  <2>2. CASE d.total_stake = Total(Delegations'[c.who])
    BY <1>2, <1>5, <1>6, <2>2
  <2> QED  BY <1>2, <2>1, <2>2 DEF StakeKept
<1>7. CASE e \in Range(s) /\ e.who # c.who
  <2>1. Delegations'[e.who] = Delegations[e.who]
    BY <1>2, <1>5, <1>7 DEF StakeKept
  <2> QED  BY <1>7, <2>1 DEF StakeBacked
<1> QED  BY <1>3, <1>6, <1>7

LEMMA RegisterBacked ==
  ASSUME IndInv, StakeBacked, NEW who \in Accounts, register_candidate(who)
  PROVE  StakeBacked'
<1> DEFINE c == NewCandidate(who)
<1>1. c.who = who /\ c.total_stake = 0
  BY DEF NewCandidate
<1>2. UNCHANGED Delegations
  BY DEF register_candidate
<1>3. Range(ProposedCandidates') = Range(ProposedCandidates) \union {c}
  BY RegisteredEntries
<1> HIDE DEF c
<1>4. 0 <= Total(Delegations[who])
  BY TotalsNat
<1> QED  BY <1>1, <1>2, <1>3, <1>4 DEF StakeBacked

LEMMA BlockBacked ==
  ASSUME IndInv, StakeBacked, NEW authors \in BlockAuthors,
         Block(authors) \/ SessionBlock(authors)
  PROVE  StakeBacked'
<1>1. /\ UNCHANGED Delegations
      /\ \A c \in Range(ProposedCandidates') :
           \E d \in Range(ProposedCandidates) : d.who = c.who /\ d.total_stake = c.total_stake
  BY BlockEntries DEF CarriedOver
<1> QED  BY <1>1 DEF StakeBacked

LEMMA BackedStep ==
  ASSUME IndInv, IndInv', StakeBacked, [Next]_vars
  PROVE  StakeBacked'
<1>1. ASSUME NEW authors \in BlockAuthors, Block(authors) \/ SessionBlock(authors)
      PROVE  StakeBacked'
  BY <1>1, BlockBacked
<1>2. CASE EditsOne
  BY <1>2, EditBacked
<1>3. CASE KeyCall \/ UNCHANGED vars
  <2>1. UNCHANGED <<ProposedCandidates, Delegations>>
    BY <1>3 DEF KeyCall, set_keys, purge_keys, vars
  <2> QED  BY <2>1 DEF StakeBacked
<1>4. ASSUME NEW who \in Accounts, register_candidate(who)
      PROVE  StakeBacked'
  BY <1>4, RegisterBacked
<1>5. CASE Call
  BY <1>2, <1>3, <1>4, <1>5, CallCases
<1> QED  BY <1>1, <1>3, <1>5 DEF Next

LEMMA InitBacked == Init => StakeBacked
<1> SUFFICES ASSUME Init PROVE StakeBacked
  OBVIOUS
<1>1. Range(ProposedCandidates) = {}
  BY DEF Init, Range
<1> QED  BY <1>1 DEF StakeBacked

(* StakeIsBacked: no candidate ever ranks by stake that its delegators do not
   have on record, for any accounts and any mixture of stakes, unstakes, drops
   and new registrations.                                                  *)
THEOREM StakeIsBacked == Spec => []StakeBacked
<1> QED  BY InitBacked, BackedStep, Inductive, PTL DEF Spec

-----------------------------------------------------------------------------
(* What an account has bonded among the entries R, and staked in D.        *)
BondOf(R, a) == Total([c \in {c \in R : c.who = a} |-> c.bond])
StakesOf(D, a) == [c \in {c \in Accounts : a \in DOMAIN D[c]} |-> D[c][a]]

(* One entry for each account, with a bond.                                *)
IsRegister(R) ==
  \A c \in R : c.bond \in Nat /\ \A d \in R : d.who = c.who => d = c

LEMMA BondNone ==
  ASSUME NEW R, NEW a, \A c \in R : c.who # a
  PROVE  BondOf(R, a) = 0
<1> DEFINE f == [c \in {c \in R : c.who = a} |-> c.bond]
<1>1. DOMAIN f = {}
  OBVIOUS
<1> QED  BY <1>1, TotalEmpty DEF BondOf

LEMMA BondOne ==
  ASSUME NEW R, IsRegister(R), NEW c \in R
  PROVE  BondOf(R, c.who) = c.bond
<1> DEFINE f == [e \in {e \in R : e.who = c.who} |-> e.bond]
<1>1. {e \in R : e.who = c.who} = {c}
  BY DEF IsRegister
<1>2. DOMAIN f = {c} /\ f[c] = c.bond /\ c.bond \in Nat
  BY <1>1 DEF IsRegister
<1>3. Total(f) = f[c]
  BY <1>2, TotalOne
<1> QED  BY <1>2, <1>3 DEF BondOf

LEMMA BondNat ==
  ASSUME NEW R, IsRegister(R), NEW a
  PROVE  BondOf(R, a) \in Nat
<1>1. CASE \A c \in R : c.who # a
  BY <1>1, BondNone
<1>2. ASSUME NEW c \in R, c.who = a PROVE BondOf(R, a) \in Nat
  BY <1>2, BondOne DEF IsRegister
<1> QED  BY <1>1, <1>2

(* Bonds that others do not touch.                                         *)
LEMMA BondSame ==
  ASSUME NEW R, NEW T, NEW a, {c \in T : c.who = a} = {c \in R : c.who = a}
  PROVE  BondOf(T, a) = BondOf(R, a)
BY DEF BondOf

LEMMA RegisterOf ==
  ASSUME NEW s \in Seq(CandidateInfo), UniqueWho(s)
  PROVE  IsRegister(Range(s))
<1>1. \A c \in Range(s) : c \in CandidateInfo
  BY LenProperties DEF Range
<1> QED  BY <1>1, UniqueEntry DEF CandidateInfo, IsRegister

LEMMA RegisterTyped ==
  /\ IndInv => IsRegister(Range(ProposedCandidates))
  /\ IndInv' => IsRegister(Range(ProposedCandidates'))
BY RegisterOf DEF IndInv, TypeOK, UniqueCandidates

(* Only a few candidates have delegations, however many accounts there are. *)
FewStaked == IsFiniteSet({c \in Accounts : DOMAIN Delegations[c] # {}})

IsStakes(D) ==
  /\ DOMAIN D = Accounts
  /\ \A c \in Accounts : \A a \in DOMAIN D[c] : D[c][a] \in Nat
  /\ IsFiniteSet({c \in Accounts : DOMAIN D[c] # {}})

LEMMA StakesTally ==
  ASSUME NEW D, IsStakes(D), NEW a
  PROVE  IsTally(StakesOf(D, a)) /\ Total(StakesOf(D, a)) \in Nat
<1> DEFINE f == StakesOf(D, a)
<1>1. DOMAIN f = {c \in Accounts : a \in DOMAIN D[c]} /\ \A c \in DOMAIN f : f[c] = D[c][a]
  BY DEF StakesOf
<1> HIDE DEF f
<1>2. DOMAIN f \subseteq {c \in Accounts : DOMAIN D[c] # {}}
  BY <1>1
<1>3. IsFiniteSet(DOMAIN f)
  BY <1>2, FS_Subset DEF IsStakes
<1>4. \A c \in DOMAIN f : f[c] \in Nat
  BY <1>1 DEF IsStakes
<1> QED  BY <1>3, <1>4, TotalNat DEF IsTally, f

(* The delegations to one candidate change.                                *)
LEMMA StakesChange ==
  ASSUME NEW D, IsStakes(D), NEW E, IsStakes(E), NEW k \in Accounts,
         \A c \in Accounts \ {k} : E[c] = D[c], NEW a
  PROVE  /\ Total(StakesOf(D, a)) \in Nat /\ Total(StakesOf(E, a)) \in Nat
         /\ ValueAt(D[k], a) \in Nat /\ ValueAt(E[k], a) \in Nat
         /\ Total(StakesOf(E, a)) + ValueAt(D[k], a) = Total(StakesOf(D, a)) + ValueAt(E[k], a)
<1> DEFINE f == StakesOf(D, a)
           g == StakesOf(E, a)
<1>1. IsTally(f) /\ IsTally(g)
  BY StakesTally
<1>2. /\ DOMAIN f = {c \in Accounts : a \in DOMAIN D[c]} /\ \A c \in DOMAIN f : f[c] = D[c][a]
      /\ DOMAIN g = {c \in Accounts : a \in DOMAIN E[c]} /\ \A c \in DOMAIN g : g[c] = E[c][a]
  BY DEF StakesOf
<1> HIDE DEF f, g
<1>3. DOMAIN f \ {k} = DOMAIN g \ {k} /\ \A c \in DOMAIN f \ {k} : f[c] = g[c]
  BY <1>2
<1>4. Without(f, k) = Without(g, k)
  BY <1>3 DEF Without
<1>5. ValueAt(f, k) = ValueAt(D[k], a) /\ ValueAt(g, k) = ValueAt(E[k], a)
  BY <1>2 DEF ValueAt
<1> QED  BY <1>1, <1>4, <1>5, TotalChange DEF f, g

LEMMA StakesTyped ==
  /\ IndInv /\ FewStaked => IsStakes(Delegations)
  /\ IndInv' /\ FewStaked' => IsStakes(Delegations')
BY DEF IndInv, TypeOK, IsDelegations, FewStaked, IsStakes

LEMMA AddValue ==
  ASSUME NEW f, \A d \in DOMAIN f : f[d] \in Nat, NEW who, NEW amount \in Nat, NEW a
  PROVE  ValueAt(AddDelegation(f, who, amount), a) =
           IF a = who THEN ValueAt(f, a) + amount ELSE ValueAt(f, a)
BY DEF ValueAt, AddDelegation

LEMMA RemoveValue ==
  ASSUME NEW f, NEW who, NEW a
  PROVE  ValueAt(RemoveDelegation(f, who), a) = IF a = who THEN 0 ELSE ValueAt(f, a)
BY DEF ValueAt, RemoveDelegation

-----------------------------------------------------------------------------
(* What each account may claim back, and how a step changes it.            *)
Claim(a) == Bonded(a) + Staked(a)

(* Either nothing is paid and nobody's claim rises, or one account's reserve
   and claim change by the same amount, except that bond_correction releases
   an amount of its own choice.                                            *)
Pledges(who, v) ==
  /\ account[who].free >= v
  /\ reserve(who, v)
  /\ Claim(who)' = Claim(who) + v

Releases(who, v) ==
  /\ unreserve(who, v)
  /\ \/ Claim(who)' + v = Claim(who)
     \/ who \in CorrectionSigners /\ Claim(who)' <= Claim(who)

MoneyStep ==
  \/ UNCHANGED account /\ \A a \in Accounts : Claim(a)' <= Claim(a)
  \/ \E who \in Accounts : \E v \in Nat :
       /\ \A a \in Accounts \ {who} : Claim(a)' <= Claim(a)
       /\ Pledges(who, v) \/ Releases(who, v)

ClaimsTyped == \A a \in Accounts : Bonded(a) \in Nat /\ Staked(a) \in Nat

LEMMA ClaimParts ==
  /\ \A a : Bonded(a) = BondOf(Range(ProposedCandidates), a)
  /\ \A a : Staked(a) = Total(StakesOf(Delegations, a))
BY DEF Bonded, BondOf, Staked, StakesOf

LEMMA ClaimPartsNext ==
  /\ \A a : Bonded(a)' = BondOf(Range(ProposedCandidates'), a)
  /\ \A a : Staked(a)' = Total(StakesOf(Delegations', a))
BY DEF Bonded, BondOf, Staked, StakesOf

LEMMA ClaimsAreTyped ==
  /\ IndInv /\ FewStaked => ClaimsTyped
  /\ IndInv' /\ FewStaked' => ClaimsTyped'
<1>1. \A R, D, a : IsRegister(R) /\ IsStakes(D) =>
        BondOf(R, a) \in Nat /\ Total(StakesOf(D, a)) \in Nat
  BY BondNat, StakesTally
<1>2. IndInv /\ FewStaked => ClaimsTyped
  BY <1>1, RegisterTyped, StakesTyped, ClaimParts DEF ClaimsTyped
<1>3. IndInv' /\ FewStaked' => ClaimsTyped'
  BY <1>1, RegisterTyped, StakesTyped, ClaimPartsNext DEF ClaimsTyped
<1> QED  BY <1>2, <1>3

(* Whoever has no more bonded and staked has no larger claim.              *)
LEMMA ClaimFrom ==
  ASSUME ClaimsTyped, ClaimsTyped', NEW a \in Accounts
  PROVE  /\ Bonded(a) \in Nat /\ Staked(a) \in Nat /\ Bonded(a)' \in Nat /\ Staked(a)' \in Nat
         /\ Claim(a) = Bonded(a) + Staked(a)
         /\ Claim(a)' = Bonded(a)' + Staked(a)'
BY DEF ClaimsTyped, Claim

LEMMA BlockMoney ==
  ASSUME IndInv, IndInv', FewStaked, NEW authors \in BlockAuthors,
         Block(authors) \/ SessionBlock(authors)
  PROVE  FewStaked' /\ MoneyStep
<1> DEFINE R == Range(ProposedCandidates)
           T == Range(ProposedCandidates')
<1>1. /\ UNCHANGED <<account, Delegations>>
      /\ \A c \in T : \E d \in R : d.who = c.who /\ d.bond = c.bond
  BY BlockEntries DEF CarriedOver
<1>2. FewStaked'
  BY <1>1 DEF FewStaked
<1>3. IsRegister(R) /\ IsRegister(T)
  BY RegisterTyped
<1>4. ClaimsTyped /\ ClaimsTyped'
  BY <1>2, ClaimsAreTyped
<1> HIDE DEF R, T
<1>5. ASSUME NEW a \in Accounts PROVE BondOf(T, a) <= BondOf(R, a)
  <2>1. BondOf(R, a) \in Nat
    BY <1>3, BondNat
  <2>2. CASE \A c \in T : c.who # a
    BY <2>1, <2>2, BondNone
  <2>3. ASSUME NEW c \in T, c.who = a PROVE BondOf(T, a) <= BondOf(R, a)
    <3>1. PICK d \in R : d.who = c.who /\ d.bond = c.bond
      BY <1>1
    <3>2. BondOf(T, a) = c.bond /\ BondOf(R, a) = d.bond
      BY <1>3, <2>3, <3>1, BondOne
    <3> QED  BY <2>1, <3>1, <3>2
  <2> QED  BY <2>2, <2>3
<1>6. ASSUME NEW a \in Accounts PROVE Claim(a)' <= Claim(a)
  <2>1. Bonded(a)' <= Bonded(a)
    BY <1>5, ClaimParts, ClaimPartsNext DEF R, T
  <2>2. Staked(a)' = Staked(a)
    BY <1>1, ClaimParts, ClaimPartsNext
  <2> QED  BY <1>4, <2>1, <2>2, ClaimFrom
<1> QED  BY <1>1, <1>2, <1>6 DEF MoneyStep

LEMMA RegisterMoney ==
  ASSUME IndInv, IndInv', FewStaked, NEW who \in Accounts, register_candidate(who)
  PROVE  FewStaked' /\ MoneyStep
<1> DEFINE R == Range(ProposedCandidates)
           c == NewCandidate(who)
<1>1. UNCHANGED <<account, Delegations>>
  BY DEF register_candidate
<1>2. FewStaked'
  BY <1>1 DEF FewStaked
<1>3. Range(ProposedCandidates') = R \union {c} /\ \A e \in R : e.who # who
  BY RegisteredEntries
<1>4. c.who = who /\ c.bond = 0
  BY DEF NewCandidate
<1>5. IsRegister(R) /\ IsRegister(R \union {c})
  BY <1>3, RegisterTyped
<1>6. ClaimsTyped /\ ClaimsTyped'
  BY <1>2, ClaimsAreTyped
<1> HIDE DEF R, c
<1>7. ASSUME NEW a \in Accounts PROVE BondOf(R \union {c}, a) = BondOf(R, a)
  <2>1. CASE a = who
    <3>1. BondOf(R, a) = 0
      BY <1>3, <2>1, BondNone
    <3>2. c \in R \union {c}
      OBVIOUS
    <3>3. BondOf(R \union {c}, c.who) = c.bond
      BY <1>5, <3>2, BondOne
    <3> QED  BY <1>4, <2>1, <3>1, <3>3
  <2>2. CASE a # who
    <3>1. {e \in R \union {c} : e.who = a} = {e \in R : e.who = a}
      BY <1>4, <2>2
    <3> QED  BY <3>1, BondSame
  <2> QED  BY <2>1, <2>2
<1>8. ASSUME NEW a \in Accounts PROVE Claim(a)' <= Claim(a)
  <2>1. Bonded(a)' = Bonded(a)
    BY <1>3, <1>7, ClaimParts, ClaimPartsNext DEF R
  <2>2. Staked(a)' = Staked(a)
    BY <1>1, ClaimParts, ClaimPartsNext
  <2> QED  BY <1>6, <2>1, <2>2, ClaimFrom
<1> QED  BY <1>1, <1>2, <1>8 DEF MoneyStep

(* What an edit does to the bonds.                                         *)
LEMMA EditBonds ==
  ASSUME IndInv, IndInv', NEW c \in Range(ProposedCandidates), NEW d, Edits(c, d)
  PROVE  /\ c.who \in Accounts /\ c.bond \in Nat /\ d.bond \in Nat
         /\ Bonded(c.who) = c.bond /\ Bonded(c.who)' = d.bond
         /\ \A a \in Accounts \ {c.who} : Bonded(a)' = Bonded(a)
<1> DEFINE R == Range(ProposedCandidates)
           T == Range(ProposedCandidates')
<1>1. T = {d} \union {e \in R : e.who # c.who}
  BY EditedEntries
<1>2. d \in CandidateInfo /\ d.who = c.who
  BY DEF Edits
<1>3. IsRegister(R) /\ IsRegister(T)
  BY RegisterTyped
<1>4. c.bond \in Nat /\ d.bond \in Nat /\ c.who \in Accounts
  BY <1>2, <1>3 DEF CandidateInfo, IsRegister
<1> HIDE DEF R, T
<1>5. c \in R /\ d \in T
  BY <1>1 DEF R
<1>6. BondOf(R, c.who) = c.bond /\ BondOf(T, d.who) = d.bond
  BY <1>3, <1>5, BondOne
<1>7. ASSUME NEW a \in Accounts \ {c.who}
      PROVE  BondOf(T, a) = BondOf(R, a)
  <2>1. {e \in T : e.who = a} = {e \in R : e.who = a}
    BY <1>1, <1>2
  <2> QED  BY <2>1, BondSame
<1> QED  BY <1>2, <1>4, <1>6, <1>7, ClaimParts, ClaimPartsNext DEF R, T

(* What a change of the delegations to k does to the stakes.               *)
LEMMA StakesMoved ==
  ASSUME IndInv, IndInv', FewStaked, NEW k \in Accounts,
         \A c \in Accounts \ {k} : Delegations'[c] = Delegations[c]
  PROVE  /\ FewStaked'
         /\ \A a \in Accounts :
              /\ ValueAt(Delegations[k], a) \in Nat /\ ValueAt(Delegations'[k], a) \in Nat
              /\ Staked(a)' + ValueAt(Delegations[k], a) = Staked(a) + ValueAt(Delegations'[k], a)
<1> DEFINE F == {c \in Accounts : DOMAIN Delegations[c] # {}}
           G == {c \in Accounts : DOMAIN Delegations'[c] # {}}
<1>1. IsFiniteSet(F \union {k})
  BY FS_AddElement DEF FewStaked
<1>2. G \subseteq F \union {k}
  OBVIOUS
<1>3. FewStaked'
  BY <1>1, <1>2, FS_Subset DEF FewStaked
<1>4. IsStakes(Delegations) /\ IsStakes(Delegations')
  BY <1>3, StakesTyped
<1>5. ASSUME NEW a \in Accounts
      PROVE  /\ ValueAt(Delegations[k], a) \in Nat /\ ValueAt(Delegations'[k], a) \in Nat
             /\ Total(StakesOf(Delegations', a)) + ValueAt(Delegations[k], a)
                  = Total(StakesOf(Delegations, a)) + ValueAt(Delegations'[k], a)
  BY <1>4, StakesChange
<1> QED  BY <1>3, <1>5, ClaimParts, ClaimPartsNext

(* An edit that leaves the delegations alone.                              *)
LEMMA BondMoney ==
  ASSUME IndInv, IndInv', FewStaked, NEW c \in Range(ProposedCandidates), NEW d, Edits(c, d),
         UNCHANGED Delegations,
         \/ d.bond = c.bond /\ UNCHANGED account
         \/ AdjustReserve(c.who, c.bond, d.bond)
         \/ c.who \in CorrectionSigners /\ d.bond = 0 /\ \E v \in Nat : unreserve(c.who, v)
  PROVE  FewStaked' /\ MoneyStep
<1>1. FewStaked'
  BY DEF FewStaked
<1>2. ClaimsTyped /\ ClaimsTyped'
  BY <1>1, ClaimsAreTyped
<1>3. \A a : Staked(a)' = Staked(a)
  BY ClaimParts, ClaimPartsNext
<1>4. /\ c.who \in Accounts /\ c.bond \in Nat /\ d.bond \in Nat
      /\ Bonded(c.who) = c.bond /\ Bonded(c.who)' = d.bond
      /\ \A a \in Accounts \ {c.who} : Bonded(a)' = Bonded(a)
  BY EditBonds
<1>5. \A a \in Accounts \ {c.who} : Claim(a)' <= Claim(a)
  BY <1>2, <1>3, <1>4, ClaimFrom
<1>6. /\ Staked(c.who) \in Nat
      /\ Claim(c.who) = c.bond + Staked(c.who)
      /\ Claim(c.who)' = d.bond + Staked(c.who)
  BY <1>2, <1>3, <1>4, ClaimFrom
<1>7. CASE d.bond = c.bond /\ UNCHANGED account
  <2>1. Claim(c.who)' <= Claim(c.who)
    BY <1>4, <1>6, <1>7
  <2> QED  BY <1>1, <1>5, <1>7, <2>1 DEF MoneyStep
<1>8. CASE AdjustReserve(c.who, c.bond, d.bond)
  <2>1. CASE /\ d.bond > c.bond
             /\ account[c.who].free >= d.bond - c.bond
             /\ reserve(c.who, d.bond - c.bond)
    <3>1. d.bond - c.bond \in Nat /\ Claim(c.who)' = Claim(c.who) + (d.bond - c.bond)
      BY <1>4, <1>6, <2>1
    <3>2. Pledges(c.who, d.bond - c.bond)
      BY <2>1, <3>1 DEF Pledges
    <3> QED  BY <1>1, <1>4, <1>5, <3>1, <3>2 DEF MoneyStep
  <2>2. CASE d.bond < c.bond /\ unreserve(c.who, c.bond - d.bond)
    <3>1. c.bond - d.bond \in Nat /\ Claim(c.who)' + (c.bond - d.bond) = Claim(c.who)
      BY <1>4, <1>6, <2>2
    <3>2. Releases(c.who, c.bond - d.bond)
      BY <2>2, <3>1 DEF Releases
    <3> QED  BY <1>1, <1>4, <1>5, <3>1, <3>2 DEF MoneyStep
  <2>3. CASE d.bond = c.bond /\ UNCHANGED account
    BY <1>7, <2>3
  <2> QED  BY <1>8, <2>1, <2>2, <2>3 DEF AdjustReserve
<1>9. CASE c.who \in CorrectionSigners /\ d.bond = 0 /\ \E v \in Nat : unreserve(c.who, v)
  <2>1. PICK v \in Nat : unreserve(c.who, v)
    BY <1>9
  <2>2. Claim(c.who)' <= Claim(c.who)
    BY <1>4, <1>6, <1>9
  <2>3. Releases(c.who, v)
    BY <1>9, <2>1, <2>2 DEF Releases
  <2> QED  BY <1>1, <1>4, <1>5, <2>3 DEF MoneyStep
<1> QED  BY <1>7, <1>8, <1>9

(* An edit that follows a change of the delegations to the candidate.      *)
LEMMA StakeMoney ==
  ASSUME IndInv, IndInv', FewStaked, NEW c \in Range(ProposedCandidates), NEW d, Edits(c, d),
         d.bond = c.bond, NEW who \in Accounts,
         LET f == Delegations[c.who]
         IN  \/ \E amount \in Nat :
                  /\ reserve(who, amount) /\ account[who].free >= amount
                  /\ Delegations' = [Delegations EXCEPT ![c.who] = AddDelegation(f, who, amount)]
             \/ /\ who \in DOMAIN f /\ unreserve(who, f[who])
                /\ Delegations' = [Delegations EXCEPT ![c.who] = RemoveDelegation(f, who)]
  PROVE  FewStaked' /\ MoneyStep
<1> DEFINE f == Delegations[c.who]
           g == Delegations'[c.who]
<1>1. /\ c.who \in Accounts /\ c.bond \in Nat
      /\ \A a \in Accounts : Bonded(a)' = Bonded(a)
  BY EditBonds
<1>2. DOMAIN Delegations = Accounts /\ \A a \in DOMAIN f : f[a] \in Nat
  BY <1>1, Typing DEF OtherTypes, IsDelegations
<1>3. \A a \in Accounts \ {c.who} : Delegations'[a] = Delegations[a]
  BY <1>2
<1>4. /\ FewStaked'
      /\ \A a \in Accounts : /\ ValueAt(f, a) \in Nat /\ ValueAt(g, a) \in Nat
                             /\ Staked(a)' + ValueAt(f, a) = Staked(a) + ValueAt(g, a)
  BY <1>1, <1>3, StakesMoved
<1>5. ClaimsTyped /\ ClaimsTyped'
  BY <1>4, ClaimsAreTyped
<1>6. ASSUME NEW a \in Accounts
      PROVE  /\ Claim(a) \in Nat /\ Claim(a)' \in Nat
             /\ Claim(a)' + ValueAt(f, a) = Claim(a) + ValueAt(g, a)
  BY <1>1, <1>4, <1>5, ClaimFrom
<1>7. ASSUME NEW amount \in Nat, reserve(who, amount), account[who].free >= amount,
             g = AddDelegation(f, who, amount)
      PROVE  MoneyStep
  <2>1. \A a \in Accounts : ValueAt(g, a) = IF a = who THEN ValueAt(f, a) + amount ELSE ValueAt(f, a)
    BY <1>2, <1>7, AddValue
  <2>2. \A a \in Accounts \ {who} : Claim(a)' <= Claim(a)
    BY <1>4, <1>6, <2>1
  <2>3. Claim(who)' = Claim(who) + amount
    BY <1>4, <1>6, <2>1
  <2> QED  BY <1>7, <2>2, <2>3 DEF Pledges, MoneyStep
<1>8. ASSUME who \in DOMAIN f, unreserve(who, f[who]), g = RemoveDelegation(f, who)
      PROVE  MoneyStep
  <2>1. \A a \in Accounts : ValueAt(g, a) = IF a = who THEN 0 ELSE ValueAt(f, a)
    BY <1>8, RemoveValue
  <2>2. f[who] \in Nat /\ ValueAt(f, who) = f[who]
    BY <1>2, <1>8 DEF ValueAt
  <2>3. \A a \in Accounts \ {who} : Claim(a)' <= Claim(a)
    BY <1>4, <1>6, <2>1
  <2>4. Claim(who)' + f[who] = Claim(who)
    BY <1>4, <1>6, <2>1, <2>2
  <2>5. Releases(who, f[who])
    BY <1>8, <2>4 DEF Releases
  <2> QED  BY <2>2, <2>3, <2>5 DEF MoneyStep
<1>9. CASE \E amount \in Nat :
             /\ reserve(who, amount) /\ account[who].free >= amount
             /\ Delegations' = [Delegations EXCEPT ![c.who] = AddDelegation(f, who, amount)]
  <2>1. PICK amount \in Nat :
             /\ reserve(who, amount) /\ account[who].free >= amount
             /\ Delegations' = [Delegations EXCEPT ![c.who] = AddDelegation(f, who, amount)]
    BY <1>9
  <2>2. g = AddDelegation(f, who, amount)
    BY <1>1, <1>2, <2>1
  <2> QED  BY <1>4, <1>7, <2>1, <2>2
<1>10. CASE /\ who \in DOMAIN f /\ unreserve(who, f[who])
            /\ Delegations' = [Delegations EXCEPT ![c.who] = RemoveDelegation(f, who)]
  <2>1. g = RemoveDelegation(f, who)
    BY <1>1, <1>2, <1>10
  <2> QED  BY <1>4, <1>8, <1>10, <2>1
<1> QED  BY <1>9, <1>10

LEMMA EditMoney ==
  ASSUME IndInv, IndInv', FewStaked, NEW c \in Range(ProposedCandidates), NEW d, Edits(c, d)
  PROVE  FewStaked' /\ MoneyStep
<1>1. c.who \in Accounts /\ DOMAIN Delegations[c.who] \subseteq Accounts
  BY EditBonds, Typing DEF OtherTypes, IsDelegations
<1>2. Pays(c, d)
  BY DEF Edits
<1>3. CASE \E who \in Accounts : \E amount \in Nat :
             /\ d.bond = c.bond /\ reserve(who, amount) /\ account[who].free >= amount
             /\ Delegations' = [Delegations EXCEPT ![c.who] =
                                  AddDelegation(Delegations[c.who], who, amount)]
  BY <1>3, StakeMoney
<1>4. CASE \E who \in DOMAIN Delegations[c.who] :
             /\ d.bond = c.bond /\ unreserve(who, Delegations[c.who][who])
             /\ Delegations' = [Delegations EXCEPT ![c.who] =
                                  RemoveDelegation(Delegations[c.who], who)]
  BY <1>1, <1>4, StakeMoney
<1>5. CASE /\ UNCHANGED Delegations
           /\ \/ d.bond = c.bond /\ UNCHANGED account
              \/ AdjustReserve(c.who, c.bond, d.bond)
              \/ c.who \in CorrectionSigners /\ d.bond = 0 /\ \E v \in Nat : unreserve(c.who, v)
  BY <1>5, BondMoney
<1> QED  BY <1>2, <1>3, <1>4, <1>5 DEF Pays

LEMMA MoneyMoves ==
  ASSUME IndInv, IndInv', FewStaked, [Next]_vars
  PROVE  FewStaked' /\ MoneyStep
<1>1. ASSUME NEW authors \in BlockAuthors, Block(authors) \/ SessionBlock(authors)
      PROVE  FewStaked' /\ MoneyStep
  BY <1>1, BlockMoney
<1>2. CASE EditsOne
  BY <1>2, EditMoney DEF EditsOne
<1>3. CASE KeyCall \/ UNCHANGED vars
  <2>1. UNCHANGED <<account, ProposedCandidates, Delegations>>
    BY <1>3 DEF KeyCall, set_keys, purge_keys, vars
  <2>2. FewStaked'
    BY <2>1 DEF FewStaked
  <2>3. ClaimsTyped /\ ClaimsTyped'
    BY <2>2, ClaimsAreTyped
  <2>4. \A a \in Accounts : Bonded(a)' = Bonded(a) /\ Staked(a)' = Staked(a)
    BY <2>1, ClaimParts, ClaimPartsNext
  <2>5. \A a \in Accounts : Claim(a)' <= Claim(a)
    BY <2>3, <2>4, ClaimFrom
  <2> QED  BY <2>1, <2>2, <2>5 DEF MoneyStep
<1>4. ASSUME NEW who \in Accounts, register_candidate(who)
      PROVE  FewStaked' /\ MoneyStep
  BY <1>4, RegisterMoney
<1>5. CASE Call
  BY <1>2, <1>3, <1>4, <1>5, CallCases
<1> QED  BY <1>1, <1>3, <1>5 DEF Next

-----------------------------------------------------------------------------
(* The reserve behind the claims.                                          *)
LEMMA CoverStep ==
  ASSUME IndInv, IndInv', FewStaked, ReserveCoversClaims, [Next]_vars
  PROVE  FewStaked' /\ ReserveCoversClaims'
<1>1. FewStaked' /\ MoneyStep
  BY MoneyMoves
<1>2. ClaimsTyped /\ ClaimsTyped'
  BY <1>1, ClaimsAreTyped
<1>3. \A a \in Accounts : Claim(a) \in Nat /\ Claim(a)' \in Nat
  BY <1>2, ClaimFrom
<1>4. account \in [Accounts -> AccountData]
  BY Typing
<1>5. \A a \in Accounts : account[a].reserved \in Nat /\ account[a].free \in Nat
  BY <1>4 DEF AccountData
<1>6. \A a \in Accounts \ CorrectionSigners : account[a].reserved >= Claim(a)
  BY DEF ReserveCoversClaims, Claim
<1> SUFFICES ASSUME NEW a \in Accounts \ CorrectionSigners
             PROVE  account'[a].reserved >= Claim(a)'
  BY <1>1 DEF ReserveCoversClaims, Claim
<1>7. CASE UNCHANGED account /\ Claim(a)' <= Claim(a)
  BY <1>3, <1>5, <1>6, <1>7
<1>8. ASSUME NEW v \in Nat, Pledges(a, v)
      PROVE  account'[a].reserved >= Claim(a)'
  <2>1. account'[a].reserved = account[a].reserved + v
    BY <1>4, <1>8 DEF Pledges, reserve, Data
  <2> QED  BY <1>3, <1>5, <1>6, <1>8, <2>1 DEF Pledges
<1>9. ASSUME NEW v \in Nat, Releases(a, v)
      PROVE  account'[a].reserved >= Claim(a)'
  <2>1. account'[a].reserved = account[a].reserved - MinOf(v, account[a].reserved)
    BY <1>4, <1>9 DEF Releases, unreserve, Data
  <2>2. Claim(a)' + v = Claim(a)
    BY <1>9 DEF Releases
  <2> QED  BY <1>3, <1>5, <1>6, <2>1, <2>2 DEF MinOf
<1>10. ASSUME NEW who \in Accounts, who # a, NEW v \in Nat,
              Claim(a)' <= Claim(a), Pledges(who, v) \/ Releases(who, v)
       PROVE  account'[a].reserved >= Claim(a)'
  <2>1. account'[a] = account[a]
    BY <1>4, <1>10 DEF Pledges, Releases, reserve, unreserve
  <2> QED  BY <1>3, <1>5, <1>6, <1>10, <2>1
<1> QED  BY <1>1, <1>7, <1>8, <1>9, <1>10 DEF MoneyStep

LEMMA InitCovered == Init => FewStaked /\ ReserveCoversClaims
<1> SUFFICES ASSUME Init PROVE FewStaked /\ ReserveCoversClaims
  OBVIOUS
<1>1. Range(ProposedCandidates) = {}
  BY DEF Init, Range
<1>2. DOMAIN Delegations = Accounts /\ \A c \in Accounts : DOMAIN Delegations[c] = {}
  BY DEF Init
<1>3. FewStaked
  <2>1. {c \in Accounts : DOMAIN Delegations[c] # {}} = {}
    BY <1>2
  <2> QED  BY <2>1, FS_EmptySet DEF FewStaked
<1>4. ASSUME NEW a \in Accounts
      PROVE  account[a].reserved >= Bonded(a) + Staked(a)
  <2>1. Bonded(a) = 0
    BY <1>1, BondNone, ClaimParts
  <2>2. DOMAIN StakesOf(Delegations, a) = {}
    BY <1>2 DEF StakesOf
  <2>3. Staked(a) = 0
    BY <2>2, TotalEmpty, ClaimParts
  <2>4. account[a].reserved = 0
    BY DEF Init, GenesisBalances, Data
  <2> QED  BY <2>1, <2>3, <2>4
<1> QED  BY <1>3, <1>4 DEF ReserveCoversClaims

(* ClaimsAreCovered: one pool of reserved balance backs an account's bond and
   all its delegations at once, for any accounts, bonds and stakes, through
   drops, registrations that start from a bond of zero, and delegations that
   outlive the candidate; only bond_correction is excepted.                *)
THEOREM ClaimsAreCovered == Spec => []ReserveCoversClaims
<1>1. IndInv /\ IndInv' /\ FewStaked /\ ReserveCoversClaims /\ [Next]_vars
        => FewStaked' /\ ReserveCoversClaims'
  BY CoverStep
<1> QED  BY <1>1, InitCovered, Inductive, PTL DEF Spec

-----------------------------------------------------------------------------
(* The runtime: what the freezer and the transfers do to the ledger.       *)
Holdings == [a \in Accounts |-> account[a].free + account[a].reserved]

(* No more is held than was endowed.                                       *)
NoneMinted == Total(Holdings) <= Cardinality(Accounts) * Endowment

Ledger ==
  /\ IndInv
  /\ StakeBacked
  /\ FewStaked
  /\ ReserveCoversClaims
  /\ NoneMinted

(* An outside step: reserves and claims stay, and nothing is minted.       *)
Outside ==
  /\ StakingUntouched
  /\ account' \in [Accounts -> AccountData]
  /\ \A a \in Accounts : account'[a].reserved = account[a].reserved
  /\ Total(Holdings') <= Total(Holdings)

LEMMA HoldingsTally ==
  /\ account \in [Accounts -> AccountData] =>
       /\ IsTally(Holdings)
       /\ \A a \in Accounts : /\ Holdings[a] = account[a].free + account[a].reserved
                              /\ ValueAt(Holdings, a) = Holdings[a] /\ Holdings[a] \in Nat
  /\ account' \in [Accounts -> AccountData] =>
       /\ IsTally(Holdings')
       /\ \A a \in Accounts : /\ Holdings'[a] = account'[a].free + account'[a].reserved
                              /\ ValueAt(Holdings', a) = Holdings'[a] /\ Holdings'[a] \in Nat
BY RuntimeAssumption DEF Holdings, IsTally, ValueAt, AccountData

(* Two values change, and their sum does not grow.                         *)
LEMMA TotalMoved ==
  ASSUME NEW S, IsFiniteSet(S), NEW f \in [S -> Nat], NEW g \in [S -> Nat],
         NEW x \in S, NEW y \in S, x # y,
         \A e \in S \ {x, y} : g[e] = f[e], g[x] + g[y] <= f[x] + f[y]
  PROVE  Total(g) <= Total(f)
<1> DEFINE h == [e \in S |-> IF e = x THEN g[x] ELSE f[e]]
<1>1. DOMAIN h = S /\ \A e \in S : h[e] = IF e = x THEN g[x] ELSE f[e]
  OBVIOUS
<1> HIDE DEF h
<1>2. IsTally(f) /\ IsTally(g) /\ IsTally(h)
  BY <1>1 DEF IsTally
<1>3. Without(f, x) = Without(h, x)
  BY <1>1 DEF Without
<1>4. Without(h, y) = Without(g, y)
  BY <1>1 DEF Without
<1>5. /\ Total(f) \in Nat /\ Total(h) \in Nat
      /\ Total(h) + ValueAt(f, x) = Total(f) + ValueAt(h, x)
  BY <1>2, <1>3, TotalChange
<1>6. /\ Total(g) \in Nat
      /\ Total(g) + ValueAt(h, y) = Total(h) + ValueAt(g, y)
  BY <1>2, <1>4, TotalChange
<1>7. /\ ValueAt(f, x) = f[x] /\ ValueAt(h, x) = g[x]
      /\ ValueAt(h, y) = f[y] /\ ValueAt(g, y) = g[y]
  BY <1>1 DEF ValueAt
<1>8. f[x] \in Nat /\ f[y] \in Nat /\ g[x] \in Nat /\ g[y] \in Nat
  OBVIOUS
<1> QED  BY <1>5, <1>6, <1>7, <1>8

LEMMA TransferOutside ==
  ASSUME IndInv, StakingUntouched, NEW from \in Accounts, NEW to \in Accounts, NEW v \in Nat,
         transfer_allow_death(from, to, v)
  PROVE  Outside
<1>1. account \in [Accounts -> AccountData]
  BY Typing
<1>2. /\ from # to /\ account[from].free >= v + Untouchable(from)
      /\ account' = [account EXCEPT
                       ![from] = Data(Undusted(@.free - v), @.reserved, @.frozen),
                       ![to]   = Data(@.free + v, @.reserved, @.frozen)]
  BY DEF transfer_allow_death
<1>3. Untouchable(from) \in Nat
  BY <1>1, EDAssumption DEF Untouchable, AccountData
<1>4. \A a \in Accounts : /\ account[a].free \in Nat /\ account[a].reserved \in Nat
                         /\ account[a].frozen \in Nat
  BY <1>1 DEF AccountData
<1>5. account[from].free - v \in Nat
  BY <1>2, <1>3, <1>4
<1>6. Undusted(account[from].free - v) \in Nat /\ Undusted(account[from].free - v) <= account[from].free - v
  BY <1>5 DEF Undusted
<1>7. /\ account'[from] = Data(Undusted(account[from].free - v), account[from].reserved, account[from].frozen)
      /\ account'[to] = Data(account[to].free + v, account[to].reserved, account[to].frozen)
      /\ \A a \in Accounts \ {from, to} : account'[a] = account[a]
      /\ account' = [a \in Accounts |-> account'[a]]
  BY <1>1, <1>2
<1>8. account' \in [Accounts -> AccountData]
  <2>1. account'[from] \in AccountData /\ account'[to] \in AccountData
    BY <1>4, <1>6, <1>7 DEF Data, AccountData
  <2> QED  BY <1>1, <1>7, <2>1
<1>9. \A a \in Accounts : account'[a].reserved = account[a].reserved
  BY <1>7 DEF Data
<1>10. Holdings \in [Accounts -> Nat] /\ Holdings' \in [Accounts -> Nat]
  BY <1>1, <1>8 DEF Holdings, AccountData
<1>11. \A a \in Accounts \ {from, to} : Holdings'[a] = Holdings[a]
  BY <1>7 DEF Holdings
<1>12. Holdings'[from] + Holdings'[to] <= Holdings[from] + Holdings[to]
  <2>1. /\ Holdings'[from] = Undusted(account[from].free - v) + account[from].reserved
        /\ Holdings'[to] = account[to].free + v + account[to].reserved
    BY <1>7 DEF Holdings, Data
  <2>2. /\ Holdings[from] = account[from].free + account[from].reserved
        /\ Holdings[to] = account[to].free + account[to].reserved
    BY DEF Holdings
  <2> QED  BY <1>4, <1>6, <2>1, <2>2
<1>13. Total(Holdings') <= Total(Holdings)
  BY <1>2, <1>10, <1>11, <1>12, RuntimeAssumption, TotalMoved
<1> QED  BY <1>8, <1>9, <1>13 DEF Outside

LEMMA FreezerOutside ==
  ASSUME IndInv, StakingUntouched, Freezer!FreezerCall
  PROVE  Outside
<1>1. account \in [Accounts -> AccountData]
  BY Typing
<1>2. \E who \in Accounts, amount \in Nat :
        account' = [account EXCEPT ![who] = Data(@.free, @.reserved, amount)]
  <2>1. PICK origin \in Origins, who \in Accounts :
          \/ Freezer!freeze_account(origin, who)
          \/ \E amount \in Amounts : Freezer!freeze_amount(origin, who, amount)
          \/ Freezer!thaw_account(origin, who)
          \/ \E amount \in Amounts : Freezer!thaw_amount(origin, who, amount)
    BY DEF Freezer!FreezerCall
  <2>2. /\ account[who].frozen \in Nat /\ MaxBalance \in Nat /\ 0 \in Nat
        /\ \A amount \in Amounts : amount \in Nat
    BY <1>1, RuntimeAssumption DEF AccountData
  <2>3. CASE Freezer!freeze_account(origin, who)
    BY <2>2, <2>3 DEF Freezer!freeze_account, Freezer!set_freeze, Freezer!Data, Data
  <2>4. ASSUME NEW amount \in Amounts, Freezer!freeze_amount(origin, who, amount)
        PROVE  \E n \in Nat : account' = [account EXCEPT ![who] = Data(@.free, @.reserved, n)]
    BY <2>2, <2>4 DEF Freezer!freeze_amount, Freezer!set_freeze, Freezer!Data, Data
  <2>5. CASE Freezer!thaw_account(origin, who)
    BY <2>2, <2>5 DEF Freezer!thaw_account, Freezer!thaw, Freezer!Data, Data
  <2>6. ASSUME NEW amount \in Amounts, Freezer!thaw_amount(origin, who, amount)
        PROVE  \E n \in Nat : account' = [account EXCEPT ![who] = Data(@.free, @.reserved, n)]
    <3>1. CASE Freezer!thaw(who)
      BY <2>2, <3>1 DEF Freezer!thaw, Freezer!Data, Data
    <3>2. CASE amount < account[who].frozen /\ Freezer!set_freeze(who, account[who].frozen - amount)
      <4>1. account[who].frozen - amount \in Nat
        BY <2>2, <3>2
      <4> QED  BY <3>2, <4>1 DEF Freezer!set_freeze, Freezer!Data, Data
    <3> QED  BY <2>6, <3>1, <3>2 DEF Freezer!thaw_amount
  <2> QED  BY <2>1, <2>3, <2>4, <2>5, <2>6
<1>3. PICK who \in Accounts : \E amount \in Nat :
        account' = [account EXCEPT ![who] = Data(@.free, @.reserved, amount)]
  BY <1>2
<1>4. PICK amount \in Nat :
        account' = [account EXCEPT ![who] = Data(@.free, @.reserved, amount)]
  BY <1>3
<1>5. account' \in [Accounts -> AccountData]
  BY <1>1, <1>4 DEF AccountData, Data
<1>6. \A a \in Accounts : /\ account'[a].reserved = account[a].reserved
                         /\ account'[a].free = account[a].free
  BY <1>1, <1>4 DEF AccountData, Data
<1>7. Holdings' = Holdings
  BY <1>6 DEF Holdings
<1>8. Total(Holdings) \in Nat
  BY <1>1, HoldingsTally, TotalNat DEF IsTally
<1> QED  BY <1>5, <1>6, <1>7, <1>8 DEF Outside

LEMMA OutsideStep ==
  ASSUME Ledger, Outside
  PROVE  Ledger' /\ \A a \in Accounts : Claim(a)' <= Claim(a)
<1>1. UNCHANGED <<ProposedCandidates, WaitingCandidates, Invulnerables, Delegations, ActualAuthors,
                  Validators, QueuedKeys, NextKeys, block_number>>
  BY DEF Outside, StakingUntouched, pipeline, session
<1>2. account' \in [Accounts -> AccountData] /\ IndInv
  BY DEF Outside, Ledger
<1>3. IndInv'
  <2>1. OtherTypes'
    BY <1>1, <1>2, SplitIndInv DEF OtherTypes
  <2>2. ListInv'
    BY <1>1, <1>2, SplitIndInv DEF ListInv
  <2> QED  BY <2>1, <2>2, SplitIndInvNext
<1>4. StakeBacked' /\ FewStaked'
  BY <1>1 DEF Ledger, StakeBacked, FewStaked
<1>5. \A a \in Accounts : Bonded(a)' = Bonded(a) /\ Staked(a)' = Staked(a)
  BY <1>1, ClaimParts, ClaimPartsNext
<1>6. ReserveCoversClaims'
  BY <1>5 DEF Ledger, Outside, ReserveCoversClaims
<1>7. NoneMinted'
  <2>1. Total(Holdings) \in Nat /\ Total(Holdings') \in Nat
    BY <1>2, Typing, HoldingsTally, TotalNat DEF IsTally
  <2>2. Cardinality(Accounts) * Endowment \in Nat
    BY RuntimeAssumption, ConfigAssumption, FS_CardinalityType
  <2> QED  BY <2>1, <2>2 DEF Ledger, Outside, NoneMinted
<1>8. ClaimsTyped /\ ClaimsTyped'
  BY <1>3, <1>4, ClaimsAreTyped DEF Ledger
<1>9. \A a \in Accounts : Claim(a)' <= Claim(a)
  BY <1>5, <1>8, ClaimFrom
<1> QED  BY <1>3, <1>4, <1>6, <1>7, <1>9 DEF Ledger

(* A reserve or an unreserve moves a balance within its account.           *)
LEMMA StakingStep ==
  ASSUME Ledger, [Next]_vars
  PROVE  Ledger' /\ MoneyStep
<1>1. IndInv /\ IndInv' /\ StakeBacked /\ FewStaked /\ ReserveCoversClaims
  BY NextStep DEF Ledger
<1>2. StakeBacked' /\ FewStaked' /\ ReserveCoversClaims' /\ MoneyStep
  BY <1>1, BackedStep, CoverStep, MoneyMoves
<1>3. account \in [Accounts -> AccountData]
  BY <1>1, Typing
<1>4. \A a \in Accounts : account[a].free \in Nat /\ account[a].reserved \in Nat
  BY <1>3 DEF AccountData
<1>5. ASSUME NEW who \in Accounts, NEW v \in Nat, Pledges(who, v) \/ Releases(who, v)
      PROVE  \A a \in Accounts : account'[a].free + account'[a].reserved
                                   = account[a].free + account[a].reserved
  <2>1. CASE account[who].free >= v /\ reserve(who, v)
    BY <1>3, <1>4, <2>1 DEF reserve, Data
  <2>2. CASE unreserve(who, v)
    <3>1. MinOf(v, account[who].reserved) \in Nat
      BY <1>4 DEF MinOf
    <3>2. account' = [account EXCEPT ![who] =
                       Data(@.free + MinOf(v, account[who].reserved),
                            @.reserved - MinOf(v, account[who].reserved), @.frozen)]
      BY <2>2 DEF unreserve
    <3> QED  BY <1>3, <1>4, <3>1, <3>2 DEF Data
  <2> QED  BY <1>5, <2>1, <2>2 DEF Pledges, Releases
<1>6. Holdings' = Holdings
  BY <1>2, <1>5 DEF MoneyStep, Holdings
<1>7. NoneMinted'
  BY <1>6 DEF Ledger, NoneMinted
<1> QED  BY <1>1, <1>2, <1>7 DEF Ledger

(* Each step of the runtime is staking's or from outside.                  *)
LEMMA RuntimeStep ==
  ASSUME Ledger, [RNext]_<<vars, Frozen>>
  PROVE  ([Next]_vars /\ UNCHANGED Frozen) \/ Outside
<1>1. IndInv
  BY DEF Ledger
<1>2. CASE (Next /\ UNCHANGED Frozen) \/ UNCHANGED <<vars, Frozen>>
  BY <1>2
<1>3. CASE Freezer!FreezerCall /\ StakingUntouched
  BY <1>1, <1>3, FreezerOutside
<1>4. CASE Transfer
  <2>1. \A v \in Amounts : v \in Nat
    BY RuntimeAssumption
  <2> QED  BY <1>1, <1>4, <2>1, TransferOutside DEF Transfer
<1> QED  BY <1>2, <1>3, <1>4 DEF RNext

LEMMA LedgerStep ==
  ASSUME Ledger, [RNext]_<<vars, Frozen>>
  PROVE  Ledger'
BY RuntimeStep, StakingStep, OutsideStep

LEMMA LedgerInit == Init => Ledger
<1> SUFFICES ASSUME Init PROVE Ledger
  OBVIOUS
<1>1. Holdings = [a \in Accounts |-> Endowment]
  BY ConfigAssumption DEF Init, GenesisBalances, Data, Holdings
<1>2. Total(Holdings) = Cardinality(Accounts) * Endowment
  BY <1>1, RuntimeAssumption, ConfigAssumption, TotalConstant
<1>3. NoneMinted
  <2>1. Cardinality(Accounts) * Endowment \in Nat
    BY RuntimeAssumption, ConfigAssumption, FS_CardinalityType
  <2> QED  BY <1>2, <2>1 DEF NoneMinted
<1> QED  BY <1>3, InitLemma, InitBacked, InitCovered DEF Ledger

LEMMA LedgerKept == RSpec => []Ledger
<1>1. RInit => Ledger
  BY LedgerInit DEF RInit
<1>2. Ledger /\ [RNext]_<<vars, Frozen>> => Ledger'
  BY LedgerStep
<1> QED  BY <1>1, <1>2, PTL DEF RSpec

(* RuntimeStakeIsBacked: the stake counted for a candidate stays on record when
   calls of staking fail or succeed on balances that others transfer, freeze
   and thaw in between.                                                    *)
THEOREM RuntimeStakeIsBacked == RSpec => []StakeBacked
<1>1. Ledger => StakeBacked
  BY DEF Ledger
<1> QED  BY <1>1, LedgerKept, PTL

(* RuntimeClaimsAreCovered: the reserve of an account still covers its bond and
   all its delegations among the transfers and freezes of any accounts: a
   transfer cannot spend a reserve, and a freeze or a thaw moves nothing.  *)
THEOREM RuntimeClaimsAreCovered == RSpec => []ReserveCoversClaims
<1>1. Ledger => ReserveCoversClaims
  BY DEF Ledger
<1> QED  BY <1>1, LedgerKept, PTL

-----------------------------------------------------------------------------
(* The runtime and freezes.                                                *)

(* No account holds more than a Balance can say.                           *)
LEMMA HeldIsBalance ==
  ASSUME Ledger, NEW a \in Accounts
  PROVE  /\ account[a].free \in Nat /\ account[a].reserved \in Nat /\ account[a].frozen \in Nat
         /\ account[a].free <= MaxBalance /\ account[a].reserved <= MaxBalance
<1>1. account \in [Accounts -> AccountData]
  BY Typing DEF Ledger
<1>2. account[a].free \in Nat /\ account[a].reserved \in Nat /\ account[a].frozen \in Nat
  BY <1>1 DEF AccountData
<1>3. /\ IsTally(Holdings)
      /\ ValueAt(Holdings, a) = account[a].free + account[a].reserved
  BY <1>1, HoldingsTally
<1>4. account[a].free + account[a].reserved <= Total(Holdings)
  BY <1>3, TotalBound
<1>5. Total(Holdings) \in Nat
  BY <1>3, TotalNat DEF IsTally
<1>6. Cardinality(Accounts) * Endowment \in Nat /\ MaxBalance \in Nat
  BY RuntimeAssumption, ConfigAssumption, FS_CardinalityType
<1>7. Total(Holdings) <= Cardinality(Accounts) * Endowment
  BY DEF Ledger, NoneMinted
<1>8. Cardinality(Accounts) * Endowment <= MaxBalance
  BY RuntimeAssumption
<1> HIDE DEF Holdings
<1> QED  BY <1>2, <1>4, <1>5, <1>6, <1>7, <1>8

LEMMA FrozenStep ==
  ASSUME Ledger, [RNext]_<<vars, Frozen>>, NEW a \in Accounts, account[a].frozen >= MaxBalance
  PROVE  Claim(a)' <= Claim(a)
<1>1. CASE Outside
  BY <1>1, OutsideStep
<1>2. CASE [Next]_vars
  <2>1. Ledger' /\ MoneyStep
    BY <1>2, StakingStep
  <2>2. ClaimsTyped /\ ClaimsTyped'
    BY <2>1, ClaimsAreTyped DEF Ledger
  <2>3. Claim(a) \in Nat /\ Claim(a)' \in Nat
    BY <2>2, ClaimFrom
  <2>4. ASSUME NEW v \in Nat, Pledges(a, v) \/ Releases(a, v)
        PROVE  Claim(a)' <= Claim(a)
    <3>1. CASE Pledges(a, v)
      <4>1. v = 0
        BY <3>1, HeldIsBalance, RuntimeAssumption, EDAssumption DEF Pledges, reserve
      <4> QED  BY <2>3, <3>1, <4>1 DEF Pledges
    <3>2. CASE Releases(a, v)
      BY <2>3, <3>2 DEF Releases
    <3> QED  BY <2>4, <3>1, <3>2
  <2> QED  BY <2>1, <2>4 DEF MoneyStep
<1> QED  BY <1>1, <1>2, RuntimeStep

(* FrozenPledgesNothing: an account under a whole freeze can raise neither its
   bond nor its delegations, whatever the amounts, and because nothing is
   minted, the freeze of the largest balance is always a whole one.        *)
THEOREM FrozenPledgesNothing == RSpec => FrozenAddNothing
<1>1. Ledger /\ [RNext]_<<vars, Frozen>> =>
        [\A a \in Accounts : account[a].frozen >= MaxBalance =>
           Bonded(a)' + Staked(a)' <= Bonded(a) + Staked(a)]_<<vars, Frozen>>
  BY FrozenStep DEF Claim
<1> QED  BY <1>1, LedgerKept, PTL DEF RSpec, FrozenAddNothing

(* A step of staking as the freezer sees it.                               *)
LEMMA StakingSeen ==
  ASSUME Ledger, [Next]_vars, UNCHANGED Frozen
  PROVE  [FreezerView!Next]_FreezerView!vars
<1>1. MoneyStep
  BY StakingStep
<1>2. account \in [Accounts -> AccountData]
  BY Typing DEF Ledger
<1>3. CASE UNCHANGED account
  BY <1>3 DEF FreezerView!vars
<1>4. ASSUME NEW who \in Accounts, NEW v \in Nat, Pledges(who, v) \/ Releases(who, v)
      PROVE  FreezerView!Next
  <2>1. CASE account[who].free >= v /\ reserve(who, v)
    <3>1. v \in 0 .. MaxBalance
      BY <2>1, HeldIsBalance, RuntimeAssumption
    <3>2. FreezerView!reserve(who, v)
      BY <2>1 DEF reserve, FreezerView!reserve, Data, FreezerView!Data
    <3> QED  BY <3>1, <3>2 DEF FreezerView!Next, FreezerView!BalanceCall
  <2>2. CASE unreserve(who, v)
    <3> DEFINE r == MinOf(v, account[who].reserved)
    <3>1. r \in 0 .. MaxBalance
      BY HeldIsBalance, RuntimeAssumption DEF MinOf
    <3>2. r = MinOf(r, account[who].reserved)
      BY HeldIsBalance DEF MinOf
    <3>3. FreezerView!unreserve(who, r)
      BY <2>2, <3>2 DEF unreserve, FreezerView!unreserve, Data, FreezerView!Data,
                        MinOf, FreezerView!MinOf
    <3> HIDE DEF r
    <3> QED  BY <3>1, <3>3 DEF FreezerView!Next, FreezerView!BalanceCall
  <2> QED  BY <1>4, <2>1, <2>2 DEF Pledges, Releases
<1> QED  BY <1>1, <1>3, <1>4 DEF MoneyStep

LEMMA FreezerSeen ==
  ASSUME [RNext]_<<vars, Frozen>>
  PROVE  ([Next]_vars /\ UNCHANGED Frozen) \/ FreezerView!Next
<1>1. CASE (Next /\ UNCHANGED Frozen) \/ UNCHANGED <<vars, Frozen>>
  BY <1>1
<1>2. Amounts \subseteq 0 .. MaxBalance
  BY RuntimeAssumption
<1>3. CASE Freezer!FreezerCall
  <2>1. FreezerView!FreezerCall
    BY <1>2, <1>3 DEF Freezer!FreezerCall, Freezer!freeze_account, Freezer!freeze_amount,
         Freezer!thaw_account, Freezer!thaw_amount, Freezer!FreezeOrigin, Freezer!set_freeze,
         Freezer!thaw, Freezer!Data, FreezerView!FreezerCall, FreezerView!freeze_account,
         FreezerView!freeze_amount, FreezerView!thaw_account, FreezerView!thaw_amount,
         FreezerView!FreezeOrigin, FreezerView!set_freeze, FreezerView!thaw, FreezerView!Data
  <2> QED  BY <2>1 DEF FreezerView!Next
<1>4. CASE Transfer
  <2>1. PICK from \in Accounts, to \in Accounts : \E v \in Amounts : transfer_allow_death(from, to, v)
    BY <1>4 DEF Transfer
  <2>2. PICK v \in Amounts : transfer_allow_death(from, to, v)
    BY <2>1
  <2>3. FreezerView!transfer_allow_death(from, to, v)
    BY <2>2 DEF transfer_allow_death, FreezerView!transfer_allow_death, Untouchable,
         FreezerView!Untouchable, Undusted, FreezerView!Undusted, Data, FreezerView!Data
  <2>4. v \in 0 .. MaxBalance /\ UNCHANGED Frozen
    BY <1>2, <1>4, <2>2 DEF Transfer
  <2> QED  BY <2>3, <2>4 DEF FreezerView!Next, FreezerView!BalanceCall
<1> QED  BY <1>1, <1>3, <1>4 DEF RNext

(* FreezerIsImplemented: to the freezer pallet the runtime is a sequence of its
   own calls, transfers, reserves and unreserves of amounts that are Balances,
   however staking arrives at them; so the promises proved of AccountFreezer
   are the runtime's.                                                      *)
THEOREM FreezerIsImplemented == RSpec => FreezerHolds
<1>1. RInit => FreezerView!Init
  BY DEF RInit, Init, GenesisBalances, FreezerView!Init, Data, FreezerView!Data
<1>2. Ledger /\ [RNext]_<<vars, Frozen>> => [FreezerView!Next]_FreezerView!vars
  BY FreezerSeen, StakingSeen
<1> QED  BY <1>1, <1>2, LedgerKept, PTL DEF RSpec, FreezerHolds, FreezerView!Spec

-----------------------------------------------------------------------------
(* What FreezerProofs proves of the freezer alone, taken over for the runtime
   (no call of the freezer's history is recorded here).                    *)
Proved == INSTANCE FreezerProofs WITH
  Issuance <- Endowment, Amounts <- 0 .. MaxBalance, promised <- 0

LEMMA FreezerAssumed == Proved!FreezerAssumption
BY RuntimeAssumption, ConfigAssumption DEF Proved!FreezerAssumption

LEMMA SameFreezer ==
  /\ FreezerView!Init => Proved!Init
  /\ FreezerView!Next => Proved!Next
  /\ FreezerView!vars = Proved!vars
  /\ Proved!FreezerInv => FreezerView!FreezeOnRecord
<1>1. FreezerView!Init => Proved!Init
  BY DEF FreezerView!Init, Proved!Init, FreezerView!Data, Proved!Data
<1>2. FreezerView!FreezerCall => Proved!FreezerCall
  BY DEF FreezerView!FreezerCall, FreezerView!freeze_account, FreezerView!freeze_amount,
         FreezerView!thaw_account, FreezerView!thaw_amount, FreezerView!FreezeOrigin,
         FreezerView!set_freeze, FreezerView!thaw, FreezerView!Data,
         Proved!FreezerCall, Proved!freeze_account, Proved!freeze_amount, Proved!thaw_account,
         Proved!thaw_amount, Proved!FreezeOrigin, Proved!set_freeze, Proved!thaw, Proved!Data
<1>3. FreezerView!BalanceCall => Proved!BalanceCall
  BY DEF FreezerView!BalanceCall, FreezerView!reserve, FreezerView!unreserve, FreezerView!MinOf,
         FreezerView!transfer_allow_death, FreezerView!Untouchable, FreezerView!Undusted,
         FreezerView!Data, Proved!BalanceCall, Proved!reserve, Proved!unreserve, Proved!MinOf,
         Proved!transfer_allow_death, Proved!Untouchable, Proved!Undusted, Proved!Data
<1>4. FreezerView!vars = Proved!vars
  BY DEF FreezerView!vars, Proved!vars
<1>5. Proved!FreezerInv => FreezerView!FreezeOnRecord
  BY DEF Proved!FreezerInv, Proved!FreezeOnRecord, FreezerView!FreezeOnRecord
<1> QED  BY <1>1, <1>2, <1>3, <1>4, <1>5 DEF FreezerView!Next, Proved!Next

LEMMA FreezerKept == FreezerHolds => []Proved!FreezerInv
<1>1. FreezerView!Init => Proved!FreezerInv
  BY SameFreezer, Proved!FreezerInit, FreezerAssumed, EDAssumption DEF Proved!EDAssumption
<1>2. Proved!FreezerInv /\ [Proved!Next]_Proved!vars => Proved!FreezerInv'
  BY Proved!FreezerStep, FreezerAssumed, EDAssumption DEF Proved!EDAssumption
<1>3. [FreezerView!Next]_FreezerView!vars => [Proved!Next]_Proved!vars
  BY SameFreezer DEF FreezerView!vars, Proved!vars
<1> QED  BY <1>1, <1>2, <1>3, PTL DEF FreezerHolds, FreezerView!Spec

(* RuntimeFreezesOnRecord: with staking on the same balances every freeze in
   force is still on record, on an account that is alive: no bond, delegation
   or withdrawal reaps an account under its freeze.                        *)
THEOREM RuntimeFreezesOnRecord == RSpec => []FreezerView!FreezeOnRecord
<1>1. Proved!FreezerInv => FreezerView!FreezeOnRecord
  BY SameFreezer
<1> QED  BY <1>1, FreezerKept, FreezerIsImplemented, PTL

-----------------------------------------------------------------------------
(* The runtime and the pipeline.                                           *)

(* RuntimeImplementsPipeline: the selection of validators goes its way among
   any transfers and freezes: these leave the lists alone, and a reserve they
   make fail rolls the call back as a whole.                               *)
THEOREM RuntimeImplementsPipeline == RSpec => ImplementsPipeline
<1>1. RInit => Abstract!Init
  BY InitRefines DEF RInit
<1>2. Ledger /\ [RNext]_<<vars, Frozen>> => [Abstract!Next]_Abstract!vars
  <2> SUFFICES ASSUME Ledger, [RNext]_<<vars, Frozen>> PROVE [Abstract!Next]_Abstract!vars
    OBVIOUS
  <2>1. CASE [Next]_vars
    BY <2>1, NextStep, StepRefines DEF Ledger
  <2>2. CASE Outside
    BY <2>2 DEF Outside, StakingUntouched, pipeline, session, RegisteredAccounts, FitAccounts,
                Abstract!vars, Abstract!stages
  <2> QED  BY <2>1, <2>2, RuntimeStep
<1> QED  BY <1>1, <1>2, LedgerKept, PTL DEF RSpec, ImplementsPipeline, Abstract!Spec
=============================================================================
