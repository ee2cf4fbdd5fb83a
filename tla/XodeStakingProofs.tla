-------------------------- MODULE XodeStakingProofs --------------------------
(***************************************************************************)
(* Proofs that XodeStaking keeps its types and capacities, and that nobody *)
(* is in a later stage of the pipeline without a registration and a bond,  *)
(* for any number of accounts, blocks and calls.                           *)
(***************************************************************************)
EXTENDS XodeStaking, VectorsProofs

-----------------------------------------------------------------------------
(* Lists of candidates.                                                    *)

(* The sort compares by a total preorder, made total by position.          *)
LEMMA SortOrderTotal ==
  ASSUME NEW s \in Seq(CandidateInfo)
  PROVE  TotalOrder(DOMAIN s, SortOrder(s))
<1> DEFINE Before(i, j) == RanksBefore(s[i], s[j])
<1>1. DOMAIN s \subseteq Nat
  BY LenProperties
<1>2. \A i \in DOMAIN s : s[i] \in CandidateInfo
  BY LenProperties
<1>3. \A i \in DOMAIN s : /\ Combined(s[i]) \in Nat
                          /\ s[i].last_updated \in Nat
                          /\ s[i].offline \in BOOLEAN
  BY <1>2 DEF Combined, CandidateInfo
<1>4. \A i, j \in DOMAIN s : Before(i, j) => ~Before(j, i)
  BY <1>3 DEF RanksBefore
<1>5. \A i, j, k \in DOMAIN s : ~Before(j, i) /\ ~Before(k, j) => ~Before(k, i)
  BY <1>3 DEF RanksBefore
<1>6. \A i, j \in DOMAIN s :
        <<i, j>> \in SortOrder(s) <=> Before(i, j) \/ (~Before(j, i) /\ i <= j)
  BY DEF SortOrder
<1> HIDE DEF Before
<1>7. \A i, j \in DOMAIN s : <<i, j>> \in SortOrder(s) \/ <<j, i>> \in SortOrder(s)
  <2> TAKE i, j \in DOMAIN s
  <2>1. i <= j \/ j <= i
    BY <1>1
  <2> QED  BY <1>6, <2>1, Zenon
<1>8. \A i, j \in DOMAIN s :
        <<i, j>> \in SortOrder(s) /\ <<j, i>> \in SortOrder(s) => i = j
  BY <1>1, <1>4, <1>6
<1>9. \A i, j, k \in DOMAIN s :
        <<i, j>> \in SortOrder(s) /\ <<j, k>> \in SortOrder(s) => <<i, k>> \in SortOrder(s)
  BY <1>1, <1>4, <1>5, <1>6
<1> QED  BY <1>7, <1>8, <1>9 DEF TotalOrder

(* A vector whose entries come from different places of a vector without
   duplicates has none either.                                             *)
LEMMA UniqueFromInjection ==
  ASSUME NEW s, UniqueWho(s), NEW t, NEW I \in SUBSET DOMAIN s,
         NEW p \in Injection(DOMAIN t, I), \A k \in DOMAIN t : t[k] = s[p[k]]
  PROVE  UniqueWho(t)
BY DEF UniqueWho, Injection, IsInjective

(* Sorting permutes.                                                       *)
LEMMA SortLemma ==
  ASSUME NEW s \in Seq(CandidateInfo)
  PROVE  /\ sort_proposed_candidates(s) \in Seq(CandidateInfo)
         /\ Len(sort_proposed_candidates(s)) <= Len(s)
         /\ Range(sort_proposed_candidates(s)) = Range(s)
         /\ UniqueWho(s) => UniqueWho(sort_proposed_candidates(s))
<1> DEFINE t == Arrange(s, DOMAIN s, SortOrder(s))
<1>1. TotalOrder(DOMAIN s, SortOrder(s))
  BY SortOrderTotal
<1>2. /\ t \in Seq(CandidateInfo)
      /\ Len(t) = Cardinality(DOMAIN s)
      /\ Cardinality(DOMAIN s) <= Len(s)
      /\ Range(t) = {s[i] : i \in DOMAIN s}
      /\ \E p \in Injection(DOMAIN t, DOMAIN s) : \A k \in DOMAIN t : t[k] = s[p[k]]
  BY <1>1, ArrangeLemma
<1>3. UniqueWho(s) => UniqueWho(t)
  BY <1>2, UniqueFromInjection, Zenon
<1>4. Range(t) = Range(s)
  BY <1>2 DEF Range
<1>5. Len(t) <= Len(s)
  BY <1>2
<1> QED  BY <1>2, <1>3, <1>4, <1>5 DEF sort_proposed_candidates

(* Replacing entries in place, each by one of the same account.            *)
LEMMA MapLemma ==
  ASSUME NEW s \in Seq(CandidateInfo), NEW t,
         t = [i \in DOMAIN s |-> t[i]],
         \A i \in DOMAIN s : t[i] \in CandidateInfo /\ t[i].who = s[i].who
  PROVE  /\ t \in Seq(CandidateInfo)
         /\ Len(t) = Len(s)
         /\ DOMAIN t = DOMAIN s
         /\ UniqueWho(s) => UniqueWho(t)
<1>1. DOMAIN s = 1 .. Len(s) /\ Len(s) \in Nat
  BY LenProperties
<1>2. t \in [1 .. Len(s) -> CandidateInfo]
  BY <1>1
<1>3. t \in Seq(CandidateInfo) /\ Len(t) = Len(s)
  BY <1>1, <1>2
<1>4. DOMAIN t = DOMAIN s
  OBVIOUS
<1> QED  BY <1>3, <1>4 DEF UniqueWho

-----------------------------------------------------------------------------
(* The part of IndInv about the list s of candidates and the accounts W, I, Q
   and V in WaitingCandidates, Invulnerables, QueuedKeys and Validators.   *)
StageInv(s, W, I, Q, V) ==
  /\ s \in Seq(CandidateInfo) /\ Len(s) <= MaxCandidates
  /\ UniqueWho(s)
  /\ \A c \in Range(s) : c.bond = 0 \/ c.bond >= MinCandidateBond
  /\ \A c \in Range(s) : c.status # "Offline"
  /\ Q \subseteq I
  /\ \A who \in (W \union I \union V) \ Desired : \E c \in Range(s) : c.who = who /\ c.bond # 0
  /\ \A c \in Range(s) : c.who \notin Desired =>
       /\ c.who \in W => c.status \in {"Waiting", "Queuing", "Authoring"}
       /\ c.who \in I => c.status = "Authoring"
       /\ c.who \in V => c.status \in {"Queuing", "Authoring"}
  /\ Desired \subseteq W \intersect I

(* The rest of IndInv: the other types.                                    *)
OtherTypes ==
  /\ account \in [Accounts -> AccountData]
  /\ WaitingCandidates \in Seq(Accounts) /\ Len(WaitingCandidates) <= MaxCandidates
  /\ Invulnerables \in Seq(Accounts) /\ Len(Invulnerables) <= MaxCandidates
  /\ Validators \in Seq(Accounts) /\ Len(Validators) <= MaxCandidates
  /\ QueuedKeys \in Seq(Accounts) /\ Len(QueuedKeys) <= MaxCandidates
  /\ DOMAIN Delegations = Accounts
  /\ \A a \in Accounts : IsDelegations(Delegations[a])
  /\ ActualAuthors \subseteq Accounts
  /\ NextKeys \subseteq Accounts
  /\ block_number \in Nat

ListInv ==
  StageInv(ProposedCandidates, Range(WaitingCandidates), Range(Invulnerables),
           Range(QueuedKeys), Range(Validators))

LEMMA SplitIndInv == IndInv <=> OtherTypes /\ ListInv
BY DEF IndInv, OtherTypes, ListInv, StageInv, TypeOK, UniqueCandidates, BondsOK, NeverOffline,
       QueuedAreInvulnerable, Guarded, GuardedBonded, StatusCoversStage, DesiredKept

LEMMA SplitIndInvNext == IndInv' <=> OtherTypes' /\ ListInv'
BY DEF IndInv, OtherTypes, ListInv, StageInv, TypeOK, UniqueCandidates, BondsOK, NeverOffline,
       QueuedAreInvulnerable, Guarded, GuardedBonded, StatusCoversStage, DesiredKept

(* The invariant does not depend on the order of the candidates.           *)
LEMMA SortStage ==
  ASSUME NEW s, NEW W, NEW I, NEW Q, NEW V, StageInv(s, W, I, Q, V)
  PROVE  StageInv(sort_proposed_candidates(s), W, I, Q, V)
<1> DEFINE t == sort_proposed_candidates(s)
<1>1. s \in Seq(CandidateInfo) /\ UniqueWho(s) /\ Len(s) <= MaxCandidates
  BY DEF StageInv
<1>2. t \in Seq(CandidateInfo) /\ Len(t) <= Len(s) /\ Range(t) = Range(s) /\ UniqueWho(t)
  BY <1>1, SortLemma
<1>3. Len(t) <= MaxCandidates
  BY <1>1, <1>2, LenProperties, ConfigAssumption
<1> HIDE DEF t
<1>4. StageInv(t, W, I, Q, V)
  BY <1>2, <1>3 DEF StageInv
<1> QED  BY <1>4 DEF t

(* A call replaces one candidate by d, of the same account and status, and
   unbonds it only outside the guarded stages.                             *)
LEMMA AmendStage ==
  ASSUME NEW s, NEW W, NEW I, NEW Q, NEW V, StageInv(s, W, I, Q, V),
         NEW c \in Range(s), NEW d \in CandidateInfo,
         d.who = c.who, d.status = c.status,
         \/ d.bond = c.bond
         \/ d.bond >= MinCandidateBond
         \/ d.bond = 0 /\ d.who \notin W \union I \union V
  PROVE  /\ StageInv(Amend(s, d), W, I, Q, V)
         /\ StageInv(sort_proposed_candidates(Amend(s, d)), W, I, Q, V)
<1> DEFINE t == Amend(s, d)
<1>1. /\ s \in Seq(CandidateInfo) /\ UniqueWho(s) /\ Len(s) <= MaxCandidates
      /\ \A i \in DOMAIN s : s[i] \in CandidateInfo
  BY LenProperties DEF StageInv
<1>2. /\ t = [i \in DOMAIN s |-> t[i]]
      /\ \A i \in DOMAIN s : t[i] = IF s[i].who = d.who THEN d ELSE s[i]
  BY DEF Amend
<1> HIDE DEF t
<1>3. /\ t \in Seq(CandidateInfo) /\ Len(t) = Len(s) /\ DOMAIN t = DOMAIN s /\ UniqueWho(t)
  BY <1>1, <1>2, MapLemma
<1>4. \A e \in Range(t) : e = d \/ (e \in Range(s) /\ e.who # d.who)
  BY <1>2, <1>3 DEF Range
<1>5. d \in Range(t) /\ \A e \in Range(s) : e.who # d.who => e \in Range(t)
  BY <1>2, <1>3 DEF Range
<1>6. \A e \in Range(s) : e.who = d.who => e = c
  BY <1>1 DEF Range, UniqueWho
<1>7. c.bond = 0 \/ c.bond >= MinCandidateBond
  BY DEF StageInv
<1>8. \A e \in Range(t) : e.bond = 0 \/ e.bond >= MinCandidateBond
  BY <1>4, <1>7 DEF StageInv
<1>9. \A e \in Range(t) : e.status # "Offline"
  BY <1>4 DEF StageInv
<1>10. ASSUME NEW who \in (W \union I \union V) \ Desired
       PROVE  \E e \in Range(t) : e.who = who /\ e.bond # 0
  <2>1. PICK e \in Range(s) : e.who = who /\ e.bond # 0
    BY <1>10 DEF StageInv
  <2>2. CASE who # d.who
    BY <1>5, <2>1, <2>2
  <2>3. CASE who = d.who
    <3>1. d.bond # 0
      BY <1>6, <1>10, <2>1, <2>3, ConfigAssumption DEF CandidateInfo
    <3> QED  BY <1>5, <2>3, <3>1
  <2> QED  BY <2>2, <2>3
<1>11. ASSUME NEW e \in Range(t), e.who \notin Desired
       PROVE  /\ e.who \in W => e.status \in {"Waiting", "Queuing", "Authoring"}
              /\ e.who \in I => e.status = "Authoring"
              /\ e.who \in V => e.status \in {"Queuing", "Authoring"}
  <2>1. PICK f \in Range(s) : f.who = e.who /\ f.status = e.status
    BY <1>4, <1>11
  <2> QED  BY <1>11, <2>1 DEF StageInv
<1>12. StageInv(t, W, I, Q, V)
  BY <1>1, <1>3, <1>8, <1>9, <1>10, <1>11 DEF StageInv
<1> QED  BY <1>12, SortStage DEF t

-----------------------------------------------------------------------------
(* The types of the balances.                                              *)
LEMMA ReserveType ==
  ASSUME account \in [Accounts -> AccountData], NEW who \in Accounts, NEW STATE v, v \in Nat,
         account[who].free >= v, reserve(who, v)
  PROVE  account' \in [Accounts -> AccountData]
BY DEF reserve, AccountData, Data

LEMMA UnreserveType ==
  ASSUME account \in [Accounts -> AccountData], NEW who \in Accounts, NEW STATE v, v \in Nat,
         unreserve(who, v)
  PROVE  account' \in [Accounts -> AccountData]
BY DEF unreserve, AccountData, Data, MinOf

-----------------------------------------------------------------------------
(* Every call preserves the invariant.                                     *)

LEMMA RegisterStep ==
  ASSUME IndInv, NEW who \in Accounts, register_candidate(who)
  PROVE  IndInv'
<1> DEFINE s == ProposedCandidates
           c == NewCandidate(who)
           W == Range(WaitingCandidates)
           I == Range(Invulnerables)
           Q == Range(QueuedKeys)
           V == Range(Validators)
<1>1. OtherTypes /\ StageInv(s, W, I, Q, V)
  BY SplitIndInv DEF ListInv
<1>2. OtherTypes'
  BY <1>1 DEF OtherTypes, register_candidate, pipeline, session
<1>3. c \in CandidateInfo /\ c.who = who /\ c.bond = 0 /\ c.status = "Online"
  BY <1>1 DEF OtherTypes, NewCandidate, CandidateInfo, Status
<1>4. s \in Seq(CandidateInfo) /\ UniqueWho(s) /\ Len(s) < MaxCandidates
  BY <1>1 DEF StageInv, register_candidate
<1>5. \A d \in Range(s) : d.who # who
  BY DEF register_candidate, Registered
<1> DEFINE t == Append(s, c)
<1> HIDE DEF c, s
<1>6. /\ t \in Seq(CandidateInfo)
      /\ Len(t) = Len(s) + 1
      /\ DOMAIN t = 1 .. Len(s) + 1
      /\ \A i \in 1 .. Len(s) : t[i] = s[i]
      /\ t[Len(s) + 1] = c
      /\ Len(s) \in Nat /\ DOMAIN s = 1 .. Len(s)
  BY <1>3, <1>4, LenProperties, AppendProperties
<1> HIDE DEF t
<1>7. Range(t) = Range(s) \union {c}
  BY <1>6 DEF Range
<1>8. UniqueWho(t)
  <2> SUFFICES ASSUME NEW i \in DOMAIN t, NEW j \in DOMAIN t, t[i].who = t[j].who
               PROVE  i = j
    BY DEF UniqueWho
  <2>1. CASE i \in DOMAIN s /\ j \in DOMAIN s
    BY <1>4, <1>6, <2>1 DEF UniqueWho
  <2>2. CASE i = Len(s) + 1 /\ j \in DOMAIN s
    BY <1>3, <1>5, <1>6, <2>2 DEF Range
  <2>3. CASE i \in DOMAIN s /\ j = Len(s) + 1
    BY <1>3, <1>5, <1>6, <2>3 DEF Range
  <2> QED  BY <1>6, <2>1, <2>2, <2>3
<1>9. who \notin (W \union I \union V) \ Desired
  BY <1>1, <1>5 DEF StageInv
<1>10. Len(t) <= MaxCandidates
  BY <1>4, <1>6, ConfigAssumption
<1> HIDE DEF W, I, Q, V
<1>11. StageInv(t, W, I, Q, V)
  BY <1>1, <1>3, <1>6, <1>7, <1>8, <1>9, <1>10 DEF StageInv
<1>12. ListInv'
  BY <1>11 DEF ListInv, register_candidate, pipeline, session, t, s, c, W, I, Q, V
<1> QED  BY <1>2, <1>12, SplitIndInvNext

(* What the calls that edit a candidate in place have in common.           *)
LEMMA AmendStep ==
  ASSUME IndInv, OtherTypes', UNCHANGED <<pipeline, Validators, QueuedKeys>>,
         NEW STATE c, c \in Range(ProposedCandidates), NEW STATE d, d \in CandidateInfo,
         d.who = c.who, d.status = c.status,
         \/ d.bond = c.bond
         \/ d.bond >= MinCandidateBond
         \/ d.bond = 0 /\ OutOfPipeline(d.who),
         ProposedCandidates' \in {Amend(ProposedCandidates, d),
                                  sort_proposed_candidates(Amend(ProposedCandidates, d))}
  PROVE  IndInv'
<1> DEFINE s == ProposedCandidates
           W == Range(WaitingCandidates)
           I == Range(Invulnerables)
           Q == Range(QueuedKeys)
           V == Range(Validators)
<1>1. StageInv(s, W, I, Q, V)
  BY SplitIndInv DEF ListInv
<1>2. OutOfPipeline(d.who) => d.who \notin W \union I \union V
  BY DEF OutOfPipeline
<1>3. /\ StageInv(Amend(s, d), W, I, Q, V)
      /\ StageInv(sort_proposed_candidates(Amend(s, d)), W, I, Q, V)
  BY <1>1, <1>2, AmendStage
<1>4. StageInv(ProposedCandidates', W, I, Q, V)
  BY <1>3
<1>5. ListInv'
  BY <1>4 DEF ListInv, pipeline
<1> QED  BY <1>5, SplitIndInvNext

(* Candidates and the other types, in the form the calls need them.        *)
LEMMA Typing ==
  ASSUME IndInv
  PROVE  /\ OtherTypes
         /\ account \in [Accounts -> AccountData]
         /\ block_number \in Nat
         /\ ProposedCandidates \in Seq(CandidateInfo)
         /\ \A c \in Range(ProposedCandidates) : c \in CandidateInfo /\ c.bond \in Nat
<1>1. OtherTypes /\ ProposedCandidates \in Seq(CandidateInfo)
  BY SplitIndInv DEF ListInv, StageInv
<1>2. \A c \in Range(ProposedCandidates) : c \in CandidateInfo
  BY <1>1, LenProperties DEF Range
<1> QED  BY <1>1, <1>2 DEF OtherTypes, CandidateInfo

LEMMA BondStep ==
  ASSUME IndInv, NEW who \in Accounts, NEW new_bond \in Nat, bond_candidate(who, new_bond)
  PROVE  IndInv'
<1>1. PICK c \in Range(ProposedCandidates) :
        /\ c.who = who
        /\ AdjustReserve(who, c.bond, new_bond)
        /\ ProposedCandidates' = sort_proposed_candidates(
             Amend(ProposedCandidates, [c EXCEPT !.bond = new_bond,
                                                 !.last_updated = block_number]))
  BY DEF bond_candidate
<1>2. account \in [Accounts -> AccountData] /\ c \in CandidateInfo /\ c.bond \in Nat
  BY Typing
<1>3. account' \in [Accounts -> AccountData]
  <2>1. CASE new_bond > c.bond
    <3>1. /\ new_bond - c.bond \in Nat
          /\ account[who].free >= new_bond - c.bond
          /\ reserve(who, new_bond - c.bond)
      BY <1>1, <1>2, <2>1 DEF AdjustReserve
    <3> QED  BY <1>2, <3>1, ReserveType
  <2>2. CASE new_bond < c.bond
    <3>1. c.bond - new_bond \in Nat /\ unreserve(who, c.bond - new_bond)
      BY <1>1, <1>2, <2>2 DEF AdjustReserve
    <3> QED  BY <1>2, <3>1, UnreserveType
  <2>3. CASE new_bond = c.bond
    BY <1>1, <1>2, <2>3 DEF AdjustReserve
  <2> QED  BY <1>2, <2>1, <2>2, <2>3
<1>4. OtherTypes'
  BY <1>3, Typing DEF OtherTypes, bond_candidate, pipeline, session
<1> DEFINE d == [c EXCEPT !.bond = new_bond, !.last_updated = block_number]
<1>5. /\ d \in CandidateInfo /\ d.who = c.who /\ d.status = c.status
      /\ d.bond = new_bond
  BY <1>2, Typing DEF CandidateInfo
<1>6. \/ d.bond >= MinCandidateBond
      \/ d.bond = 0 /\ OutOfPipeline(d.who)
  BY <1>1, <1>5 DEF bond_candidate
<1>7. UNCHANGED <<pipeline, Validators, QueuedKeys>>
  BY DEF bond_candidate, session
<1>8. ProposedCandidates' = sort_proposed_candidates(Amend(ProposedCandidates, d))
  BY <1>1
<1> HIDE DEF d
<1> QED  BY <1>4, <1>5, <1>6, <1>7, <1>8, AmendStep

LEMMA CommissionStep ==
  ASSUME IndInv, NEW who \in Accounts, NEW commission,
         set_commission_of_candidate(who, commission)
  PROVE  IndInv'
<1>1. PICK c \in Range(ProposedCandidates) :
        ProposedCandidates' =
          Amend(ProposedCandidates, [c EXCEPT !.commission = commission,
                                              !.last_updated = block_number])
  BY DEF set_commission_of_candidate
<1> DEFINE d == [c EXCEPT !.commission = commission, !.last_updated = block_number]
<1>2. commission \in 0 .. 100 /\ block_number \in Nat /\ c \in CandidateInfo
  BY Typing DEF set_commission_of_candidate
<1>3. d \in CandidateInfo /\ d.who = c.who /\ d.status = c.status /\ d.bond = c.bond
  BY <1>2 DEF CandidateInfo
<1>4. OtherTypes' /\ UNCHANGED <<pipeline, Validators, QueuedKeys>>
  BY Typing DEF OtherTypes, set_commission_of_candidate, pipeline, session
<1>5. ProposedCandidates' = Amend(ProposedCandidates, d)
  BY <1>1
<1> HIDE DEF d
<1> QED  BY <1>3, <1>4, <1>5, AmendStep

LEMMA OfflineStep ==
  ASSUME IndInv, NEW who \in Accounts, NEW offline \in BOOLEAN, set_offline(who, offline),
         UNCHANGED <<account, pipeline, Delegations, ActualAuthors, session, block_number>>
  PROVE  IndInv'
<1>1. PICK c \in Range(ProposedCandidates) :
        ProposedCandidates' = sort_proposed_candidates(
          Amend(ProposedCandidates, [c EXCEPT !.offline = offline,
                                              !.last_updated = block_number]))
  BY DEF set_offline
<1> DEFINE d == [c EXCEPT !.offline = offline, !.last_updated = block_number]
<1>2. block_number \in Nat /\ c \in CandidateInfo
  BY Typing
<1>3. d \in CandidateInfo /\ d.who = c.who /\ d.status = c.status /\ d.bond = c.bond
  BY <1>2 DEF CandidateInfo
<1>4. OtherTypes' /\ UNCHANGED <<pipeline, Validators, QueuedKeys>>
  BY Typing DEF OtherTypes, pipeline, session
<1>5. ProposedCandidates' = sort_proposed_candidates(Amend(ProposedCandidates, d))
  BY <1>1
<1> HIDE DEF d
<1> QED  BY <1>3, <1>4, <1>5, AmendStep

LEMMA LeaveStep ==
  ASSUME IndInv, NEW who \in Accounts, leave_candidate(who)
  PROVE  IndInv'
<1>1. PICK c \in Range(ProposedCandidates) :
        ProposedCandidates' =
          Amend(ProposedCandidates, [c EXCEPT !.leaving = TRUE, !.last_updated = block_number])
  BY DEF leave_candidate
<1> DEFINE d == [c EXCEPT !.leaving = TRUE, !.last_updated = block_number]
<1>2. block_number \in Nat /\ c \in CandidateInfo
  BY Typing
<1>3. d \in CandidateInfo /\ d.who = c.who /\ d.status = c.status /\ d.bond = c.bond
  BY <1>2 DEF CandidateInfo
<1>4. OtherTypes' /\ UNCHANGED <<pipeline, Validators, QueuedKeys>>
  BY Typing DEF OtherTypes, leave_candidate, pipeline, session
<1>5. ProposedCandidates' = Amend(ProposedCandidates, d)
  BY <1>1
<1> HIDE DEF d
<1> QED  BY <1>3, <1>4, <1>5, AmendStep

LEMMA CorrectionStep ==
  ASSUME IndInv, NEW who \in Accounts, NEW v \in Nat, bond_correction(who, v)
  PROVE  IndInv'
<1>1. PICK c \in Range(ProposedCandidates) :
        /\ c.who = who
        /\ ProposedCandidates' =
             Amend(ProposedCandidates, [c EXCEPT !.bond = 0, !.last_updated = block_number])
  BY DEF bond_correction
<1> DEFINE d == [c EXCEPT !.bond = 0, !.last_updated = block_number]
<1>2. block_number \in Nat /\ c \in CandidateInfo
  BY Typing
<1>3. d \in CandidateInfo /\ d.who = c.who /\ d.status = c.status /\ d.bond = 0
  BY <1>2 DEF CandidateInfo
<1>4. account' \in [Accounts -> AccountData]
  BY Typing, UnreserveType DEF bond_correction
<1>5. OtherTypes' /\ UNCHANGED <<pipeline, Validators, QueuedKeys>>
  BY <1>4, Typing DEF OtherTypes, bond_correction, pipeline, session
<1>6. ProposedCandidates' = Amend(ProposedCandidates, d) /\ OutOfPipeline(d.who)
  BY <1>1, <1>3 DEF bond_correction
<1> HIDE DEF d
<1> QED  BY <1>3, <1>5, <1>6, AmendStep

(* The delegations of one candidate after a change, and their sum.         *)
LEMMA AddType ==
  ASSUME NEW f, IsDelegations(f), NEW who \in Accounts, NEW amount \in Nat,
         who \in DOMAIN f \/ Cardinality(DOMAIN f) < MaxDelegationsPerCandidate
  PROVE  IsDelegations(AddDelegation(f, who, amount))
<1> DEFINE h == AddDelegation(f, who, amount)
<1>1. DOMAIN h = DOMAIN f \union {who} /\ h \in [DOMAIN h -> Nat]
  BY DEF AddDelegation, IsDelegations
<1>2. /\ IsFiniteSet(DOMAIN f \union {who})
      /\ Cardinality(DOMAIN f \union {who}) <= MaxDelegationsPerCandidate
  <2>1. CASE who \in DOMAIN f
    <3>1. DOMAIN f \union {who} = DOMAIN f
      BY <2>1
    <3> QED  BY <3>1 DEF IsDelegations
  <2>2. CASE who \notin DOMAIN f
    <3>1. IsFiniteSet(DOMAIN f) /\ Cardinality(DOMAIN f) \in Nat
      BY FS_CardinalityType DEF IsDelegations
    <3>2. /\ IsFiniteSet(DOMAIN f \union {who})
          /\ Cardinality(DOMAIN f \union {who}) = Cardinality(DOMAIN f) + 1
      BY <2>2, <3>1, FS_AddElement
    <3> QED  BY <2>2, <3>1, <3>2, ConfigAssumption
  <2> QED  BY <2>1, <2>2
<1> HIDE DEF h
<1>3. DOMAIN h \subseteq Accounts
  BY <1>1 DEF IsDelegations
<1>4. IsDelegations(h)
  BY <1>1, <1>2, <1>3 DEF IsDelegations
<1> QED  BY <1>4 DEF h

LEMMA RemoveType ==
  ASSUME NEW f, IsDelegations(f), NEW who
  PROVE  IsDelegations(RemoveDelegation(f, who))
<1> DEFINE h == RemoveDelegation(f, who)
<1>1. DOMAIN h \in SUBSET DOMAIN f /\ h \in [DOMAIN h -> Nat]
  BY DEF RemoveDelegation, IsDelegations
<1> HIDE DEF h
<1>2. IsFiniteSet(DOMAIN h) /\ Cardinality(DOMAIN h) <= Cardinality(DOMAIN f)
  BY <1>1, FS_Subset DEF IsDelegations
<1>3. Cardinality(DOMAIN h) \in Nat /\ Cardinality(DOMAIN f) \in Nat
  BY <1>2, FS_CardinalityType DEF IsDelegations
<1>4. Cardinality(DOMAIN h) <= MaxDelegationsPerCandidate
  BY <1>2, <1>3, ConfigAssumption DEF IsDelegations
<1>5. IsDelegations(h)
  BY <1>1, <1>2, <1>4 DEF IsDelegations
<1> QED  BY <1>5 DEF h

(* What stake_candidate and unstake_candidate have in common.              *)
LEMMA RecomputeStep ==
  ASSUME IndInv, NEW candidate \in Accounts, NEW STATE f, IsDelegations(f),
         recompute_total_stake(candidate, f),
         Delegations' = [Delegations EXCEPT ![candidate] = f],
         account' \in [Accounts -> AccountData],
         UNCHANGED <<pipeline, ActualAuthors, session, block_number>>
  PROVE  IndInv'
<1>1. PICK c \in Range(ProposedCandidates) :
        ProposedCandidates' = sort_proposed_candidates(
          Amend(ProposedCandidates, [c EXCEPT !.total_stake = Total(f),
                                              !.last_updated = block_number]))
  BY DEF recompute_total_stake
<1> DEFINE d == [c EXCEPT !.total_stake = Total(f), !.last_updated = block_number]
<1>2. block_number \in Nat /\ c \in CandidateInfo
  BY Typing
<1>3. Total(f) \in Nat
  BY TotalNat DEF IsDelegations
<1>4. d \in CandidateInfo /\ d.who = c.who /\ d.status = c.status /\ d.bond = c.bond
  BY <1>2, <1>3 DEF CandidateInfo
<1>5. /\ DOMAIN Delegations' = Accounts
      /\ \A a \in Accounts : IsDelegations(Delegations'[a])
  <2>1. DOMAIN Delegations = Accounts /\ \A a \in Accounts : IsDelegations(Delegations[a])
    BY Typing DEF OtherTypes
  <2>2. \A a \in Accounts : Delegations'[a] = IF a = candidate THEN f ELSE Delegations[a]
    BY <2>1
  <2> QED  BY <2>1, <2>2, Zenon
<1>6. OtherTypes' /\ UNCHANGED <<pipeline, Validators, QueuedKeys>>
  BY <1>5, Typing DEF OtherTypes, pipeline, session, IsDelegations
<1>7. ProposedCandidates' = sort_proposed_candidates(Amend(ProposedCandidates, d))
  BY <1>1
<1> HIDE DEF d
<1> QED  BY <1>4, <1>6, <1>7, AmendStep

LEMMA StakeStep ==
  ASSUME IndInv, NEW who \in Accounts, NEW candidate \in Accounts, NEW amount \in Nat,
         stake_candidate(who, candidate, amount)
  PROVE  IndInv'
<1> DEFINE f == AddDelegation(Delegations[candidate], who, amount)
<1>1. IsDelegations(Delegations[candidate])
  BY Typing DEF OtherTypes
<1>2. IsDelegations(f)
  BY <1>1, AddType DEF stake_candidate
<1>3. account' \in [Accounts -> AccountData]
  BY Typing, ReserveType DEF stake_candidate
<1>4. /\ recompute_total_stake(candidate, f)
      /\ Delegations' = [Delegations EXCEPT ![candidate] = f]
      /\ UNCHANGED <<pipeline, ActualAuthors, session, block_number>>
  BY DEF stake_candidate
<1> HIDE DEF f
<1> QED  BY <1>2, <1>3, <1>4, RecomputeStep

LEMMA UnstakeStep ==
  ASSUME IndInv, NEW who \in Accounts, NEW candidate \in Accounts,
         unstake_candidate(who, candidate)
  PROVE  IndInv'
<1> DEFINE f == RemoveDelegation(Delegations[candidate], who)
<1>1. IsDelegations(Delegations[candidate])
  BY Typing DEF OtherTypes
<1>2. IsDelegations(f)
  BY <1>1, RemoveType
<1>3. Delegations[candidate][who] \in Nat
  BY <1>1 DEF IsDelegations, unstake_candidate
<1>4. account' \in [Accounts -> AccountData]
  BY <1>3, Typing, UnreserveType DEF unstake_candidate
<1>5. /\ recompute_total_stake(candidate, f)
      /\ Delegations' = [Delegations EXCEPT ![candidate] = f]
      /\ UNCHANGED <<pipeline, ActualAuthors, session, block_number>>
  BY DEF unstake_candidate
<1> HIDE DEF f
<1> QED  BY <1>2, <1>4, <1>5, RecomputeStep

(* The calls of the session pallet touch only NextKeys.                    *)
LEMMA KeyStep ==
  ASSUME IndInv, NEW who \in Accounts, set_keys(who) \/ purge_keys(who)
  PROVE  IndInv'
<1>1. /\ NextKeys' \subseteq Accounts
      /\ UNCHANGED <<account, ProposedCandidates, pipeline, Delegations, ActualAuthors,
                     Validators, QueuedKeys, block_number>>
  BY Typing DEF OtherTypes, set_keys, purge_keys
<1>2. OtherTypes'
  BY <1>1, Typing DEF OtherTypes, pipeline
<1>3. ListInv'
  BY <1>1, SplitIndInv DEF ListInv, pipeline
<1> QED  BY <1>2, <1>3, SplitIndInvNext

-----------------------------------------------------------------------------
(* The start of a block.                                                   *)

LEMMA TimeEdits ==
  ASSUME NEW c \in CandidateInfo, NEW now \in Nat
  PROVE  /\ Authored(c, now) \in CandidateInfo
         /\ Authored(c, now).who = c.who
         /\ Authored(c, now).bond = c.bond
         /\ Authored(c, now).status = c.status
         /\ TakenOffline(c, now) \in CandidateInfo
         /\ TakenOffline(c, now).who = c.who
         /\ TakenOffline(c, now).bond = c.bond
         /\ TakenOffline(c, now).status = c.status
BY DEF CandidateInfo, Authored, TakenOffline

LEMMA StatusEdits ==
  ASSUME NEW c \in CandidateInfo, NEW status \in Status
  PROVE  /\ WithStatus(c, status) \in CandidateInfo
         /\ WithStatus(c, status).who = c.who
         /\ WithStatus(c, status).bond = c.bond
         /\ WithStatus(c, status).status = status
BY DEF CandidateInfo, WithStatus

(* What every change of the list during a block keeps: the accounts, the
   bonds and the number of candidates.                                     *)
CandidatesOK(s) ==
  /\ s \in Seq(CandidateInfo) /\ Len(s) <= MaxCandidates
  /\ UniqueWho(s)
  /\ \A i \in DOMAIN s : s[i] \in CandidateInfo
  /\ \A c \in Range(s) : c.bond = 0 \/ c.bond >= MinCandidateBond
  /\ \A c \in Range(s) : c.status # "Offline"

(* Every guarded account of X is a candidate with a bond.                  *)
BondedIn(s, X) == \A who \in X \ Desired : \E c \in Range(s) : c.who = who /\ c.bond # 0

LEMMA InPlace ==
  ASSUME NEW s, CandidatesOK(s), NEW X, BondedIn(s, X),
         NEW t, t = [i \in DOMAIN s |-> t[i]],
         \A i \in DOMAIN s : /\ t[i] \in CandidateInfo
                             /\ t[i].who = s[i].who
                             /\ t[i].bond = s[i].bond
                             /\ t[i].status # "Offline"
  PROVE  CandidatesOK(t) /\ BondedIn(t, X) /\ DOMAIN t = DOMAIN s
<1>1. /\ t \in Seq(CandidateInfo) /\ Len(t) = Len(s) /\ DOMAIN t = DOMAIN s
      /\ UniqueWho(t)
  BY MapLemma DEF CandidatesOK
<1>2. \A c \in Range(t) : c.bond = 0 \/ c.bond >= MinCandidateBond
  BY <1>1 DEF CandidatesOK, Range
<1>3. \A c \in Range(t) : c.status # "Offline"
  BY <1>1 DEF Range
<1>4. BondedIn(t, X)
  BY <1>1 DEF BondedIn, Range
<1> QED  BY <1>1, <1>2, <1>3, <1>4 DEF CandidatesOK

LEMMA StageParts ==
  ASSUME NEW s, NEW W, NEW I, NEW Q, NEW V
  PROVE  StageInv(s, W, I, Q, V) <=>
           /\ CandidatesOK(s)
           /\ BondedIn(s, W \union I \union V)
           /\ Q \subseteq I
           /\ Desired \subseteq W \intersect I
           /\ \A c \in Range(s) : c.who \notin Desired =>
                /\ c.who \in W => c.status \in {"Waiting", "Queuing", "Authoring"}
                /\ c.who \in I => c.status = "Authoring"
                /\ c.who \in V => c.status \in {"Queuing", "Authoring"}
<1>1. s \in Seq(CandidateInfo) => \A i \in DOMAIN s : s[i] \in CandidateInfo
  BY LenProperties
<1> QED  BY <1>1 DEF StageInv, CandidatesOK, BondedIn

(* record_authored_block changes neither account, bond nor status.         *)
LEMMA RecordStage ==
  ASSUME NEW s, NEW W, NEW I, NEW Q, NEW V, StageInv(s, W, I, Q, V),
         NEW authors, NEW now \in Nat
  PROVE  StageInv(record_authored_block(s, authors, now), W, I, Q, V)
<1> DEFINE t == record_authored_block(s, authors, now)
           X == W \union I \union V
<1>1. CandidatesOK(s) /\ BondedIn(s, X)
  BY StageParts
<1>2. /\ t = [i \in DOMAIN s |-> t[i]]
      /\ \A i \in DOMAIN s :
           t[i] = IF s[i].who \in authors THEN Authored(s[i], now) ELSE s[i]
  BY DEF record_authored_block
<1> HIDE DEF t
<1>3. \A i \in DOMAIN s : /\ t[i] \in CandidateInfo
                          /\ t[i].who = s[i].who
                          /\ t[i].bond = s[i].bond
                          /\ t[i].status = s[i].status
  BY <1>1, <1>2, TimeEdits DEF CandidatesOK
<1>4. \A i \in DOMAIN s : t[i].status # "Offline"
  BY <1>1, <1>3 DEF CandidatesOK, Range
<1>5. CandidatesOK(t) /\ BondedIn(t, X) /\ DOMAIN t = DOMAIN s
  BY <1>1, <1>2, <1>3, <1>4, InPlace
<1>6. \A d \in Range(t) : \E c \in Range(s) : c.who = d.who /\ c.status = d.status
  BY <1>3, <1>5 DEF Range
<1>7. StageInv(t, W, I, Q, V)
  BY <1>5, <1>6, StageParts
<1> QED  BY <1>7 DEF t

LEMMA AuthorsOK ==
  ASSUME IndInv, NEW authors \in BlockAuthors
  PROVE  authors \subseteq Accounts /\ add_actual_author(authors) \subseteq Accounts
<1>1. Validators \in Seq(Accounts) /\ ActualAuthors \subseteq Accounts
  BY Typing DEF OtherTypes
<1>2. Range(Validators) \subseteq Accounts
  BY <1>1, LenProperties DEF Range
<1>3. authors \subseteq Accounts
  BY <1>2 DEF BlockAuthors
<1> QED  BY <1>1, <1>3 DEF add_actual_author

LEMMA BlockStep ==
  ASSUME IndInv, NEW authors \in BlockAuthors, Block(authors)
  PROVE  IndInv'
<1>1. ListInv /\ block_number + 1 \in Nat
  BY SplitIndInv, Typing
<1>2. ListInv'
  BY <1>1, RecordStage DEF ListInv, Block, pipeline, session
<1>3. OtherTypes'
  BY <1>1, Typing, AuthorsOK DEF OtherTypes, Block, pipeline, session
<1> QED  BY <1>2, <1>3, SplitIndInvNext

-----------------------------------------------------------------------------
(* The end of a session, step by step.  W, I and Q are the accounts waiting,
   in Invulnerables and queued before it.                                  *)

(* After queue_authors: who waited is at least Queuing.                    *)
QueuedInv(s, W, I) ==
  /\ CandidatesOK(s)
  /\ BondedIn(s, W \union I)
  /\ \A c \in Range(s) : c.who \notin Desired =>
       /\ c.who \in W => c.status \in {"Queuing", "Authoring"}
       /\ c.who \in I => c.status = "Authoring"

LEMMA QueueLemma ==
  ASSUME NEW s, NEW waiting, NEW I, NEW Q, NEW V, StageInv(s, Range(waiting), I, Q, V)
  PROVE  QueuedInv(queue_authors(s, waiting), Range(waiting), I)
<1> DEFINE t == queue_authors(s, waiting)
           W == Range(waiting)
<1>1. /\ CandidatesOK(s) /\ BondedIn(s, W \union I)
      /\ \A c \in Range(s) : c.who \notin Desired =>
           /\ c.who \in W => c.status \in {"Waiting", "Queuing", "Authoring"}
           /\ c.who \in I => c.status = "Authoring"
  BY StageParts DEF BondedIn
<1>2. /\ t = [i \in DOMAIN s |-> t[i]]
      /\ \A i \in DOMAIN s :
           t[i] = IF s[i].status = "Waiting" /\ s[i].who \in W
                  THEN WithStatus(s[i], "Queuing") ELSE s[i]
  BY DEF queue_authors
<1> HIDE DEF t, W
<1>3. \A i \in DOMAIN s : s[i] \in CandidateInfo /\ s[i] \in Range(s)
  BY <1>1 DEF CandidatesOK, Range
<1>4. "Queuing" \in Status
  BY DEF Status
<1>5. \A i \in DOMAIN s : /\ t[i] \in CandidateInfo
                          /\ t[i].who = s[i].who
                          /\ t[i].bond = s[i].bond
                          /\ t[i].status =
                               IF s[i].status = "Waiting" /\ s[i].who \in W
                               THEN "Queuing" ELSE s[i].status
  BY <1>2, <1>3, <1>4, StatusEdits
<1>6. \A i \in DOMAIN s : t[i].status # "Offline"
  BY <1>1, <1>3, <1>5 DEF CandidatesOK
<1>7. CandidatesOK(t) /\ BondedIn(t, W \union I) /\ DOMAIN t = DOMAIN s
  BY <1>1, <1>2, <1>5, <1>6, InPlace
<1>8. ASSUME NEW d \in Range(t), d.who \notin Desired
      PROVE  /\ d.who \in W => d.status \in {"Queuing", "Authoring"}
             /\ d.who \in I => d.status = "Authoring"
  <2>1. PICK i \in DOMAIN s : d = t[i]
    BY <1>7 DEF Range
  <2> QED  BY <1>1, <1>3, <1>5, <1>8, <2>1
<1>9. QueuedInv(t, W, I)
  BY <1>7, <1>8 DEF QueuedInv
<1> QED  BY <1>9 DEF t, W

(* slash_stale_authors changes neither account, bond nor status.           *)
LEMMA SlashLemma ==
  ASSUME NEW s, NEW W, NEW I, QueuedInv(s, W, I), NEW authors, NEW now \in Nat
  PROVE  QueuedInv(slash_stale_authors(s, authors, now), W, I)
<1> DEFINE t == MarkStale(s, authors, now)
           u == sort_proposed_candidates(t)
<1>1. CandidatesOK(s) /\ BondedIn(s, W \union I)
  BY DEF QueuedInv
<1>2. /\ t = [i \in DOMAIN s |-> t[i]]
      /\ \A i \in DOMAIN s :
           t[i] = IF IsStale(s[i], authors, now) THEN TakenOffline(s[i], now) ELSE s[i]
  BY DEF MarkStale
<1> HIDE DEF t
<1>3. \A i \in DOMAIN s : /\ t[i] \in CandidateInfo
                          /\ t[i].who = s[i].who
                          /\ t[i].bond = s[i].bond
                          /\ t[i].status = s[i].status
  BY <1>1, <1>2, TimeEdits DEF CandidatesOK
<1>4. \A i \in DOMAIN s : t[i].status # "Offline"
  BY <1>1, <1>3 DEF CandidatesOK, Range
<1>5. CandidatesOK(t) /\ BondedIn(t, W \union I) /\ DOMAIN t = DOMAIN s
  BY <1>1, <1>2, <1>3, <1>4, InPlace
<1>6. \A d \in Range(t) : \E c \in Range(s) : c.who = d.who /\ c.status = d.status
  BY <1>3, <1>5 DEF Range
<1>7. u \in Seq(CandidateInfo) /\ Len(u) <= Len(t) /\ Range(u) = Range(t) /\ UniqueWho(u)
  BY <1>5, SortLemma DEF CandidatesOK
<1> HIDE DEF u
<1>8. Len(u) <= MaxCandidates /\ \A i \in DOMAIN u : u[i] \in CandidateInfo
  BY <1>5, <1>7, LenProperties, ConfigAssumption DEF CandidatesOK
<1>9. CandidatesOK(u) /\ BondedIn(u, W \union I)
  BY <1>5, <1>7, <1>8 DEF CandidatesOK, BondedIn
<1>10. QueuedInv(u, W, I)
  BY <1>6, <1>7, <1>9 DEF QueuedInv
<1> QED  BY <1>10 DEF slash_stale_authors, t, u

(* After prepare_next_waiting_list: nobody who waited or was in Invulnerables
   has been dropped, and who was in Invulnerables is at least Queuing.     *)
PreparedInv(s, W, I) ==
  /\ CandidatesOK(s)
  /\ BondedIn(s, W \union I)
  /\ \A c \in Range(s) : c.who \in I \ Desired => c.status \in {"Queuing", "Authoring"}

LEMMA PrepareLemma ==
  ASSUME NEW s, NEW W, NEW I, QueuedInv(s, W, I)
  PROVE  PreparedInv(prepare_next_waiting_list(s), W, I)
<1> DEFINE K == {i \in DOMAIN s : Kept(s[i])}
           k == Retain(s, K)
           t == [i \in DOMAIN k |-> Downgraded(k[i])]
<1>0. t = [i \in DOMAIN k |-> t[i]] /\ \A i \in DOMAIN k : t[i] = Downgraded(k[i])
  OBVIOUS
<1> HIDE DEF t, k, K
<1>1. /\ CandidatesOK(s) /\ BondedIn(s, W \union I)
      /\ K \in SUBSET DOMAIN s
      /\ s \in Seq(CandidateInfo) /\ Len(s) \in Nat /\ Len(s) <= MaxCandidates
  BY LenProperties DEF QueuedInv, CandidatesOK, K
<1>2. /\ k \in Seq(CandidateInfo)
      /\ Len(k) <= Len(s)
      /\ Range(k) = {s[i] : i \in K}
      /\ \E p \in Injection(DOMAIN k, K) : \A j \in DOMAIN k : k[j] = s[p[j]]
  BY <1>1, RetainLemma DEF k
<1>3. UniqueWho(k)
  BY <1>1, <1>2, UniqueFromInjection, Zenon DEF CandidatesOK
<1>4. \A c : c \in Range(k) <=> c \in Range(s) /\ Kept(c)
  BY <1>2 DEF Range, K
<1>5. Len(k) <= MaxCandidates /\ \A i \in DOMAIN k : k[i] \in CandidateInfo
  BY <1>1, <1>2, LenProperties, ConfigAssumption
<1>6. CandidatesOK(k)
  BY <1>1, <1>2, <1>3, <1>4, <1>5 DEF CandidatesOK
<1>7. BondedIn(k, W \union I)
  <2> SUFFICES ASSUME NEW who \in (W \union I) \ Desired
               PROVE  \E c \in Range(k) : c.who = who /\ c.bond # 0
    BY DEF BondedIn
  <2>1. PICK c \in Range(s) : c.who = who /\ c.bond # 0
    BY <1>1 DEF BondedIn
  <2>2. c.status \in {"Queuing", "Authoring"}
    BY <2>1 DEF QueuedInv
  <2> QED  BY <1>4, <2>1, <2>2 DEF Kept
<1>9. "Queuing" \in Status /\ "Waiting" \in Status
  BY DEF Status
<1>10. \A i \in DOMAIN k : /\ t[i] \in CandidateInfo
                           /\ t[i].who = k[i].who
                           /\ t[i].bond = k[i].bond
                           /\ t[i].status \in {k[i].status, "Queuing", "Waiting"}
                           /\ k[i].status = "Authoring" => t[i].status \in {"Queuing", "Authoring"}
  BY <1>0, <1>5, <1>9, StatusEdits DEF Downgraded
<1>11. \A i \in DOMAIN k : t[i].status # "Offline"
  BY <1>6, <1>10 DEF CandidatesOK, Range
<1>12. CandidatesOK(t) /\ BondedIn(t, W \union I) /\ DOMAIN t = DOMAIN k
  BY <1>0, <1>6, <1>7, <1>10, <1>11, InPlace
<1>13. ASSUME NEW d \in Range(t), d.who \in I \ Desired
       PROVE  d.status \in {"Queuing", "Authoring"}
  <2>1. PICK i \in DOMAIN k : d = t[i]
    BY <1>12 DEF Range
  <2>2. k[i] \in Range(s) /\ k[i].who = d.who
    BY <1>4, <1>10, <2>1 DEF Range
  <2>3. k[i].status = "Authoring"
    BY <1>13, <2>2 DEF QueuedInv
  <2> QED  BY <1>10, <2>1, <2>3
<1>14. PreparedInv(t, W, I)
  BY <1>12, <1>13 DEF PreparedInv
<1> QED  BY <1>14 DEF prepare_next_waiting_list, t, k, K

(* The candidates chosen are fit and not desired, and fit behind the desired
   ones.                                                                   *)
LEMMA ChosenLemma ==
  ASSUME NEW s \in Seq(CandidateInfo)
  PROVE  /\ Chosen(s) \in Seq(CandidateInfo)
         /\ Len(DesiredCandidates) + Len(Chosen(s)) <= MaxCandidates
         /\ \A c \in Range(Chosen(s)) : c \in Range(s) /\ Fit(c) /\ c.who \notin Desired
<1> DEFINE F == {i \in DOMAIN s : Fit(s[i]) /\ s[i].who \notin Desired}
           fit == Retain(s, F)
           room == MaxCandidates - Len(DesiredCandidates)
           n == MinOf(Len(fit), room)
<1> HIDE DEF F
<1>1. F \in SUBSET DOMAIN s
  BY DEF F
<1>2. fit \in Seq(CandidateInfo) /\ Range(fit) = {s[i] : i \in F}
  BY <1>1, RetainLemma
<1> HIDE DEF fit
<1>3. room \in Nat /\ Len(DesiredCandidates) \in Nat
  BY DesiredAssumption, ConfigAssumption, LenProperties
<1>4. Len(fit) \in Nat /\ DOMAIN fit = 1 .. Len(fit)
  BY <1>2, LenProperties
<1>5. n \in Nat /\ n <= room /\ n <= Len(fit)
  BY <1>3, <1>4 DEF MinOf
<1>6. Chosen(s) = SubSeq(fit, 1, n)
  BY DEF Chosen, F, fit
<1> HIDE DEF n
<1>7. \A i \in 1 .. n : fit[i] \in CandidateInfo
  BY <1>2, <1>4, <1>5, LenProperties
<1>8. /\ Chosen(s) \in Seq(CandidateInfo)
      /\ Len(Chosen(s)) = n
      /\ \A i \in 1 .. n : Chosen(s)[i] = fit[i]
  <2>1. /\ SubSeq(fit, 1, n) \in Seq(CandidateInfo)
        /\ Len(SubSeq(fit, 1, n)) = IF 1 <= n THEN n - 1 + 1 ELSE 0
        /\ \A i \in 1 .. n - 1 + 1 : SubSeq(fit, 1, n)[i] = fit[1 + i - 1]
    BY <1>5, <1>7, SubSeqProperties
  <2> QED  BY <1>5, <1>6, <2>1
<1>9. \A c \in Range(Chosen(s)) : c \in Range(fit)
  BY <1>4, <1>5, <1>8, LenProperties DEF Range
<1>10. \A c \in Range(fit) : c \in Range(s) /\ Fit(c) /\ c.who \notin Desired
  BY <1>2 DEF Range, F
<1>11. Len(DesiredCandidates) + n <= MaxCandidates
  BY <1>3, <1>5, ConfigAssumption
<1> QED  BY <1>8, <1>9, <1>10, <1>11

LEMMA RefreshLemma ==
  ASSUME NEW s \in Seq(CandidateInfo)
  PROVE  /\ refresh_waiting_list(s) \in Seq(Accounts)
         /\ Len(refresh_waiting_list(s)) <= MaxCandidates
         /\ Range(refresh_waiting_list(s)) = Desired \union {c.who : c \in Range(Chosen(s))}
<1> DEFINE ch == Chosen(s)
           names == [k \in DOMAIN ch |-> ch[k].who]
           w == DesiredCandidates \o names
<1>1. ch \in Seq(CandidateInfo) /\ Len(DesiredCandidates) + Len(ch) <= MaxCandidates
  BY ChosenLemma
<1> HIDE DEF ch
<1>2. Len(ch) \in Nat /\ DOMAIN ch = 1 .. Len(ch) /\ \A k \in DOMAIN ch : ch[k].who \in Accounts
  <2>1. Len(ch) \in Nat /\ DOMAIN ch = 1 .. Len(ch) /\ \A k \in DOMAIN ch : ch[k] \in CandidateInfo
    BY <1>1, LenProperties
  <2>2. \A c \in CandidateInfo : c.who \in Accounts
    BY DEF CandidateInfo
  <2> QED  BY <2>1, <2>2
<1>3. names \in [1 .. Len(ch) -> Accounts]
  BY <1>2
<1>4. names \in Seq(Accounts) /\ Len(names) = Len(ch) /\ DOMAIN names = DOMAIN ch
  BY <1>2, <1>3
<1>5. \A k \in DOMAIN ch : names[k] = ch[k].who
  OBVIOUS
<1> HIDE DEF names
<1>6. DesiredCandidates \in Seq(Accounts) /\ Len(DesiredCandidates) \in Nat
      /\ DOMAIN DesiredCandidates = 1 .. Len(DesiredCandidates)
  BY DesiredAssumption, LenProperties
<1>7. /\ w \in Seq(Accounts)
      /\ Len(w) = Len(DesiredCandidates) + Len(names)
      /\ \A i \in 1 .. Len(DesiredCandidates) + Len(names) :
           w[i] = IF i <= Len(DesiredCandidates) THEN DesiredCandidates[i]
                  ELSE names[i - Len(DesiredCandidates)]
  BY <1>4, <1>6, ConcatProperties
<1> HIDE DEF w
<1>8. DOMAIN w = 1 .. Len(DesiredCandidates) + Len(ch)
  BY <1>4, <1>7, LenProperties
<1>9. Range(w) \subseteq Desired \union {c.who : c \in Range(ch)}
  <2> SUFFICES ASSUME NEW i \in DOMAIN w
               PROVE  w[i] \in Desired \union {c.who : c \in Range(ch)}
    BY DEF Range
  <2>1. CASE i <= Len(DesiredCandidates)
    <3>1. i \in DOMAIN DesiredCandidates /\ w[i] = DesiredCandidates[i]
      BY <1>4, <1>6, <1>7, <1>8, <2>1
    <3> QED  BY <3>1 DEF Desired, Range
  <2>2. CASE i > Len(DesiredCandidates)
    <3>1. /\ i - Len(DesiredCandidates) \in DOMAIN ch
          /\ w[i] = ch[i - Len(DesiredCandidates)].who
      BY <1>2, <1>4, <1>5, <1>6, <1>7, <1>8, <2>2
    <3> QED  BY <3>1 DEF Range
  <2> QED  BY <1>2, <1>6, <1>8, <2>1, <2>2
<1>10. Desired \subseteq Range(w)
  <2>1. \A i \in DOMAIN DesiredCandidates : i \in DOMAIN w /\ w[i] = DesiredCandidates[i]
    BY <1>2, <1>4, <1>6, <1>7, <1>8
  <2> QED  BY <2>1 DEF Desired, Range
<1>11. {c.who : c \in Range(ch)} \subseteq Range(w)
  <2>1. \A k \in DOMAIN ch : /\ Len(DesiredCandidates) + k \in DOMAIN w
                             /\ w[Len(DesiredCandidates) + k] = ch[k].who
    BY <1>2, <1>4, <1>5, <1>6, <1>7, <1>8
  <2> QED  BY <2>1 DEF Range
<1>12. Len(w) <= MaxCandidates
  BY <1>1, <1>4, <1>7
<1> QED  BY <1>7, <1>9, <1>10, <1>11, <1>12 DEF refresh_waiting_list, w, names, ch

(* The list at the end of the session change.                              *)
LEMMA NewSessionLemma ==
  ASSUME NEW s, NEW inv, NEW I, NEW Q, NEW Q2,
         PreparedInv(s, Range(inv), I), Q \subseteq I, Q2 \subseteq Range(inv),
         Desired \subseteq Range(inv)
  PROVE  StageInv(new_session(MarkWaiting(s), inv),
                  Range(refresh_waiting_list(s)), Range(inv), Q2, Q)
<1> DEFINE m == MarkWaiting(s)
           t == new_session(m, inv)
           W == Range(inv)
           W2 == Range(refresh_waiting_list(s))
           X == W2 \union W \union Q
<1>1. /\ CandidatesOK(s) /\ s \in Seq(CandidateInfo)
      /\ \A i \in DOMAIN s : s[i] \in CandidateInfo /\ s[i] \in Range(s)
  BY DEF PreparedInv, CandidatesOK, Range
<1>2. \A c \in Range(Chosen(s)) : c \in Range(s) /\ Fit(c) /\ c.who \notin Desired
  BY <1>1, ChosenLemma
<1>3. W2 = Desired \union {c.who : c \in Range(Chosen(s))}
  BY <1>1, RefreshLemma
<1>4. /\ m = [i \in DOMAIN s |-> m[i]]
      /\ \A i \in DOMAIN s :
           m[i] = IF s[i] \in Range(Chosen(s)) /\ s[i].status = "Online"
                  THEN WithStatus(s[i], "Waiting") ELSE s[i]
  BY DEF MarkWaiting
<1> HIDE DEF m
<1>5. /\ t = [i \in DOMAIN m |-> t[i]]
      /\ \A i \in DOMAIN m :
           t[i] = IF m[i].who \in W THEN WithStatus(m[i], "Authoring") ELSE m[i]
  BY DEF new_session
<1> HIDE DEF t, W, W2, X
<1>6. "Waiting" \in Status /\ "Authoring" \in Status
  BY DEF Status
<1>7. BondedIn(s, X)
  <2> SUFFICES ASSUME NEW who \in X \ Desired
               PROVE  \E c \in Range(s) : c.who = who /\ c.bond # 0
    BY DEF BondedIn
  <2>1. CASE who \in W2
    BY <1>2, <1>3, <2>1 DEF Fit
  <2>2. CASE who \in W \union I
    BY <2>2 DEF PreparedInv, BondedIn, W
  <2> QED  BY <2>1, <2>2 DEF X
<1>8. \A i \in DOMAIN s : /\ m[i] \in CandidateInfo
                          /\ m[i].who = s[i].who
                          /\ m[i].bond = s[i].bond
                          /\ m[i].status =
                               IF s[i] \in Range(Chosen(s)) /\ s[i].status = "Online"
                               THEN "Waiting" ELSE s[i].status
  BY <1>1, <1>4, <1>6, StatusEdits
<1>9. DOMAIN m = DOMAIN s
  BY <1>4
<1>10. \A i \in DOMAIN s : /\ t[i] \in CandidateInfo
                           /\ t[i].who = s[i].who
                           /\ t[i].bond = s[i].bond
                           /\ t[i].status =
                                IF s[i].who \in W THEN "Authoring" ELSE m[i].status
  BY <1>5, <1>6, <1>8, <1>9, StatusEdits
<1>11. \A i \in DOMAIN s : s[i].status # "Offline"
  BY <1>1 DEF CandidatesOK
<1>12. \A i \in DOMAIN s : t[i].status # "Offline"
  BY <1>8, <1>10, <1>11
<1>13. CandidatesOK(t) /\ BondedIn(t, X) /\ DOMAIN t = DOMAIN s
  BY <1>1, <1>5, <1>7, <1>9, <1>10, <1>12, InPlace
<1>14. ASSUME NEW d \in Range(t), d.who \notin Desired
       PROVE  /\ d.who \in W2 => d.status \in {"Waiting", "Queuing", "Authoring"}
              /\ d.who \in W => d.status = "Authoring"
              /\ d.who \in Q => d.status \in {"Queuing", "Authoring"}
  <2>1. PICK i \in DOMAIN s : d = t[i]
    BY <1>13 DEF Range
  <2>2. d.who \in W => d.status = "Authoring"
    BY <1>10, <2>1
  <2>3. ASSUME d.who \in W2
        PROVE  d.status \in {"Waiting", "Queuing", "Authoring"}
    <3>1. PICK c \in Range(Chosen(s)) : c.who = d.who
      BY <1>3, <1>14, <2>3
    <3>2. s[i] = c
      BY <1>1, <1>2, <1>10, <2>1, <3>1 DEF CandidatesOK, UniqueWho, Range
    <3>3. m[i].status \in {"Waiting", "Queuing", "Authoring"}
      <4>1. s[i].status \in Status
        BY <1>1 DEF CandidateInfo
      <4> QED  BY <1>8, <1>11, <3>1, <3>2, <4>1 DEF Status
    <3> QED  BY <1>10, <2>1, <3>3
  <2>4. ASSUME d.who \in Q
        PROVE  d.status \in {"Queuing", "Authoring"}
    <3>1. s[i].who \in I \ Desired
      BY <1>10, <1>14, <2>1, <2>4
    <3>2. s[i].status \in {"Queuing", "Authoring"}
      BY <1>1, <3>1 DEF PreparedInv
    <3> QED  BY <1>8, <1>10, <2>1, <3>2
  <2> QED  BY <2>2, <2>3, <2>4
<1>15. Desired \subseteq W2 \intersect W /\ Q2 \subseteq W
  BY <1>3 DEF W
<1>16. StageInv(t, W2, W, Q2, Q)
  BY <1>13, <1>14, <1>15, StageParts DEF X
<1> QED  BY <1>16 DEF t, m, W, W2

LEMMA HasKeysLemma ==
  ASSUME NEW v \in Seq(Accounts)
  PROVE  /\ HasKeys(v) \in Seq(Accounts)
         /\ Len(HasKeys(v)) <= Len(v)
         /\ Range(HasKeys(v)) \subseteq Range(v)
<1> DEFINE K == {i \in DOMAIN v : v[i] \in NextKeys}
<1>1. K \in SUBSET DOMAIN v
  OBVIOUS
<1> HIDE DEF K
<1>2. /\ Retain(v, K) \in Seq(Accounts)
      /\ Len(Retain(v, K)) <= Len(v)
      /\ Range(Retain(v, K)) = {v[i] : i \in K}
  BY <1>1, RetainLemma
<1>3. {v[i] : i \in K} \subseteq Range(v)
  BY <1>1 DEF Range
<1> QED  BY <1>2, <1>3 DEF HasKeys, K

LEMMA SessionBlockStep ==
  ASSUME IndInv, NEW authors \in BlockAuthors, SessionBlock(authors)
  PROVE  IndInv'
<1> DEFINE now == block_number + 1
           W == Range(WaitingCandidates)
           I == Range(Invulnerables)
           Q == Range(QueuedKeys)
           r == record_authored_block(ProposedCandidates, authors, now)
           q == queue_authors(r, WaitingCandidates)
           s == slash_stale_authors(q, add_actual_author(authors), now)
           p == prepare_next_waiting_list(s)
<1>1. now \in Nat /\ OtherTypes /\ StageInv(ProposedCandidates, W, I, Q, Range(Validators))
  BY SplitIndInv, Typing DEF ListInv
<1>2. p = Prepared(authors, now)
  BY DEF Prepared
<1> HIDE DEF now
<1>3. StageInv(r, W, I, Q, Range(Validators))
  BY <1>1, RecordStage
<1> HIDE DEF r
<1>4. QueuedInv(q, W, I)
  BY <1>3, QueueLemma
<1> HIDE DEF q
<1>5. QueuedInv(s, W, I)
  BY <1>1, <1>4, SlashLemma
<1> HIDE DEF s
<1>6. PreparedInv(p, W, I)
  BY <1>5, PrepareLemma
<1> HIDE DEF p
<1>7. Q \subseteq I /\ Desired \subseteq W
  BY <1>3, StageParts
<1>8. NextInvulnerables = WaitingCandidates
  <2>1. DesiredCandidates[1] \in Desired
    BY DesiredAssumption, LenProperties DEF Desired, Range
  <2>2. WaitingCandidates # <<>>
    BY <1>7, <2>1 DEF Range
  <2> QED  BY <2>2 DEF NextInvulnerables
<1>9. /\ WaitingCandidates \in Seq(Accounts) /\ Len(WaitingCandidates) <= MaxCandidates
      /\ Len(WaitingCandidates) \in Nat
      /\ QueuedKeys \in Seq(Accounts) /\ Len(QueuedKeys) <= MaxCandidates
  BY <1>1, LenProperties DEF OtherTypes
<1>10. /\ HasKeys(WaitingCandidates) \in Seq(Accounts)
       /\ Len(HasKeys(WaitingCandidates)) <= Len(WaitingCandidates)
       /\ Range(HasKeys(WaitingCandidates)) \subseteq W
  BY <1>9, HasKeysLemma
<1>11. StageInv(new_session(MarkWaiting(p), WaitingCandidates),
                Range(refresh_waiting_list(p)), W, Range(HasKeys(WaitingCandidates)), Q)
  BY <1>6, <1>7, <1>10, NewSessionLemma
<1>12. /\ refresh_waiting_list(p) \in Seq(Accounts)
       /\ Len(refresh_waiting_list(p)) <= MaxCandidates
  BY <1>6, RefreshLemma DEF PreparedInv, CandidatesOK
<1>13. Len(HasKeys(WaitingCandidates)) <= MaxCandidates
  BY <1>9, <1>10, ConfigAssumption, LenProperties
<1>14. /\ WaitingCandidates' = refresh_waiting_list(p)
       /\ ProposedCandidates' = new_session(MarkWaiting(p), WaitingCandidates)
       /\ Invulnerables' = WaitingCandidates
       /\ ActualAuthors' = {}
       /\ Validators' = QueuedKeys
       /\ QueuedKeys' = HasKeys(WaitingCandidates)
       /\ block_number' = now
       /\ UNCHANGED <<account, Delegations, NextKeys>>
  BY <1>2, <1>8 DEF SessionBlock, now
<1> HIDE DEF W, I, Q
<1>15. ListInv'
  BY <1>11, <1>14 DEF ListInv, W, Q
<1>16. OtherTypes'
  BY <1>1, <1>9, <1>10, <1>12, <1>13, <1>14 DEF OtherTypes
<1> QED  BY <1>15, <1>16, SplitIndInvNext
-----------------------------------------------------------------------------
(* The three facts about IndInv, and what follows from it.                 *)

(* Genesis: no candidate, no delegation, the desired set everywhere.       *)
LEMMA InitLemma == Init => IndInv
<1> SUFFICES ASSUME Init PROVE IndInv
  OBVIOUS
<1>1. /\ ProposedCandidates = <<>>
      /\ WaitingCandidates = DesiredCandidates /\ Invulnerables = DesiredCandidates
      /\ Validators = DesiredCandidates /\ QueuedKeys = DesiredCandidates
  BY DEF Init
<1>2. /\ ProposedCandidates \in Seq(CandidateInfo) /\ Len(ProposedCandidates) = 0
      /\ Range(ProposedCandidates) = {} /\ DOMAIN ProposedCandidates = {}
  BY <1>1 DEF Range
<1>3. UniqueWho(ProposedCandidates)
  BY <1>2 DEF UniqueWho
<1>4. ListInv
  BY <1>1, <1>2, <1>3, ConfigAssumption DEF ListInv, StageInv, Desired
<1>5. ASSUME NEW a \in Accounts
      PROVE  IsDelegations(Delegations[a])
  <2>1. Delegations[a] = [d \in {} |-> 0]
    BY DEF Init
  <2>2. DOMAIN Delegations[a] = {} /\ Delegations[a] \in [{} -> Nat]
    BY <2>1
  <2> QED  BY <2>2, FS_EmptySet, ConfigAssumption DEF IsDelegations
<1>6. account \in [Accounts -> AccountData]
  BY ConfigAssumption DEF Init, GenesisBalances, Data, AccountData
<1>7. DOMAIN Delegations = Accounts /\ ActualAuthors \subseteq Accounts /\ block_number \in Nat
  BY DEF Init
<1>8. NextKeys \subseteq Accounts
  BY DesiredAssumption, LenProperties DEF Init, GenesisKeys, Desired, Range
<1>9. OtherTypes
  BY <1>1, <1>5, <1>6, <1>7, <1>8, DesiredAssumption DEF OtherTypes
<1> QED  BY <1>4, <1>9, SplitIndInv

LEMMA StutterStep ==
  ASSUME IndInv, UNCHANGED vars
  PROVE  IndInv'
<1>1. OtherTypes' /\ ListInv'
  BY SplitIndInv DEF vars, pipeline, session, OtherTypes, ListInv
<1> QED  BY <1>1, SplitIndInvNext

LEMMA CallStep ==
  ASSUME IndInv, Call
  PROVE  IndInv'
<1>1. CASE CandidateCall
  <2>1. PICK who \in CandidateSigners :
          \/ register_candidate(who)
          \/ \E b \in Bonds : bond_candidate(who, b)
          \/ \E c \in Commissions : set_commission_of_candidate(who, c)
          \/ offline_candidate(who)
          \/ online_candidate(who)
          \/ leave_candidate(who)
    BY <1>1 DEF CandidateCall
  <2>2. who \in Accounts
    BY InputAssumption
  <2>3. CASE register_candidate(who)
    BY <2>2, <2>3, RegisterStep
  <2>4. ASSUME NEW b \in Bonds, bond_candidate(who, b)
        PROVE  IndInv'
    BY <2>2, <2>4, BondStep, InputAssumption
  <2>5. ASSUME NEW c \in Commissions, set_commission_of_candidate(who, c)
        PROVE  IndInv'
    BY <2>2, <2>5, CommissionStep
  <2>6. CASE offline_candidate(who)
    BY <2>2, <2>6, OfflineStep DEF offline_candidate
  <2>7. CASE online_candidate(who)
    BY <2>2, <2>7, OfflineStep DEF online_candidate
  <2>8. CASE leave_candidate(who)
    BY <2>2, <2>8, LeaveStep
  <2> QED  BY <2>1, <2>3, <2>4, <2>5, <2>6, <2>7, <2>8
<1>2. CASE CorrectionCall
  <2>1. PICK who \in CorrectionSigners, v \in Corrections : bond_correction(who, v)
    BY <1>2 DEF CorrectionCall
  <2>2. who \in Accounts /\ v \in Nat
    BY InputAssumption
  <2> QED  BY <2>1, <2>2, CorrectionStep
<1>3. CASE DelegatorCall
  <2>1. PICK who \in DelegatorSigners, candidate \in CandidateSigners :
          \/ \E amount \in Stakes : stake_candidate(who, candidate, amount)
          \/ unstake_candidate(who, candidate)
    BY <1>3 DEF DelegatorCall
  <2>2. who \in Accounts /\ candidate \in Accounts
    BY InputAssumption
  <2>3. ASSUME NEW amount \in Stakes, stake_candidate(who, candidate, amount)
        PROVE  IndInv'
    BY <2>2, <2>3, StakeStep, InputAssumption
  <2>4. CASE unstake_candidate(who, candidate)
    BY <2>2, <2>4, UnstakeStep
  <2> QED  BY <2>1, <2>3, <2>4
<1>4. CASE KeyCall
  <2>1. PICK who \in KeySigners : set_keys(who) \/ purge_keys(who)
    BY <1>4 DEF KeyCall
  <2>2. who \in Accounts
    BY InputAssumption
  <2> QED  BY <2>1, <2>2, KeyStep
<1> QED  BY <1>1, <1>2, <1>3, <1>4 DEF Call

LEMMA NextStep == IndInv /\ [Next]_vars => IndInv'
<1> SUFFICES ASSUME IndInv, [Next]_vars PROVE IndInv'
  OBVIOUS
<1>1. ASSUME NEW authors \in BlockAuthors, Block(authors)
      PROVE  IndInv'
  BY <1>1, BlockStep
<1>2. ASSUME NEW authors \in BlockAuthors, SessionBlock(authors)
      PROVE  IndInv'
  BY <1>2, SessionBlockStep
<1>3. CASE Call
  BY <1>3, CallStep
<1>4. CASE UNCHANGED vars
  BY <1>4, StutterStep
<1> QED  BY <1>1, <1>2, <1>3, <1>4 DEF Next

(* The invariant holds in every reachable state, for any constants that meet
   the named assumptions.                                                  *)
THEOREM Inductive == Spec => []IndInv
<1>1. Init => IndInv
  BY InitLemma
<1>2. IndInv /\ [Next]_vars => IndInv'
  BY NextStep
<1> QED  BY <1>1, <1>2, PTL DEF Spec

(* Every storage item of the pallet keeps its type, and no write that skips
   the capacity check of a BoundedVec exceeds it.                          *)
THEOREM TypeCorrect == Spec => []TypeOK
<1>1. IndInv => TypeOK
  BY DEF IndInv
<1> QED  BY <1>1, Inductive, PTL

(* No account has two registrations, so `find(|c| c.who == who)` finds the
   only one.                                                               *)
THEOREM CandidatesUnique == Spec => []UniqueCandidates
<1>1. IndInv => UniqueCandidates
  BY DEF IndInv
<1> QED  BY <1>1, Inductive, PTL

(* Whoever waits, is queued or validates, and is not a genesis validator, is
   a registered candidate with at least the minimum bond: bond_candidate(0),
   bond_correction, leave_candidate and the drop at a session end never
   release it earlier.                                                     *)
THEOREM PipelineIsBonded == Spec => []PipelineBonded
<1>1. IndInv => PipelineBonded
  <2> SUFFICES ASSUME IndInv, NEW who \in InPipeline \ Desired
               PROVE  \E c \in Range(ProposedCandidates) :
                        c.who = who /\ c.bond >= MinCandidateBond
    BY DEF PipelineBonded
  <2>1. who \in Guarded
    BY DEF IndInv, QueuedAreInvulnerable, InPipeline, Guarded
  <2>2. PICK c \in Range(ProposedCandidates) : c.who = who /\ c.bond # 0
    BY <2>1 DEF IndInv, GuardedBonded
  <2> QED  BY <2>2 DEF IndInv, BondsOK
<1> QED  BY <1>1, Inductive, PTL

(* The status never understates the stage a candidate has reached.         *)
THEOREM StatusIsSafe == Spec => []StatusCoversStage
<1>1. IndInv => StatusCoversStage
  BY DEF IndInv
<1> QED  BY <1>1, Inductive, PTL

(* The genesis validators never lose their places.                         *)
THEOREM DesiredStay == Spec => []DesiredKept
<1>1. IndInv => DesiredKept
  BY DEF IndInv
<1> QED  BY <1>1, Inductive, PTL
=============================================================================
