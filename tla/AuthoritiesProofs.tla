-------------------------- MODULE AuthoritiesProofs --------------------------
(***************************************************************************)
(* Proofs about who authors and what is recorded of it: the consensus      *)
(* engines follow the session pallet; blocks authored by Aura's            *)
(* authorities are the blocks that XodeStaking allows, so what is proved   *)
(* of XodeStaking holds of the composition; who seals a block is credited  *)
(* with it; and slash_stale_authors takes offline those, and only those,   *)
(* who really have not authored for too long.                              *)
(***************************************************************************)
EXTENDS Authorities, StakingHistory, PipelineProofs

(* Nobody is recorded as author of a block to come.                        *)
AuthoredInPast == \A c \in Range(ProposedCandidates) : c.last_authored <= block_number

(* What a step does to what is recorded of authors: a block credits its
   authors; a call only registers, with the block of the moment.           *)
LEMMA CallEntries ==
  ASSUME IndInv, Call
  PROVE  /\ UNCHANGED <<Validators, ActualAuthors, block_number>>
         /\ \A c \in Range(ProposedCandidates') :
              \/ \E d \in Range(ProposedCandidates) :
                   c.who = d.who /\ c.last_authored = d.last_authored
              \/ /\ c.last_authored = block_number
                 /\ \A d \in Range(ProposedCandidates) : d.who # c.who
<1>1. UNCHANGED <<Validators, ActualAuthors, block_number>>
  BY DEF Call, CandidateCall, CorrectionCall, DelegatorCall, KeyCall, register_candidate,
         bond_candidate, set_commission_of_candidate, offline_candidate, online_candidate,
         leave_candidate, bond_correction, stake_candidate, unstake_candidate, set_keys,
         purge_keys, session
<1>2. ASSUME NEW c \in Range(ProposedCandidates), NEW d, Edits(c, d)
      PROVE  \A e \in Range(ProposedCandidates') :
               \E f \in Range(ProposedCandidates) :
                 e.who = f.who /\ e.last_authored = f.last_authored
  <2>1. /\ Range(ProposedCandidates') = {d} \union {e \in Range(ProposedCandidates) : e.who # c.who}
        /\ d.who = c.who /\ d.last_authored = c.last_authored
    BY <1>2, EditedEntries DEF Edits
  <2> QED  BY <2>1
<1>3. CASE EditsOne
  BY <1>1, <1>2, <1>3 DEF EditsOne
<1>4. CASE KeyCall
  <2>1. UNCHANGED ProposedCandidates
    BY <1>4 DEF KeyCall, set_keys, purge_keys
  <2> QED  BY <1>1, <2>1
<1>5. ASSUME NEW who \in Accounts, register_candidate(who)
      PROVE  \A c \in Range(ProposedCandidates') :
               \/ c \in Range(ProposedCandidates)
               \/ /\ c.last_authored = block_number
                  /\ \A d \in Range(ProposedCandidates) : d.who # c.who
  <2> DEFINE n == NewCandidate(who)
  <2>1. n.who = who /\ n.last_authored = block_number
    BY DEF NewCandidate
  <2>2. /\ Range(ProposedCandidates') = Range(ProposedCandidates) \union {n}
        /\ \A d \in Range(ProposedCandidates) : d.who # who
    BY <1>5, RegisteredEntries
  <2> HIDE DEF n
  <2> QED  BY <2>1, <2>2
<1> QED  BY <1>1, <1>3, <1>4, <1>5, CallCases

LEMMA NextTyped ==
  IndInv' => \A c \in Range(ProposedCandidates') : c.who \in Accounts /\ c.last_authored \in Nat
<1>1. ASSUME NEW s \in Seq(CandidateInfo), NEW c \in Range(s)
      PROVE  c.who \in Accounts /\ c.last_authored \in Nat
  <2>1. c \in CandidateInfo
    BY LenProperties DEF Range
  <2> QED  BY <2>1 DEF CandidateInfo
<1> QED  BY <1>1 DEF IndInv, TypeOK

LEMMA PastStep ==
  ASSUME IndInv, AuthoredInPast, [Next]_vars
  PROVE  AuthoredInPast'
<1>1. block_number \in Nat
  BY Typing
<1>2. \A c \in Range(ProposedCandidates) : c.last_authored \in Nat
  BY Typing DEF CandidateInfo
<1>3. ASSUME NEW authors \in BlockAuthors, Block(authors) \/ SessionBlock(authors)
      PROVE  AuthoredInPast'
  BY <1>1, <1>2, <1>3, BlockEntries DEF CarriedOver, AuthoredInPast
<1>4. CASE Call
  BY <1>1, <1>4, CallEntries DEF AuthoredInPast
<1>5. CASE UNCHANGED vars
  BY <1>5 DEF vars, AuthoredInPast
<1> QED  BY <1>3, <1>4, <1>5 DEF Next

LEMMA InitPast == Init => AuthoredInPast
  BY DEF Init, AuthoredInPast, Range

LEMMA PastKept == Spec => []AuthoredInPast
<1>1. IndInv /\ AuthoredInPast /\ [Next]_vars => AuthoredInPast'
  BY PastStep
<1> QED  BY <1>1, InitPast, Inductive, PTL DEF Spec

-----------------------------------------------------------------------------
(* The consensus engines.                                                  *)

(* The engines agree with the active set, and while the session pallet takes
   the queued set for unchanged it is.                                     *)
EnginesInv == EnginesAgree /\ (queued_changed \in BOOLEAN) /\ (~queued_changed => QueuedKeys = Validators)

LEMMA EnginesInit == AInit => EnginesInv
  BY DEF AInit, Init, EnginesInv, EnginesAgree

LEMMA CallsKeepSession == Call => UNCHANGED <<Validators, QueuedKeys, block_number>>
<1> SUFFICES ASSUME Call PROVE UNCHANGED <<Validators, QueuedKeys, block_number>>
  OBVIOUS
<1>1. CASE CandidateCall
  BY <1>1 DEF CandidateCall, register_candidate, bond_candidate, set_commission_of_candidate,
              offline_candidate, online_candidate, leave_candidate, session
<1>2. CASE CorrectionCall
  BY <1>2 DEF CorrectionCall, bond_correction, session
<1>3. CASE DelegatorCall
  BY <1>3 DEF DelegatorCall, stake_candidate, unstake_candidate, session
<1>4. CASE KeyCall
  BY <1>4 DEF KeyCall, set_keys, purge_keys
<1> QED
  BY <1>1, <1>2, <1>3, <1>4 DEF Call

(* Every index into Aura's list names a member of the active set.          *)
LEMMA AuthorIsActive ==
  ASSUME IndInv, EnginesInv, NEW i \in DOMAIN authorities
  PROVE  FindAuthor(i) \in BlockAuthors
<1>1. authorities = Validators /\ Validators \in Seq(Accounts)
  BY DEF EnginesInv, EnginesAgree, IndInv, TypeOK
<1>2. i \in 1 .. Len(Validators) /\ Validators # <<>>
  BY <1>1
<1>3. Validators[i] \in Range(Validators)
  BY <1>1 DEF Range
<1> QED
  BY <1>2, <1>3 DEF FindAuthor, BlockAuthors

LEMMA AuthorBlockKeeps ==
  ASSUME EnginesInv, NEW i \in DOMAIN authorities, AuthorBlock(i)
  PROVE  EnginesInv'
<1>1. CASE Block(FindAuthor(i)) /\ UNCHANGED <<authorities, grandpa_authorities, queued_changed>>
  BY <1>1 DEF Block, session, EnginesInv, EnginesAgree
<1>2. CASE SessionBlock(FindAuthor(i)) /\ HandOver
  <2>1. Validators' = QueuedKeys
    BY <1>2 DEF SessionBlock
  <2> QED
    BY <1>2, <2>1 DEF HandOver, EnginesInv, EnginesAgree
<1> QED
  BY <1>1, <1>2 DEF AuthorBlock

(* A step of the composition is a step of XodeStaking.                     *)
LEMMA CompositionStep ==
  ASSUME IndInv, EnginesInv, [ANext]_<<vars, engines>>
  PROVE  [Next]_vars /\ EnginesInv'
<1>1. ASSUME NEW i \in DOMAIN authorities, AuthorBlock(i)
      PROVE  Next /\ EnginesInv'
  <2>1. FindAuthor(i) \in BlockAuthors
    BY AuthorIsActive
  <2>2. Block(FindAuthor(i)) \/ SessionBlock(FindAuthor(i))
    BY <1>1 DEF AuthorBlock
  <2>3. Next
    BY <2>1, <2>2 DEF Next
  <2> QED
    BY <1>1, <2>3, AuthorBlockKeeps
<1>2. CASE block_number > 0 /\ Call /\ UNCHANGED engines
  <2>1. Next
    BY <1>2 DEF Next
  <2>2. EnginesInv'
    BY <1>2, CallsKeepSession DEF engines, EnginesInv, EnginesAgree
  <2> QED
    BY <2>1, <2>2
<1>3. CASE UNCHANGED <<vars, engines>>
  <2>1. UNCHANGED <<Validators, QueuedKeys, authorities, grandpa_authorities, queued_changed>>
    BY <1>3 DEF vars, session, engines
  <2> QED
    BY <1>3, <2>1 DEF EnginesInv, EnginesAgree
<1> QED
  BY <1>1, <1>2, <1>3 DEF ANext

(* CompositionInductive: the engines' invariant and the staking pallet's together. *)
THEOREM CompositionInductive == ASpec => [](IndInv /\ EnginesInv)
<1>1. AInit => IndInv /\ EnginesInv
  BY EnginesInit, InitLemma DEF AInit
<1>2. IndInv /\ EnginesInv /\ [ANext]_<<vars, engines>> => (IndInv /\ EnginesInv)'
  BY CompositionStep, NextStep
<1> QED
  BY <1>1, <1>2, PTL DEF ASpec

(* EnginesFollow: Aura and GRANDPA have exactly the session pallet's active
   set, in its order, after any number of sessions, whoever joins, leaves or
   purges its keys.                                                        *)
THEOREM EnginesFollow == ASpec => []EnginesAgree
<1>1. EnginesInv => EnginesAgree
  BY DEF EnginesInv
<1> QED
  BY <1>1, CompositionInductive, PTL

(* AuthoritiesImplementStaking: every behaviour of the composition is one of
   XodeStaking, so its theorems hold of the composition.                   *)
THEOREM AuthoritiesImplementStaking == ASpec => AuthorsAreActive
<1>1. AInit => Init
  BY DEF AInit
<1>2. IndInv /\ EnginesInv /\ [ANext]_<<vars, engines>> => [Next]_vars
  BY CompositionStep
<1> QED
  BY <1>1, <1>2, CompositionInductive, PTL DEF ASpec, AuthorsAreActive, Spec

LEMMA CreditStep ==
  ASSUME IndInv, EnginesInv, AuthoredInPast, [ANext]_<<vars, engines>>, block_number' # block_number,
         NEW c \in Range(ProposedCandidates')
  PROVE  c.last_authored = block_number' <=> c.who = signer'
<1>1. UNCHANGED <<vars, engines>> => UNCHANGED block_number
  BY DEF vars
<1>2. PICK i \in DOMAIN authorities : AuthorBlock(i)
  BY <1>1, CallsKeepSession DEF ANext
<1>3. FindAuthor(i) \in BlockAuthors
  BY AuthorIsActive
<1>4. Block(FindAuthor(i)) \/ SessionBlock(FindAuthor(i))
  BY <1>2 DEF AuthorBlock
<1>5. c.last_authored = block_number' <=> c.who \in FindAuthor(i)
  <2>1. PICK d \in Range(ProposedCandidates) : CarriedOver(c, d, FindAuthor(i))
    BY <1>3, <1>4, BlockEntries
  <2>2. d.last_authored \in Nat /\ d.last_authored <= block_number /\ block_number \in Nat
    BY Typing DEF CandidateInfo, AuthoredInPast
  <2>3. block_number' = block_number + 1
    BY <1>3, <1>4, BlockEntries
  <2> QED  BY <2>1, <2>2, <2>3 DEF CarriedOver
<1>6. authorities = Validators /\ Validators \in Seq(Accounts)
  BY DEF EnginesInv, EnginesAgree, IndInv, TypeOK
<1>7. FindAuthor(i) = {authorities[i]}
  BY <1>6 DEF FindAuthor
<1>8. signer' = authorities[i]
  BY <1>2 DEF AuthorBlock
<1> QED  BY <1>5, <1>7, <1>8

(* SignerIsCredited: the account credited with a block, on which its place in
   the set depends, is the one that sealed it, for any sets and any sequence of
   set changes, the block of the change included.                          *)
THEOREM SignerIsCredited == ASpec => CreditedIsSigner
<1>1. IndInv /\ EnginesInv /\ AuthoredInPast /\ [ANext]_<<vars, engines>>
        => [block_number' # block_number =>
              \A c \in Range(ProposedCandidates') :
                c.last_authored = block_number' <=> c.who = signer']_<<vars, engines>>
  BY CreditStep
<1>2. ASpec => Spec
  BY AuthoritiesImplementStaking DEF AuthorsAreActive
<1> QED
  BY <1>1, <1>2, CompositionInductive, PastKept, PTL DEF ASpec, CreditedIsSigner

-----------------------------------------------------------------------------
(* Numbers within a session.                                               *)
LEMMA ModUnique ==
  ASSUME NEW x \in Nat, NEW d \in Nat \ {0}, NEW k \in Nat, NEW r \in Nat, r < d, x = k * d + r
  PROVE  x % d = r
OBVIOUS

LEMMA Divided ==
  ASSUME NEW x \in Nat, NEW d \in Nat \ {0}
  PROVE  x \div d \in Nat /\ (x \div d) * d <= x /\ x < (x \div d) * d + d
OBVIOUS

LEMMA OneMore ==
  ASSUME NEW q \in Nat, NEW d \in Nat
  PROVE  (q + 1) * d = q * d + d /\ q * d \in Nat
OBVIOUS

LEMMA ModStep ==
  ASSUME NEW x \in Nat, NEW d \in Nat \ {0}
  PROVE  /\ x % d \in Nat
         /\ (x + 1) % d = IF x % d = d - 1 THEN 0 ELSE (x % d) + 1
<1> DEFINE q == x \div d
<1>1. q \in Nat /\ q * d <= x /\ x < q * d + d
  BY Divided
<1> HIDE DEF q
<1>2. q * d \in Nat /\ (q + 1) * d = q * d + d
  BY <1>1, OneMore
<1> DEFINE r == x - q * d
<1>3. r \in Nat /\ r < d /\ x = q * d + r
  BY <1>1, <1>2
<1>4. x % d = r
  BY <1>1, <1>3, ModUnique
<1>5. CASE r = d - 1
  <2>1. x + 1 = (q + 1) * d + 0
    BY <1>2, <1>3, <1>5
  <2>2. q + 1 \in Nat /\ x + 1 \in Nat /\ 0 < d /\ 0 \in Nat
    BY <1>1
  <2>3. (x + 1) % d = 0
    BY <2>1, <2>2, ModUnique
  <2> QED  BY <1>3, <1>4, <1>5, <2>3
<1>6. CASE r # d - 1
  <2>1. r + 1 \in Nat /\ r + 1 < d /\ x + 1 \in Nat
    BY <1>3, <1>6
  <2>2. x + 1 = q * d + (r + 1)
    BY <1>2, <1>3
  <2> HIDE DEF r
  <2>3. (x + 1) % d = r + 1
    BY <1>1, <2>1, <2>2, ModUnique
  <2> QED  BY <1>3, <1>4, <1>6, <2>3
<1> QED  BY <1>5, <1>6

-----------------------------------------------------------------------------
(* What the pallet records of authors, and what really happened.           *)
HistoryTyped ==
  /\ \A a \in Accounts : authored_at[a] \in Nat /\ authored_at[a] <= block_number
  /\ \A a \in Accounts : validator_since[a] \in Nat

(* The record is never behind.                                             *)
RecordNotBehind ==
  \A c \in Range(ProposedCandidates) : c.last_authored >= authored_at[c.who]

(* The record of a validator is ahead at most by its entry into the set: it
   cannot register anew while it is there.                                 *)
RecordNotAhead ==
  \A c \in Range(ProposedCandidates) :
    c.who \in Range(Validators) \ Desired =>
      c.last_authored <= authored_at[c.who] \/ c.last_authored <= validator_since[c.who]

(* ActualAuthors is cleared with every session.                            *)
AuthorsOfSession ==
  \A a \in ActualAuthors :
    authored_at[a] + (block_number % SessionPeriod) > block_number

HistInv ==
  /\ IndInv
  /\ AuthoredInPast
  /\ HistoryTyped
  /\ RecordNotBehind
  /\ RecordNotAhead
  /\ AuthorsOfSession

LEMMA HistInit == HInit => HistInv
<1> SUFFICES ASSUME HInit PROVE HistInv
  OBVIOUS
<1>1. Init /\ ActualAuthors = {} /\ block_number = 0 /\ ProposedCandidates = <<>>
  BY DEF HInit, Init
<1>2. IndInv /\ AuthoredInPast
  BY <1>1, InitLemma, InitPast
<1>3. HistoryTyped
  BY <1>1 DEF HInit, HistoryTyped
<1>4. Range(ProposedCandidates) = {}
  BY <1>1 DEF Range
<1> QED  BY <1>1, <1>2, <1>3, <1>4 DEF HistInv, RecordNotBehind, RecordNotAhead, AuthorsOfSession

(* What a block does to the history.                                       *)
LEMMA BlockRecorded ==
  ASSUME HistInv, NEW authors \in BlockAuthors, Block(authors) \/ SessionBlock(authors),
         RecordAuthor(authors), RecordEntry
  PROVE  /\ block_number \in Nat /\ block_number' = block_number + 1
         /\ authors \subseteq Range(Validators)
         /\ \A a \in Accounts :
              /\ authored_at[a] \in Nat /\ authored_at[a] <= block_number
              /\ authored_at'[a] = IF a \in authors THEN block_number + 1 ELSE authored_at[a]
              /\ validator_since[a] \in Nat
              /\ validator_since'[a] = IF a \in Range(Validators') \ Range(Validators)
                                       THEN block_number + 1 ELSE validator_since[a]
         /\ \A c \in Range(ProposedCandidates) :
              c \in CandidateInfo /\ c.who \in Accounts
                /\ c.last_authored \in Nat /\ c.last_authored <= block_number
<1>1. block_number \in Nat /\ block_number' = block_number + 1
  BY Typing, BlockEntries DEF HistInv
<1>2. authors \subseteq Range(Validators)
  BY DEF BlockAuthors
<1>3. \A c \in Range(ProposedCandidates) : c \in CandidateInfo
  BY Typing DEF HistInv
<1> QED  BY <1>1, <1>2, <1>3 DEF HistInv, HistoryTyped, AuthoredInPast, RecordAuthor, RecordEntry,
             CandidateInfo

LEMMA BlockHistory ==
  ASSUME HistInv, NEW authors \in BlockAuthors, Block(authors) \/ SessionBlock(authors),
         RecordAuthor(authors), RecordEntry
  PROVE  HistoryTyped' /\ RecordNotBehind' /\ RecordNotAhead' /\ AuthorsOfSession'
<1> DEFINE now == block_number + 1
<1>1. /\ block_number \in Nat /\ block_number' = now
      /\ authors \subseteq Range(Validators)
      /\ \A a \in Accounts :
           /\ authored_at[a] \in Nat /\ authored_at[a] <= block_number
           /\ authored_at'[a] = IF a \in authors THEN now ELSE authored_at[a]
           /\ validator_since[a] \in Nat
           /\ validator_since'[a] = IF a \in Range(Validators') \ Range(Validators)
                                    THEN now ELSE validator_since[a]
      /\ \A c \in Range(ProposedCandidates) :
           c \in CandidateInfo /\ c.who \in Accounts
             /\ c.last_authored \in Nat /\ c.last_authored <= block_number
  BY BlockRecorded
<1>2. HistoryTyped'
  BY <1>1 DEF HistoryTyped
<1>3. ASSUME NEW c \in Range(ProposedCandidates')
      PROVE  /\ c.last_authored >= authored_at'[c.who]
             /\ c.who \in Range(Validators') \ Desired =>
                  c.last_authored <= authored_at'[c.who] \/ c.last_authored <= validator_since'[c.who]
  <2>1. PICK d \in Range(ProposedCandidates) : CarriedOver(c, d, authors)
    BY BlockEntries DEF HistInv
  <2>2. /\ c.who = d.who /\ c.who \in Accounts
        /\ c.last_authored = IF c.who \in authors THEN now ELSE d.last_authored
        /\ d.last_authored \in Nat /\ d.last_authored <= block_number
    BY <1>1, <2>1 DEF CarriedOver
  <2>3. /\ d.last_authored >= authored_at[c.who]
        /\ c.who \in Range(Validators) \ Desired =>
             d.last_authored <= authored_at[c.who] \/ d.last_authored <= validator_since[c.who]
    BY <2>2 DEF HistInv, RecordNotBehind, RecordNotAhead
  <2>4. CASE c.who \in authors
    BY <1>1, <2>2, <2>4
  <2>5. CASE c.who \notin authors
    BY <1>1, <2>2, <2>3, <2>5
  <2> QED  BY <2>4, <2>5
<1>4. RecordNotBehind' /\ RecordNotAhead'
  BY <1>3 DEF RecordNotBehind, RecordNotAhead
<1>5. AuthorsOfSession'
  <2>1. CASE SessionBlock(authors)
    BY <2>1 DEF SessionBlock, AuthorsOfSession
  <2>2. CASE Block(authors)
    <3>1. now % SessionPeriod # 0 /\ ActualAuthors' = add_actual_author(authors)
      BY <2>2 DEF Block, EndsSession
    <3>2. /\ block_number % SessionPeriod \in Nat
          /\ now % SessionPeriod = (block_number % SessionPeriod) + 1
      BY <1>1, <3>1, ModStep, ConfigAssumption
    <3> HIDE DEF now
    <3>3. ASSUME NEW a \in ActualAuthors'
          PROVE  authored_at'[a] + (now % SessionPeriod) > now
      <4>1. a \in ActualAuthors \/ a \in authors
        BY <3>1, <3>3 DEF add_actual_author
      <4>2. a \in Accounts
        BY <4>1, <1>1, Typing DEF HistInv, OtherTypes, BlockAuthors, Range
      <4>3. CASE a \in authors
        BY <1>1, <3>2, <4>2, <4>3 DEF now
      <4>4. CASE a \in ActualAuthors /\ a \notin authors
        <5>1. authored_at[a] + (block_number % SessionPeriod) > block_number
          BY <4>4 DEF HistInv, AuthorsOfSession
        <5> QED  BY <1>1, <3>2, <4>2, <4>4, <5>1 DEF now
      <4> QED  BY <4>1, <4>3, <4>4
    <3> QED  BY <1>1, <3>3 DEF AuthorsOfSession
  <2> QED  BY <2>1, <2>2
<1> QED  BY <1>2, <1>4, <1>5

LEMMA CallHistory ==
  ASSUME HistInv, IndInv', Call, UNCHANGED history
  PROVE  HistoryTyped' /\ RecordNotBehind' /\ RecordNotAhead' /\ AuthorsOfSession'
<1>1. IndInv
  BY DEF HistInv
<1>2. UNCHANGED <<Validators, ActualAuthors, block_number, authored_at, validator_since>>
  BY <1>1, CallEntries DEF history
<1>3. ASSUME NEW c \in Range(ProposedCandidates')
      PROVE  \/ \E d \in Range(ProposedCandidates) :
                  c.who = d.who /\ c.last_authored = d.last_authored
             \/ /\ c.last_authored = block_number /\ c.who \in Accounts
                /\ c.who \notin Range(Validators) \ Desired
  <2>1. CASE \A d \in Range(ProposedCandidates) : d.who # c.who
    <3>1. c.who \notin Guarded
      BY <1>1, <2>1 DEF IndInv, GuardedBonded
    <3>2. c.who \notin Range(Validators) \ Desired
      BY <3>1 DEF Guarded
    <3>3. c.who \in Accounts
      BY <1>1, <1>3, NextTyped
    <3> QED  BY <1>1, <1>3, <2>1, <3>2, <3>3, CallEntries
  <2>2. CASE ~\A d \in Range(ProposedCandidates) : d.who # c.who
    BY <1>1, <1>3, <2>2, CallEntries
  <2> QED  BY <2>1, <2>2
<1>4. HistoryTyped' /\ AuthorsOfSession'
  BY <1>2 DEF HistInv, HistoryTyped, AuthorsOfSession
<1>5. RecordNotBehind'
  BY <1>2, <1>3 DEF HistInv, HistoryTyped, RecordNotBehind
<1>6. RecordNotAhead'
  BY <1>2, <1>3 DEF HistInv, RecordNotAhead
<1> QED  BY <1>4, <1>5, <1>6

LEMMA HistoryStep ==
  ASSUME HistInv, [HNext]_<<vars, history>>
  PROVE  [Next]_vars /\ HistInv'
<1>1. [Next]_vars
  BY DEF HNext, Next
<1>2. IndInv' /\ AuthoredInPast'
  BY <1>1, NextStep, PastStep DEF HistInv
<1>3. CASE Call /\ UNCHANGED history
  BY <1>1, <1>2, <1>3, CallHistory DEF HistInv
<1>4. ASSUME NEW authors \in BlockAuthors, Block(authors) \/ SessionBlock(authors),
             RecordAuthor(authors), RecordEntry
      PROVE  HistInv'
  BY <1>2, <1>4, BlockHistory DEF HistInv
<1>5. CASE UNCHANGED <<vars, history>>
  BY <1>2, <1>5 DEF vars, history, session, HistInv, HistoryTyped, RecordNotBehind,
                    RecordNotAhead, AuthorsOfSession
<1> QED  BY <1>1, <1>3, <1>4, <1>5 DEF HNext

LEMMA HistoryKept == HSpec => []HistInv
<1>1. HistInv /\ [HNext]_<<vars, history>> => HistInv'
  BY HistoryStep
<1> QED  BY <1>1, HistInit, PTL DEF HSpec

-----------------------------------------------------------------------------
(* Who is taken offline for not authoring.                                 *)
LEMMA StepIsBlock ==
  ASSUME HistInv, [HNext]_<<vars, history>>, block_number' # block_number
  PROVE  \E authors \in BlockAuthors :
           (Block(authors) \/ SessionBlock(authors)) /\ RecordAuthor(authors) /\ RecordEntry
<1>1. Call => UNCHANGED block_number
  BY CallEntries DEF HistInv
<1>2. ~UNCHANGED <<vars, history>>
  BY DEF vars
<1> QED  BY <1>1, <1>2 DEF HNext

LEMMA SlashStep ==
  ASSUME HistInv, HistInv', [HNext]_<<vars, history>>, NEW who \in Slashed
  PROVE  /\ who \in Range(Validators) \ Desired
         /\ block_number' > authored_at'[who] + MaxStalingPeriod
<1>1. PICK c \in Range(ProposedCandidates) :
        /\ c.who = who /\ block_number' # block_number /\ ~c.offline
        /\ \E d \in Range(ProposedCandidates') : d.who = c.who /\ d.offline
  BY DEF Slashed
<1>2. PICK d \in Range(ProposedCandidates') : d.who = c.who /\ d.offline
  BY <1>1
<1>3. PICK authors \in BlockAuthors : Block(authors) \/ SessionBlock(authors)
  BY <1>1, StepIsBlock
<1>4. PICK e \in Range(ProposedCandidates) : CarriedOver(d, e, authors)
  BY <1>3, BlockEntries DEF HistInv
<1>5. e = c
  BY <1>2, <1>4, UniqueEntry DEF HistInv, IndInv, UniqueCandidates, CarriedOver
<1>6. /\ d.who \in Range(Validators) /\ d.who \notin Desired
      /\ block_number + 1 > d.last_authored + MaxStalingPeriod
  BY <1>1, <1>2, <1>4, <1>5 DEF CarriedOver, IsStale
<1>7. block_number' = block_number + 1 /\ block_number \in Nat
  BY <1>3, BlockEntries, Typing DEF HistInv
<1>8. d.last_authored >= authored_at'[d.who]
  BY DEF HistInv, RecordNotBehind
<1>9. d.last_authored \in Nat /\ authored_at'[d.who] \in Nat
  BY NextTyped, <1>3 DEF HistInv, HistoryTyped
<1> QED  BY <1>1, <1>2, <1>6, <1>7, <1>8, <1>9, ConfigAssumption

(* OnlyStaleAreSlashed: slash_stale_authors is a judgement on the pallet's own
   record; the record never lags behind the blocks an account authored, so
   whoever is taken offline is a validator of the session that ends, no genesis
   validator, and has really not authored for more than MaxStalingPeriod.  *)
THEOREM OnlyStaleAreSlashed == HSpec => SlashJustified
<1>1. HistInv /\ HistInv' /\ [HNext]_<<vars, history>> =>
        [\A who \in Slashed :
           /\ who \in Range(Validators) \ Desired
           /\ block_number' > authored_at'[who] + MaxStalingPeriod]_<<vars, history>>
  BY SlashStep
<1> QED  BY <1>1, HistoryKept, PTL DEF HSpec, SlashJustified

LEMMA StaleStep ==
  ASSUME HistInv, HistInv', [HNext]_<<vars, history>>, SessionEnds,
         NEW c \in Range(ProposedCandidates'),
         c.who \in Range(Validators) \ Desired,
         block_number' > validator_since[c.who] + MaxStalingPeriod,
         block_number' > authored_at'[c.who] + MaxStalingPeriod
  PROVE  c.offline
<1> DEFINE now == block_number + 1
           who == c.who
<1>1. PICK authors \in BlockAuthors :
        (Block(authors) \/ SessionBlock(authors)) /\ RecordAuthor(authors) /\ RecordEntry
  BY StepIsBlock DEF SessionEnds
<1>2. PICK d \in Range(ProposedCandidates) : CarriedOver(c, d, authors)
  BY <1>1, BlockEntries DEF HistInv
<1>3. /\ block_number \in Nat /\ block_number' = now /\ EndsSession(now)
      /\ who \in Accounts /\ c.last_authored \in Nat
  BY <1>1, BlockRecorded, NextTyped DEF HistInv, SessionEnds
<1>4. /\ authored_at[who] \in Nat /\ authored_at[who] <= block_number
      /\ authored_at'[who] = IF who \in authors THEN now ELSE authored_at[who]
      /\ validator_since[who] \in Nat
  BY <1>1, <1>3, BlockRecorded
<1>5. who \notin authors
  BY <1>3, <1>4, ConfigAssumption
<1>6. c.last_authored <= authored_at[who] \/ c.last_authored <= validator_since[who]
  <2>1. d.who = who /\ d.last_authored = c.last_authored
    BY <1>2, <1>5 DEF CarriedOver
  <2> QED  BY <2>1 DEF HistInv, RecordNotAhead
<1>7. now > c.last_authored + MaxStalingPeriod
  BY <1>3, <1>4, <1>5, <1>6, ConfigAssumption
<1>8. who \notin ActualAuthors
  <2> SUFFICES ASSUME who \in ActualAuthors PROVE FALSE
    OBVIOUS
  <2>1. authored_at[who] + (block_number % SessionPeriod) > block_number
    BY DEF HistInv, AuthorsOfSession
  <2>2. block_number % SessionPeriod = SessionPeriod - 1
    <3>1. now % SessionPeriod = 0
      BY <1>3 DEF EndsSession
    <3>2. /\ block_number % SessionPeriod \in Nat
          /\ now % SessionPeriod = IF block_number % SessionPeriod = SessionPeriod - 1
                                   THEN 0 ELSE (block_number % SessionPeriod) + 1
      BY <1>3, ModStep, ConfigAssumption
    <3> HIDE DEF now
    <3> QED  BY <3>1, <3>2
  <2>3. authored_at[who] + SessionPeriod > now
    BY <1>3, <1>4, <2>1, <2>2, ConfigAssumption
  <2>4. now > authored_at[who] + MaxStalingPeriod
    BY <1>3, <1>4, <1>5
  <2> QED  BY <1>3, <1>4, <2>3, <2>4, PeriodAssumption, ConfigAssumption
<1>9. IsStale(c, add_actual_author(authors), now)
  BY <1>5, <1>7, <1>8 DEF IsStale, add_actual_author
<1> QED  BY <1>2, <1>3, <1>9 DEF CarriedOver

(* AllStaleAreSlashed: conversely no validator that has been in the set, and
   silent, for more than MaxStalingPeriod blocks escapes at a session end: its
   record cannot have been renewed by registering again while it validates, and
   ActualAuthors, which protects from being slashed, holds authors of this
   session only.                                                           *)
THEOREM AllStaleAreSlashed == HSpec => StaleAreSlashed
<1>1. HistInv /\ HistInv' /\ [HNext]_<<vars, history>> =>
        [SessionEnds =>
           \A c \in Range(ProposedCandidates') :
             (/\ c.who \in Range(Validators) \ Desired
              /\ block_number' > validator_since[c.who] + MaxStalingPeriod
              /\ block_number' > authored_at'[c.who] + MaxStalingPeriod)
               => c.offline]_<<vars, history>>
  BY StaleStep
<1> QED  BY <1>1, HistoryKept, PTL DEF HSpec, StaleAreSlashed
=============================================================================
