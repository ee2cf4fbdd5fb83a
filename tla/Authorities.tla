----------------------------- MODULE Authorities -----------------------------
(***************************************************************************)
(* XodeStaking with the two consensus engines that the session pallet      *)
(* hands its validators to, SessionHandler = (Aura, Grandpa), and with the *)
(* way from a block's slot to the account that is credited with it:        *)
(*                                                                         *)
(*   slot % number of Aura authorities -> index -> Validators[index]       *)
(*                                                                         *)
(* An account stands for its session keys.  A node keeps its keystore when *)
(* its account purges its keys, and authors as long as it is an Aura       *)
(* authority.  A slot is any later than the last, so any authority may be  *)
(* the next to author.                                                     *)
(***************************************************************************)
EXTENDS StakingRefinement

VARIABLES
  authorities,          \* pallet_aura: the authorities, by position
  grandpa_authorities,  \* pallet_grandpa: the authorities
  queued_changed,       \* pallet_session: the queued set differs from the active one
  signer                \* whose key sealed the last block

engines == <<authorities, grandpa_authorities, queued_changed, signer>>

(* on_genesis_session gives both engines the queued keys.                  *)
AInit ==
  /\ Init
  /\ authorities = QueuedKeys
  /\ grandpa_authorities = QueuedKeys
  /\ queued_changed = FALSE
  /\ signer \in Range(QueuedKeys)

(* Mutant: the hooks of Session run first, and the index is looked up in the
   set that has just become active.                                        *)
FindAuthor_AfterSession(i) ==
  LET validators == IF EndsSession(block_number + 1) THEN QueuedKeys ELSE Validators
  IN  IF i <= Len(validators) THEN {validators[i]} ELSE {}

(* Mutant: indices taken to start one later.                               *)
FindAuthor_OffByOne(i) == IF i + 1 <= Len(Validators) THEN {Validators[i + 1]} ELSE {}

(* FindAccountFromAuthorIndex, asked by XodeStaking's on_initialize before
   the session rotates.                                                    *)
FindAuthor(i) == IF i <= Len(Validators) THEN {Validators[i]} ELSE {}

(* Mutant: Aura is not told of the change.                                 *)
HandOver_GrandpaOnly ==
  /\ grandpa_authorities' = IF queued_changed THEN QueuedKeys ELSE grandpa_authorities
  /\ queued_changed' = TRUE
  /\ UNCHANGED authorities

(* on_new_session of both engines.  new_session has an answer every time, so
   the set it queues counts as changed.                                    *)
HandOver ==
  /\ authorities' = IF queued_changed THEN QueuedKeys ELSE authorities
  /\ grandpa_authorities' = IF queued_changed THEN QueuedKeys ELSE grandpa_authorities
  /\ queued_changed' = TRUE

(* A session end is the block in which GRANDPA announces its next set, with no
   delay, and no node imports a block that announces an empty one.         *)
ImportAccepts ==
  EndsSession(block_number + 1) /\ queued_changed => QueuedKeys # <<>>

AuthorBlock(i) ==
  /\ ImportAccepts
  /\ signer' = authorities[i]
  /\ \/ Block(FindAuthor(i)) /\ UNCHANGED <<authorities, grandpa_authorities, queued_changed>>
     \/ SessionBlock(FindAuthor(i)) /\ HandOver

ANext ==
  \/ \E i \in DOMAIN authorities : AuthorBlock(i)
  \/ block_number > 0 /\ Call /\ UNCHANGED engines

ASpec == AInit /\ [][ANext]_<<vars, engines>>

(* A step of AuthorBlock, told by its guards and by the block number, which
   no call changes.                                                        *)
NextBlock ==
  /\ authorities # <<>> /\ ImportAccepts /\ block_number < MaxBlock
  /\ block_number' = block_number + 1

(* The node of at least one authority runs: its authoring task wakes in every
   slot.  Users owe the chain no call.                                     *)
AFairSpec == ASpec /\ WF_block_number(NextBlock)

-----------------------------------------------------------------------------
(* EnginesAgree: Aura and GRANDPA have exactly the active set, position by
   position, so that an index into Aura's list is an index into Validators.
   The first rotation changes nothing because genesis asked new_session twice
   and got the same answer.                                                *)
EnginesAgree == authorities = Validators /\ grandpa_authorities = Validators

(* CreditedIsSigner: in every block, the one that ends a session included, the
   candidate whose last_authored is set to the block is the one whose key
   sealed it, and nobody else.                                             *)
CreditedIsSigner ==
  [][block_number' # block_number =>
       \A c \in Range(ProposedCandidates') :
         c.last_authored = block_number' <=> c.who = signer']_<<vars, engines>>

(* AuthorsAreActive: the composition is a behaviour of XodeStaking, which lets
   any member of the active set, and nobody else, author.                  *)
AuthorsAreActive == Spec

GenesisKeysHeld == Desired \intersect NextKeys # {}

(* NeverStuck: while at any time some genesis validator has session keys, no
   session end is refused by block import and the chain goes on, whoever is
   offline, unbonded or without keys.                                      *)
NeverStuck ==
  []GenesisKeysHeld => <>(block_number = MaxBlock)

(* Enough blocks are left within the bound for n session ends.             *)
SessionsLeft(n) == block_number + n * SessionPeriod <= MaxBlock

(* UnfitLeaves: a candidate that is not fit - offline, leaving, unbonded or
   found stale - is dropped by the fourth session end from now, unless it
   becomes fit again.  This does not hold for genesis validators.          *)
UnfitLeaves ==
  []GenesisKeysHeld =>
    \A who \in Accounts \ Desired :
      (who \in RegisteredAccounts \ FitAccounts /\ SessionsLeft(4))
        ~> (who \notin RegisteredAccounts \ FitAccounts)

(* FitEnters: a fit candidate with session keys is in the active set after
   three session ends, unless it becomes unfit, loses its keys or finds the
   places taken.                                                           *)
FitEnters ==
  []GenesisKeysHeld =>
    \A who \in Accounts \ Desired :
      (who \in FitAccounts \intersect NextKeys /\ SessionsLeft(3))
        ~> \/ who \in Range(Validators)
           \/ who \notin FitAccounts \intersect NextKeys
           \/ Len(WaitingCandidates) = MaxCandidates /\ who \notin Range(WaitingCandidates)
=============================================================================
