--------------------------- MODULE StakingHistory ---------------------------
(***************************************************************************)
(* XodeStaking with a record of what really happened on the chain, kept    *)
(* beside the pallet's own bookkeeping (last_authored, ActualAuthors):     *)
(* when an account last authored a block, and since when it has been in    *)
(* the active set.  The history variables constrain no step.               *)
(***************************************************************************)
EXTENDS XodeStaking

(* A session is no longer than what a validator may stay away (an hour and
   fourteen days in the runtime's configuration): who authored in the session
   that ends is never stale.                                               *)
ASSUME PeriodAssumption == SessionPeriod <= MaxStalingPeriod + 1

VARIABLES
  authored_at,       \* the last block each account authored, 0 if none
  validator_since    \* the block at which each account last entered Validators

history == <<authored_at, validator_since>>

HInit ==
  /\ Init
  /\ authored_at = [a \in Accounts |-> 0]
  /\ validator_since = [a \in Accounts |-> 0]

RecordAuthor(authors) ==
  authored_at' = [a \in Accounts |-> IF a \in authors THEN block_number' ELSE authored_at[a]]

RecordEntry ==
  validator_since' =
    [a \in Accounts |->
       IF a \in Range(Validators') \ Range(Validators) THEN block_number'
                                                            ELSE validator_since[a]]

HNext ==
  \/ /\ \E authors \in BlockAuthors :
          (Block(authors) \/ SessionBlock(authors)) /\ RecordAuthor(authors)
     /\ RecordEntry
  \/ block_number > 0 /\ Call /\ UNCHANGED history

HSpec == HInit /\ [][HNext]_<<vars, history>>

-----------------------------------------------------------------------------
(* The accounts a block takes offline (a call has no new block).           *)
Slashed ==
  {c.who : c \in {c \in Range(ProposedCandidates) :
     /\ block_number' # block_number
     /\ ~c.offline
     /\ \E d \in Range(ProposedCandidates') : d.who = c.who /\ d.offline}}

(* SlashJustified: slash_stale_authors takes offline only a validator of the
   session that ends, never a genesis validator, and only if it has not
   authored for more than MaxStalingPeriod blocks - also when it authored the
   very block that ends the session, left and re-registered, or had its
   candidacy moved by a sort in between.                                   *)
SlashJustified ==
  [][\A who \in Slashed :
       /\ who \in Range(Validators) \ Desired
       /\ block_number' > authored_at'[who] + MaxStalingPeriod]_<<vars, history>>

(* StaleAreSlashed: conversely, at a session end no validator that entered the
   set more than MaxStalingPeriod blocks ago and has authored nothing since
   remains online.                                                         *)
StaleAreSlashed ==
  [][SessionEnds =>
       \A c \in Range(ProposedCandidates') :
         (/\ c.who \in Range(Validators) \ Desired
          /\ block_number' > validator_since[c.who] + MaxStalingPeriod
          /\ block_number' > authored_at'[c.who] + MaxStalingPeriod)
           => c.offline]_<<vars, history>>

(* NewcomerGrace: a validator is given MaxStalingPeriod blocks of its own
   before it can be marked offline for not authoring.                      *)
NewcomerGrace ==
  [][\A who \in Slashed :
       block_number' > validator_since[who] + MaxStalingPeriod]_<<vars, history>>
=============================================================================
