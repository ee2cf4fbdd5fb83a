---------------------------- MODULE MCGovernance ----------------------------
(* A Technical Committee of three, as in the local preset, and a Treasury
   Council of two of them; motions about removing charlie, adding dave to either,
   spending and, through the whitelist, replacing the runtime's code.      *)
EXTENDS Governance, TLC

CONSTANTS alice, bob, charlie, dave

LocalMembers == Technical :> {alice, bob, charlie} @@ Treasury :> {alice, bob}
Open == Technical :> 2 @@ Treasury :> 1

Remove == [op |-> "remove_member", committee |-> Technical, who |-> charlie]
Add    == [op |-> "add_member", committee |-> Technical, who |-> dave]
Code   == [op |-> "set_code", committee |-> Technical, who |-> dave]
Join   == [op |-> "add_member", committee |-> Treasury, who |-> dave]
Spend  == [op |-> "spend_local", committee |-> Treasury, who |-> dave]

MCCalls == {Remove, Add, Code, Join, Spend}
MCProposals ==
  [via : {"direct"}, call : MCCalls \ {Code}]
    \union [via : {"whitelist_call", "dispatch_whitelisted_call"}, call : {Code}]
    \union [via : {"disapprove_proposal"}, call : {Spend}]
MCAgenda ==
  Technical :> {p \in MCProposals : p.call.committee = Technical \/ p.via # "direct"}
    @@ Treasury :> [via : {"direct"}, call : {Join, Spend}]
                     \union {[via |-> "whitelist_call", call |-> Code]}

(* alice and bob have the same seats, and nothing is proposed about either. *)
Symmetry == Permutations({alice, bob})
=============================================================================
