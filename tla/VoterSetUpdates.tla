---------------------------- MODULE VoterSetUpdates ----------------------------
(***************************************************************************)
(* The two voter sets of the finality predicate (src/finality/mod.rs): that *)
(* of the verification client, behind a lock, which signatures are checked  *)
(* with, and that of GrandpaFinality, which is kept beside it.              *)
(*                                                                          *)
(* new_from_runtime asks the runtime of the best block for the authorities  *)
(* twice, once for each; afterwards tasks update the verification client    *)
(* from the runtime of a block or with a list they are handed.              *)
(***************************************************************************)
EXTENDS FinalityRules

CONSTANTS
  Updaters,     \* the tasks that update the voter set
  RuntimeList   \* [Blocks -> AuthorityLists], grandpa_authorities of each block

ASSUME UpdatesAssumption == RuntimeList \in [Blocks -> AuthorityLists]

\* No voter set yet.
NoVoters == [a \in {} |-> 0]

VARIABLES
  created,     \* how far new_from_runtime has come
  voter_set,   \* SubstrateVerificationClient.voter_set
  own_voters,  \* GrandpaFinality.voter_set
  update       \* [Updaters -> Updates], the running or last update of each task

updateVars == <<created, voter_set, own_voters, update>>

\* An update from the runtime: whether it has read the list and is about to write,
\* the block, and how it ended.
Updates == [at : {"idle", "write"}, block : Blocks, result : {"none", "ok", "error"}]

NoUpdate == [at |-> "idle", block |-> Genesis, result |-> "none"]

UpdatesTypeOK ==
  /\ ChainTypeOK
  /\ created \in {"nothing", "client", "both"}
  /\ voter_set \in VoterSets \cup {NoVoters}
  /\ own_voters \in VoterSets \cup {NoVoters}
  /\ update \in [Updaters -> Updates]
  /\ voter_set = NoVoters <=> created = "nothing"
  /\ own_voters = NoVoters <=> created # "both"

UpdatesInit ==
  /\ ChainInit
  /\ created = "nothing"
  /\ voter_set = NoVoters
  /\ own_voters = NoVoters
  /\ update = [u \in Updaters |-> NoUpdate]

-----------------------------------------------------------------------------
\* SubstrateVerificationClient::new_with_runtime_authorities: the best block's
\* list; one that makes no voter set is an error.
CreateClient ==
  /\ created = "nothing"
  /\ IsVoterSet(RuntimeList[best])
  /\ created' = "client"
  /\ voter_set' = VoterSet(RuntimeList[best])
  /\ UNCHANGED <<chainVars, own_voters, update>>

\* GrandpaFinality::new_from_runtime goes on: it asks for the best block again.
CreatePredicate ==
  /\ created = "client"
  /\ IsVoterSet(RuntimeList[best])
  /\ created' = "both"
  /\ own_voters' = VoterSet(RuntimeList[best])
  /\ UNCHANGED <<chainVars, voter_set, update>>

\* A list makes no voter set, or the runtime fails: new_from_runtime returns the
\* error and drops the verification client, if there is one already.
FailCreation ==
  /\ created # "both"
  /\ created' = "nothing"
  /\ voter_set' = NoVoters
  /\ UNCHANGED <<chainVars, own_voters, update>>

\* update_authorities_from_runtime: the list of the block is read and made a voter
\* set, without the lock.
ReadAuthorities(u, b) ==
  /\ created = "both" /\ update[u].at = "idle"
  /\ b \in imported /\ IsVoterSet(RuntimeList[b])
  /\ update' = [update EXCEPT ![u] = [NoUpdate EXCEPT !.at = "write", !.block = b]]
  /\ UNCHANGED <<chainVars, created, voter_set, own_voters>>

\* The block is unknown to the runtime, the runtime fails, or the list makes no
\* voter set: the voter set in force stays.
FailUpdate(u) ==
  /\ created = "both" /\ update[u].at = "idle"
  /\ update' = [update EXCEPT ![u] = [NoUpdate EXCEPT !.result = "error"]]
  /\ UNCHANGED <<chainVars, created, voter_set, own_voters>>

\* The voter set is replaced under the write lock, by a list that may have been read
\* before another task's update began and ended.
WriteVoterSet(u) ==
  /\ update[u].at = "write"
  /\ voter_set' = VoterSet(RuntimeList[update[u].block])
  /\ update' = [update EXCEPT ![u].at = "idle", ![u].result = "ok"]
  /\ UNCHANGED <<chainVars, created, own_voters>>

\* Variation: the list is not asked whether it makes a voter set.
ChangeAuthoritiesUnchecked(list) ==
  /\ created = "both"
  /\ voter_set' = VoterSet(list)
  /\ UNCHANGED <<chainVars, created, own_voters, update>>

\* handle_authority_set_change makes a voter set of the list it is handed, throws
\* it away, and hands the list to the verification client, where
\* handle_authority_set_update makes it again and replaces its own under the lock.
\* The set id is logged only.
HandleAuthoritySetChange(list) ==
  /\ created = "both"
  /\ IsVoterSet(list)
  /\ voter_set' = VoterSet(list)
  /\ UNCHANGED <<chainVars, created, own_voters, update>>

VotersStep ==
  \/ ChainNext /\ UNCHANGED updateVars
  \/ CreateClient
  \/ CreatePredicate
  \/ FailCreation
  \/ \E list \in AuthorityLists : HandleAuthoritySetChange(list)
  \/ \E u \in Updaters :
       \/ \E b \in Blocks : ReadAuthorities(u, b)
       \/ FailUpdate(u)
       \/ WriteVoterSet(u)

=============================================================================
