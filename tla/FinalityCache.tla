---------------------------- MODULE FinalityCache ----------------------------
(***************************************************************************)
(* SubstrateVerificationClient::get_finality_status_cached                  *)
(* (src/finality/mod.rs:777-806): a status younger than five seconds is     *)
(* taken from the cache; otherwise it is put together from the client and   *)
(* the voter set, written to the cache with the time of writing, and        *)
(* entries of thirty seconds are swept out.                                 *)
(*                                                                          *)
(* Neither lock of the cache is held while the client is asked: any number  *)
(* of tasks put the status of one block together at a time, the chain and   *)
(* the voter set move meanwhile, and the last to finish is the one whose    *)
(* status stays.                                                            *)
(***************************************************************************)
EXTENDS VoterSetUpdates

CONSTANTS
  Lookers,    \* the tasks that ask for a status
  NoEntry,    \* nothing is cached for a block
  FreshFor,   \* ticks a cached status is answered for, 5 seconds in the code
  KeepFor     \* ticks it is kept for at least, 30 seconds in the code

ASSUME CacheAssumption == KeepFor \in Nat \ {0} /\ FreshFor \in 1 .. KeepFor

VARIABLES
  finality_cache,   \* [Blocks -> Entries \cup {NoEntry}]
  lookup            \* [Lookers -> Lookups], the running or last lookup of each task

cacheVars == <<finality_cache, lookup>>
allVars == <<chainVars, updateVars, cacheVars>>

\* A status and the ticks since it was written; beyond KeepFor the code tells none
\* apart.
Entries == [status : Statuses, age : 0 .. KeepFor]

\* A lookup: the read it does next, its block, what it has read, and how it ended.
Lookups == [at : {"idle", "info", "justification", "voters", "write"}, block : Blocks,
            finalizedNumber : Nat, justification : Justifications \cup {None},
            status : Statuses, result : {"none", "status", "error"}]

NoLookup == [at |-> "idle", block |-> Genesis, finalizedNumber |-> 0, justification |-> None,
             status |-> NoStatus, result |-> "none"]

CacheTypeOK ==
  /\ UpdatesTypeOK
  /\ \A b \in Blocks : finality_cache[b] # NoEntry => finality_cache[b] \in Entries
  /\ lookup \in [Lookers -> Lookups]

CacheInit ==
  /\ UpdatesInit
  /\ finality_cache = [b \in Blocks |-> NoEntry]
  /\ lookup = [l \in Lookers |-> NoLookup]

-----------------------------------------------------------------------------
Cached(b) == finality_cache[b] # NoEntry

Fresh(b) == Cached(b) /\ finality_cache[b].age < FreshFor

\* A lookup begins with the cache; a fresh entry is the answer.
AnswerFromCache(l, b) ==
  /\ created = "both" /\ lookup[l].at = "idle"
  /\ Fresh(b)
  /\ lookup' = [lookup EXCEPT ![l] = [NoLookup EXCEPT !.block = b, !.result = "status",
                                                     !.status = finality_cache[b].status]]
  /\ UNCHANGED <<chainVars, updateVars, finality_cache>>

\* There is no fresh entry; get_finality_status begins with the header.
Miss(l, b) ==
  /\ created = "both" /\ lookup[l].at = "idle"
  /\ ~ Fresh(b)
  /\ lookup' = [lookup EXCEPT ![l] =
                  IF b \in imported
                  THEN [NoLookup EXCEPT !.at = "info", !.block = b]
                  ELSE [NoLookup EXCEPT !.result = "error"]]
  /\ UNCHANGED <<chainVars, updateVars, finality_cache>>

\* Variation: the best number is taken for the finalized one.
LookupBestNumber(l) ==
  /\ lookup[l].at = "info"
  /\ lookup' = [lookup EXCEPT ![l].at = "justification", ![l].finalizedNumber = Number[best]]
  /\ UNCHANGED <<chainVars, updateVars, finality_cache>>

LookupInfo(l) ==
  /\ lookup[l].at = "info"
  /\ lookup' = [lookup EXCEPT ![l].at = "justification",
                              ![l].finalizedNumber = Number[finalized]]
  /\ UNCHANGED <<chainVars, updateVars, finality_cache>>

LookupJustification(l) ==
  /\ lookup[l].at = "justification"
  /\ lookup' = [lookup EXCEPT ![l].at = "voters",
                              ![l].justification = justifications[lookup[l].block]]
  /\ UNCHANGED <<chainVars, updateVars, finality_cache>>

\* The justification is measured with the voter set of this moment.
LookupVoters(l) ==
  /\ lookup[l].at = "voters"
  /\ lookup' = [lookup EXCEPT ![l].at = "write", ![l].justification = None,
                              ![l].finalizedNumber = 0,
                              ![l].status = FinalityStatus(lookup[l].block,
                                lookup[l].finalizedNumber, lookup[l].justification, voter_set)]
  /\ UNCHANGED <<chainVars, updateVars, finality_cache>>

\* Variation: nothing is swept out.
Unswept(cache) == cache

\* `retain`: entries of KeepFor ticks and more go.
Swept(cache) ==
  [b \in Blocks |-> IF cache[b] # NoEntry /\ cache[b].age >= KeepFor
                    THEN NoEntry ELSE cache[b]]

\* Under the write lock: the entry is inserted, and old ones are swept out.
WriteToCache(l) ==
  /\ lookup[l].at = "write"
  /\ finality_cache' = Swept([finality_cache EXCEPT ![lookup[l].block] =
                                [status |-> lookup[l].status, age |-> 0]])
  /\ lookup' = [lookup EXCEPT ![l].at = "idle", ![l].result = "status"]
  /\ UNCHANGED <<chainVars, updateVars>>

\* The client fails to read the header or the justification.
FailLookup(l) ==
  /\ lookup[l].at \in {"info", "justification"}
  /\ lookup' = [lookup EXCEPT ![l] = [NoLookup EXCEPT !.result = "error"]]
  /\ UNCHANGED <<chainVars, updateVars, finality_cache>>

\* Time passes.
Tick ==
  /\ finality_cache' = [b \in Blocks |->
                          IF Cached(b)
                          THEN [finality_cache[b] EXCEPT !.age = MinOf(@ + 1, KeepFor)]
                          ELSE NoEntry]
  /\ UNCHANGED <<chainVars, updateVars, lookup>>

CacheNext ==
  \/ VotersStep /\ UNCHANGED cacheVars
  \/ Tick
  \/ \E l \in Lookers :
       \/ \E b \in Blocks : AnswerFromCache(l, b) \/ Miss(l, b)
       \/ LookupInfo(l)
       \/ LookupJustification(l)
       \/ LookupVoters(l)
       \/ WriteToCache(l)
       \/ FailLookup(l)

CacheSpec == CacheInit /\ [][CacheNext]_allVars

-----------------------------------------------------------------------------
\* A status that is answered, read from the client or taken from the cache, by
\* whomever it was written and however long the writer took, may lag behind the
\* chain but never claims more confirmations than the block has, nor a
\* finalization that has not come (src/finality/mod.rs:786 and :792).
AnswersDoNotOverstate ==
  \A l \in Lookers :
    lookup[l].result = "status" =>
      LET b == lookup[l].block
          status == lookup[l].status
      IN  /\ status.is_finalized => Number[b] <= Number[finalized]
          /\ status.confirmations <= SaturatingSub(Number[finalized], Number[b])

\* An unread entry is not kept for ever: any two entries were written within
\* thirty seconds of each other, for each writer sweeps what is older than its
\* own (src/finality/mod.rs:800).
EntriesAreContemporary ==
  \A a, b \in {x \in Blocks : Cached(x)} :
    finality_cache[a].age - finality_cache[b].age < KeepFor
=============================================================================
