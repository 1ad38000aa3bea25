-------------------------- MODULE FinalityCacheProofs --------------------------
(***************************************************************************)
(* Theorems about the status cache and the updates of the voter set, for    *)
(* every tree of blocks, any number of tasks that ask for a status or       *)
(* update the voter set, and every pair of cache times: the type invariant, *)
(* that no answer claims more than the chain has finalized, and that the    *)
(* ages of entries differ by less than the time they are kept for.          *)
(***************************************************************************)
EXTENDS FinalityCache, FinalityRulesProofs

-----------------------------------------------------------------------------
(* Voter sets.                                                              *)

\* A list that makes a voter set has a voter, so that the voter set of a list is
\* never the absence of one.
LEMMA VoterSetIsSet ==
  ASSUME NEW list \in AuthorityLists, IsVoterSet(list)
  PROVE  VoterSet(list) \in VoterSets /\ VoterSet(list) # NoVoters
<1>1. VoterSet(list) \in VoterSets
  BY DEF VoterSets
<1>2. Units(list) # {}
  BY FS_EmptySet DEF IsVoterSet, TotalWeight
<1>3. PICK u \in (DOMAIN list) \X (1 .. MaxU64) : u[2] <= list[u[1]]
  BY <1>2 DEF Units
<1>4. PICK S \in SUBSET Authorities : list \in [S -> 0 .. MaxU64]
  BY AuthorityAssumption
<1>5. u[1] \in DOMAIN list /\ list[u[1]] \in 0 .. MaxU64 /\ u[2] \in 1 .. MaxU64
  BY <1>3, <1>4
<1>6. list[u[1]] > 0
  BY <1>3, <1>5, ConfigAssumption
<1>7. u[1] \in DOMAIN VoterSet(list)
  BY <1>5, <1>6 DEF VoterSet
<1>8. DOMAIN NoVoters = {}
  BY DEF NoVoters
<1>. QED  BY <1>1, <1>7, <1>8

LEMMA NoVotersIsNone == NoVoters \notin VoterSets
<1>1. \A list \in AuthorityLists : IsVoterSet(list) => VoterSet(list) # NoVoters
  BY VoterSetIsSet
<1>. QED  BY <1>1 DEF VoterSets

-----------------------------------------------------------------------------
(* Updates of the voter set.                                                *)

\* Whoever is about to write has read a list that makes a voter set.
AboutToWriteVoters ==
  \A u \in Updaters :
    update[u].at = "write" => IsVoterSet(RuntimeList[update[u].block])

\* There is no update before both objects exist.
UpdatesInv ==
  /\ UpdatesTypeOK
  /\ created # "both" => \A u \in Updaters : update[u] = NoUpdate
  /\ AboutToWriteVoters

LEMMA UpdatesInvInit == UpdatesInit => UpdatesInv
<1> SUFFICES ASSUME UpdatesInit PROVE UpdatesInv
  OBVIOUS
<1>1. ChainTypeOK
  BY TreeAssumption DEF UpdatesInit, ChainInit, ChainTypeOK
<1>2. NoUpdate \in Updates
  BY TreeAssumption DEF NoUpdate, Updates
<1>3. \A u \in Updaters : update[u].result = "none" /\ update[u].at = "idle"
  BY DEF UpdatesInit, NoUpdate
<1>. QED  BY <1>1, <1>2, <1>3
          DEF UpdatesInit, UpdatesInv, UpdatesTypeOK, AboutToWriteVoters

LEMMA UpdatesInvStep ==
  ASSUME UpdatesInv, VotersStep \/ UNCHANGED <<chainVars, updateVars>>
  PROVE  UpdatesInv'
<1> USE DEF UpdatesInv, UpdatesTypeOK
<1>0. ASSUME UNCHANGED chainVars PROVE ChainTypeOK'
  BY <1>0 DEF ChainTypeOK, chainVars
<1>1. ASSUME ChainTypeOK', UNCHANGED updateVars
      PROVE  UpdatesInv'
  BY <1>1 DEF updateVars, AboutToWriteVoters
<1>2. CASE ChainNext /\ UNCHANGED updateVars
  BY <1>1, <1>2, ChainTypeInvariant
<1>3. CASE CreateClient \/ CreatePredicate \/ FailCreation
  <2>1. /\ created # "both" /\ UNCHANGED <<chainVars, update>>
        /\ \A u \in Updaters : update[u] = NoUpdate
    BY <1>3 DEF CreateClient, CreatePredicate, FailCreation
  <2>2. AboutToWriteVoters'
    BY <2>1 DEF AboutToWriteVoters, NoUpdate
  <2>3. RuntimeList[best] \in AuthorityLists
    BY UpdatesAssumption DEF ChainTypeOK
  <2>4. /\ voter_set' \in VoterSets \cup {NoVoters} /\ own_voters' \in VoterSets \cup {NoVoters}
        /\ created' \in {"nothing", "client", "both"}
        /\ voter_set' = NoVoters <=> created' = "nothing"
        /\ own_voters' = NoVoters <=> created' # "both"
    BY <1>3, <2>1, <2>3, VoterSetIsSet DEF CreateClient, CreatePredicate, FailCreation
  <2>. QED  BY <1>0, <2>1, <2>2, <2>4
<1>4. ASSUME NEW list \in AuthorityLists, HandleAuthoritySetChange(list)
      PROVE  UpdatesInv'
  <2>1. voter_set' \in VoterSets /\ voter_set' # NoVoters
    BY <1>4, VoterSetIsSet DEF HandleAuthoritySetChange
  <2>2. AboutToWriteVoters'
    BY <1>4 DEF HandleAuthoritySetChange, AboutToWriteVoters
  <2>. QED  BY <1>0, <1>4, <2>1, <2>2 DEF HandleAuthoritySetChange
<1>5. ASSUME NEW u \in Updaters, NEW b \in Blocks, ReadAuthorities(u, b)
      PROVE  UpdatesInv'
  <2>1. [NoUpdate EXCEPT !.at = "write", !.block = b] \in Updates
    BY DEF NoUpdate, Updates
  <2>2. /\ update' \in [Updaters -> Updates] /\ update'[u].result = "none"
        /\ update'[u].block = b
        /\ \A v \in Updaters \ {u} : update'[v] = update[v]
    BY <1>5, <2>1 DEF ReadAuthorities, NoUpdate
  <2>3. AboutToWriteVoters'
    BY <1>5, <2>2 DEF AboutToWriteVoters, ReadAuthorities
  <2>. QED  BY <1>0, <1>5, <2>2, <2>3 DEF ReadAuthorities
<1>6. ASSUME NEW u \in Updaters, FailUpdate(u)
      PROVE  UpdatesInv'
  <2>1. [NoUpdate EXCEPT !.result = "error"] \in Updates
    BY TreeAssumption DEF NoUpdate, Updates
  <2>2. /\ update' \in [Updaters -> Updates] /\ update'[u].result = "error"
        /\ update'[u].at = "idle"
        /\ \A v \in Updaters \ {u} : update'[v] = update[v]
    BY <1>6, <2>1 DEF FailUpdate, NoUpdate
  <2>3. AboutToWriteVoters'
    BY <1>6, <2>2 DEF AboutToWriteVoters, FailUpdate
  <2>. QED  BY <1>0, <1>6, <2>2, <2>3 DEF FailUpdate
<1>7. ASSUME NEW u \in Updaters, WriteVoterSet(u)
      PROVE  UpdatesInv'
  <2>1. created = "both" /\ RuntimeList[update[u].block] \in AuthorityLists
        /\ IsVoterSet(RuntimeList[update[u].block])
    BY <1>7, UpdatesAssumption DEF WriteVoterSet, NoUpdate, Updates, AboutToWriteVoters
  <2>2. voter_set' \in VoterSets /\ voter_set' # NoVoters
    BY <1>7, <2>1, VoterSetIsSet DEF WriteVoterSet
  <2>3. update' = [update EXCEPT ![u].at = "idle", ![u].result = "ok"]
    BY <1>7 DEF WriteVoterSet
  <2>4. /\ update' \in [Updaters -> Updates] /\ update'[u].at = "idle"
        /\ \A v \in Updaters \ {u} : update'[v] = update[v]
    BY <2>3 DEF Updates
  <2>5. AboutToWriteVoters'
    BY <1>7, <2>4 DEF AboutToWriteVoters
  <2>. QED  BY <1>0, <1>7, <2>1, <2>2, <2>4, <2>5 DEF WriteVoterSet
<1>. QED
  BY <1>0, <1>1, <1>2, <1>3, <1>4, <1>5, <1>6, <1>7 DEF VotersStep

-----------------------------------------------------------------------------
(* The lookups.                                                             *)

\* What a status of b claims is no more than there is with n finalized.
Sound(status, b, n) ==
  /\ status.is_finalized => Number[b] <= n
  /\ status.confirmations <= SaturatingSub(n, Number[b])

LEMMA SoundGrows ==
  ASSUME NEW status \in Statuses, NEW b \in Blocks, NEW n \in Nat, NEW m \in Nat, n <= m,
         Sound(status, b, n)
  PROVE  Sound(status, b, m)
<1>1. Number[b] \in Nat /\ status.confirmations \in Nat
  BY TreeAssumption DEF Statuses
<1>2. (Number[b] <= n) => (Number[b] <= m)
  BY <1>1
<1>3. status.confirmations <= SaturatingSub(m, Number[b])
  BY <1>1 DEF Sound, SaturatingSub
<1>. QED  BY <1>2, <1>3, Zenon DEF Sound

LEMMA SoundStatus ==
  ASSUME NEW b \in Blocks, NEW n \in Nat, NEW justification, NEW vs
  PROVE  Sound(FinalityStatus(b, n, justification, vs), b, n)
<1>1. Number[b] \in Nat
  BY TreeAssumption
<1>2. FinalityStatus(b, n, justification, vs).is_finalized = (Number[b] <= n)
  BY Zenon DEF FinalityStatus
<1>3. FinalityStatus(b, n, justification, vs).confirmations = SaturatingSub(n, Number[b])
  BY DEF FinalityStatus
<1>4. SaturatingSub(n, Number[b]) <= SaturatingSub(n, Number[b])
  BY <1>1 DEF SaturatingSub
<1>. QED  BY <1>2, <1>3, <1>4, Zenon DEF Sound

LookupInv(l) ==
  /\ lookup[l] \in Lookups
  /\ lookup[l].at # "idle" => created = "both"
  /\ lookup[l].at \in {"justification", "voters"} =>
       lookup[l].finalizedNumber <= Number[finalized]
  /\ lookup[l].at = "write" \/ lookup[l].result = "status" =>
       Sound(lookup[l].status, lookup[l].block, Number[finalized])

EntryInv(b) ==
  Cached(b) => /\ finality_cache[b] \in Entries
               /\ Sound(finality_cache[b].status, b, Number[finalized])

\* All that is read, on its way or cached is sound for what is finalized by now,
\* and the cache holds what the writers agree to keep.
CacheInv ==
  /\ UpdatesInv
  /\ lookup = [l \in Lookers |-> lookup[l]]
  /\ \A l \in Lookers : LookupInv(l)
  /\ finality_cache = [b \in Blocks |-> finality_cache[b]]
  /\ \A b \in Blocks : EntryInv(b)
  /\ EntriesAreContemporary

\* Neither the chain nor the voter set takes anything of a lookup back.
LEMMA VotersStepKeeps ==
  ASSUME CacheInv, VotersStep \/ UNCHANGED <<chainVars, updateVars>>, UNCHANGED cacheVars
  PROVE  CacheInv'
<1> USE DEF CacheInv, cacheVars
<1>1. UpdatesInv'
  BY UpdatesInvStep
<1>2. [ChainNext]_chainVars
  BY DEF VotersStep, CreateClient, CreatePredicate, FailCreation, HandleAuthoritySetChange,
         ReadAuthorities, FailUpdate, WriteVoterSet
<1>3. /\ Number[finalized] \in Nat /\ Number[finalized'] \in Nat
      /\ Number[finalized] <= Number[finalized']
  BY <1>2, ChainGrows DEF UpdatesInv, UpdatesTypeOK
<1>4. created = "both" => created' = "both"
  BY DEF VotersStep, CreateClient, CreatePredicate, FailCreation, HandleAuthoritySetChange,
         ReadAuthorities, FailUpdate, WriteVoterSet, updateVars
<1>5. ASSUME NEW l \in Lookers
      PROVE  LookupInv(l)'
  <2>1. PICK n, m : n = Number[finalized] /\ m = Number[finalized']
    OBVIOUS
  <2>2. PICK x \in Lookups : x = lookup[l]
    BY DEF LookupInv
  <2>3. x.status \in Statuses /\ x.block \in Blocks /\ x.finalizedNumber \in Nat
    BY DEF Lookups
  <2>4. Sound(x.status, x.block, n) => Sound(x.status, x.block, m)
    BY <1>3, <2>1, <2>3, SoundGrows
  <2>5. x.finalizedNumber <= n => x.finalizedNumber <= m
    BY <1>3, <2>1, <2>3
  <2>6. lookup'[l] = x
    BY <2>2
  <2>. QED  BY <1>4, <2>1, <2>2, <2>4, <2>5, <2>6 DEF LookupInv, Sound
<1>6. ASSUME NEW b \in Blocks
      PROVE  EntryInv(b)'
  <2> SUFFICES ASSUME Cached(b)
               PROVE  Sound(finality_cache[b].status, b, Number[finalized'])
    BY DEF EntryInv, Cached, Sound
  <2>1. PICK n, m : n = Number[finalized] /\ m = Number[finalized']
    OBVIOUS
  <2>2. PICK s \in Statuses : s = finality_cache[b].status
    BY DEF EntryInv, Entries
  <2>. QED  BY <1>3, <2>1, <2>2, SoundGrows DEF EntryInv
<1>7. EntriesAreContemporary'
  BY DEF EntriesAreContemporary, Cached
<1>. QED  BY <1>1, <1>5, <1>6, <1>7

\* A lookup that goes on leaves everything but itself alone.
LEMMA LookupKeeps ==
  ASSUME CacheInv, NEW l \in Lookers, NEW x, lookup' = [lookup EXCEPT ![l] = x],
         UNCHANGED <<chainVars, updateVars>>, LookupInv(l)'
  PROVE  /\ UpdatesInv'
         /\ lookup' = [k \in Lookers |-> lookup'[k]]
         /\ \A k \in Lookers : LookupInv(k)'
<1>1. UpdatesInv'
  BY UpdatesInvStep DEF CacheInv
<1>2. ASSUME NEW k \in Lookers \ {l}
      PROVE  LookupInv(k)'
  <2>1. LookupInv(k) /\ lookup'[k] = lookup[k]
    BY DEF CacheInv
  <2>2. created' = created /\ finalized' = finalized
    BY DEF chainVars, updateVars
  <2>. QED  BY <2>1, <2>2 DEF LookupInv, Sound
<1>. QED  BY <1>1, <1>2 DEF CacheInv

\* A lookup that goes on without writing to the cache.
LEMMA LookupStep ==
  ASSUME CacheInv, NEW l \in Lookers, NEW x \in Lookups,
         lookup' = [lookup EXCEPT ![l] = x],
         UNCHANGED <<chainVars, updateVars, finality_cache>>,
         x.at # "idle" => created = "both",
         x.at \in {"justification", "voters"} => x.finalizedNumber <= Number[finalized],
         x.at = "write" \/ x.result = "status" =>
           Sound(x.status, x.block, Number[finalized])
  PROVE  CacheInv'
<1>1. lookup'[l] = x
  BY DEF CacheInv
<1>2. created' = created /\ finalized' = finalized /\ finality_cache' = finality_cache
  BY DEF chainVars, updateVars
<1>3. LookupInv(l)'
  BY <1>1, <1>2 DEF LookupInv, Sound
<1>4. /\ UpdatesInv'
      /\ lookup' = [k \in Lookers |-> lookup'[k]]
      /\ \A k \in Lookers : LookupInv(k)'
  BY <1>3, LookupKeeps
<1>5. \A b \in Blocks : EntryInv(b)'
  BY <1>2 DEF CacheInv, EntryInv, Cached, Sound
<1>6. EntriesAreContemporary'
  BY <1>2 DEF CacheInv, EntriesAreContemporary, Cached
<1>. QED  BY <1>2, <1>4, <1>5, <1>6 DEF CacheInv

\* The writer sweeps what is older than its own entry by KeepFor.
LEMMA WriteStep ==
  ASSUME CacheInv, NEW l \in Lookers, WriteToCache(l)
  PROVE  CacheInv'
<1> DEFINE b == lookup[l].block
           s == lookup[l].status
           x == [lookup[l] EXCEPT !.at = "idle", !.result = "status"]
           entry == [status |-> s, age |-> 0]
<1>1. /\ lookup[l] \in Lookups /\ b \in Blocks /\ s \in Statuses
      /\ Sound(s, b, Number[finalized])
  BY DEF CacheInv, LookupInv, Lookups, WriteToCache
<1>2. lookup' = [lookup EXCEPT ![l] = x] /\ UNCHANGED <<chainVars, updateVars>>
  BY DEF WriteToCache
<1>3. x \in Lookups /\ x.at = "idle" /\ x.status = s /\ x.block = b
  BY <1>1 DEF Lookups
<1>4. created' = created /\ finalized' = finalized
  BY <1>2 DEF chainVars, updateVars
<1>5. LookupInv(l)'
  <2>1. lookup'[l] = x
    BY <1>2 DEF CacheInv
  <2>. QED  BY <1>1, <1>3, <1>4, <2>1 DEF LookupInv, Sound
<1>6. /\ UpdatesInv'
      /\ lookup' = [k \in Lookers |-> lookup'[k]]
      /\ \A k \in Lookers : LookupInv(k)'
  BY <1>2, <1>5, LookupKeeps
<1>7. entry \in Entries /\ entry.age = 0 /\ entry.status = s
  BY <1>1, CacheAssumption DEF Entries
<1>8. /\ finality_cache' = [y \in Blocks |-> finality_cache'[y]]
      /\ \A y \in Blocks : finality_cache'[y] # NoEntry =>
           \/ y = b /\ finality_cache'[y] = entry
           \/ Cached(y) /\ finality_cache'[y] = finality_cache[y]
              /\ finality_cache[y].age < KeepFor
  <2>. HIDE DEF entry
  <2>1. \A y \in Blocks : Cached(y) => finality_cache[y].age \in 0 .. KeepFor
    BY DEF CacheInv, EntryInv, Entries
  <2>2. finality_cache' = Swept([finality_cache EXCEPT ![b] = entry])
    BY DEF WriteToCache, entry
  <2>3. [finality_cache EXCEPT ![b] = entry] =
          [y \in Blocks |-> IF y = b THEN entry ELSE finality_cache[y]]
    BY DEF CacheInv
  <2>4. finality_cache' =
          [y \in Blocks |->
             LET old == IF y = b THEN entry ELSE finality_cache[y]
             IN  IF old # NoEntry /\ old.age >= KeepFor THEN NoEntry ELSE old]
    BY <2>2, <2>3 DEF Swept
  <2>. QED  BY <2>1, <2>4, CacheAssumption DEF Cached
<1>9. ASSUME NEW y \in Blocks, finality_cache'[y] # NoEntry
      PROVE  /\ finality_cache'[y] \in Entries
             /\ Sound(finality_cache'[y].status, y, Number[finalized'])
             /\ finality_cache'[y].age \in 0 .. KeepFor /\ finality_cache'[y].age < KeepFor
  <2>. HIDE DEF entry
  <2>1. CASE y = b /\ finality_cache'[y] = entry
    BY <1>1, <1>4, <1>7, <2>1, CacheAssumption
  <2>2. CASE /\ Cached(y) /\ finality_cache'[y] = finality_cache[y]
             /\ finality_cache[y].age < KeepFor
    BY <1>4, <2>2 DEF CacheInv, EntryInv, Entries
  <2>. QED  BY <1>8, <1>9, <2>1, <2>2
<1>10. \A y \in Blocks : EntryInv(y)'
  BY <1>9 DEF EntryInv, Cached, Sound
<1>11. EntriesAreContemporary'
  BY <1>9, CacheAssumption DEF EntriesAreContemporary, Cached
<1>. QED  BY <1>6, <1>8, <1>10, <1>11 DEF CacheInv

\* Time makes all entries older together, as far as their age is told apart.
LEMMA TickStep ==
  ASSUME CacheInv, Tick
  PROVE  CacheInv'
<1>1. UNCHANGED <<chainVars, updateVars, lookup>>
  BY DEF Tick
<1>2. created' = created /\ finalized' = finalized
  BY <1>1 DEF chainVars, updateVars
<1>3. UpdatesInv'
  BY <1>1, UpdatesInvStep DEF CacheInv
<1>4. \A l \in Lookers : LookupInv(l)'
  BY <1>1, <1>2 DEF CacheInv, LookupInv, Sound
<1>5. finality_cache' = [b \in Blocks |-> finality_cache'[b]]
  BY DEF Tick
<1>6. ASSUME NEW b \in Blocks, finality_cache'[b] # NoEntry
      PROVE  /\ Cached(b)
             /\ finality_cache[b].age \in 0 .. KeepFor
             /\ finality_cache'[b].age = MinOf(finality_cache[b].age + 1, KeepFor)
             /\ finality_cache'[b].status = finality_cache[b].status
             /\ finality_cache'[b] \in Entries
  <2>1. Cached(b)
    BY <1>6 DEF Tick, Cached
  <2>2. finality_cache[b] \in Entries
    BY <2>1 DEF CacheInv, EntryInv
  <2>3. finality_cache'[b] =
          [finality_cache[b] EXCEPT !.age = MinOf(finality_cache[b].age + 1, KeepFor)]
    BY <2>1 DEF Tick
  <2>4. MinOf(finality_cache[b].age + 1, KeepFor) \in 0 .. KeepFor
    BY <2>2, CacheAssumption DEF Entries, MinOf
  <2>. QED  BY <2>1, <2>2, <2>3, <2>4 DEF Entries
<1>7. \A b \in Blocks : EntryInv(b)'
  BY <1>2, <1>6 DEF CacheInv, EntryInv, Cached, Sound
<1>8. EntriesAreContemporary'
  <2> SUFFICES ASSUME NEW a \in Blocks, NEW b \in Blocks, finality_cache'[a] # NoEntry,
                      finality_cache'[b] # NoEntry
               PROVE  finality_cache'[a].age - finality_cache'[b].age < KeepFor
    BY DEF EntriesAreContemporary, Cached
  <2>1. finality_cache[a].age - finality_cache[b].age < KeepFor
    BY <1>6 DEF CacheInv, EntriesAreContemporary
  <2>. QED  BY <1>6, <2>1, CacheAssumption DEF MinOf
<1>. QED  BY <1>1, <1>3, <1>4, <1>5, <1>7, <1>8 DEF CacheInv

-----------------------------------------------------------------------------
(* The invariant of the specification.                                      *)

LEMMA CacheInvInit == CacheInit => CacheInv
<1> SUFFICES ASSUME CacheInit PROVE CacheInv
  OBVIOUS
<1>1. NoLookup \in Lookups
  BY TreeAssumption DEF NoLookup, Lookups, NoStatus, Statuses
<1>2. \A l \in Lookers : LookupInv(l)
  BY <1>1 DEF CacheInit, LookupInv, NoLookup
<1>. QED  BY <1>2, UpdatesInvInit
          DEF CacheInit, CacheInv, EntryInv, Cached, EntriesAreContemporary

LEMMA CacheInvStep == CacheInv /\ [CacheNext]_allVars => CacheInv'
<1> SUFFICES ASSUME CacheInv, [CacheNext]_allVars
             PROVE  CacheInv'
  OBVIOUS
<1>0. /\ Number[finalized] \in Nat
      /\ \A l \in Lookers : LookupInv(l) /\ lookup[l] \in Lookups
      /\ NoLookup \in Lookups
  BY TreeAssumption DEF CacheInv, LookupInv, UpdatesInv, UpdatesTypeOK, ChainTypeOK,
                        NoLookup, Lookups, NoStatus, Statuses
<1>1. CASE VotersStep /\ UNCHANGED cacheVars
  BY <1>1, VotersStepKeeps
<1>2. CASE UNCHANGED allVars
  BY <1>2, VotersStepKeeps DEF allVars
<1>3. CASE Tick
  BY <1>3, TickStep
<1>4. ASSUME NEW l \in Lookers, NEW b \in Blocks, AnswerFromCache(l, b)
      PROVE  CacheInv'
  <2> DEFINE x == [NoLookup EXCEPT !.block = b, !.result = "status",
                                   !.status = finality_cache[b].status]
  <2>1. Cached(b) /\ EntryInv(b)
    BY <1>4 DEF AnswerFromCache, Fresh, CacheInv
  <2>2. finality_cache[b].status \in Statuses
    BY <2>1 DEF EntryInv, Entries
  <2>3. /\ x \in Lookups /\ x.at = "idle" /\ x.block = b
        /\ x.status = finality_cache[b].status
    BY <1>0, <2>2 DEF NoLookup, Lookups
  <2>4. lookup' = [lookup EXCEPT ![l] = x]
        /\ UNCHANGED <<chainVars, updateVars, finality_cache>>
    BY <1>4 DEF AnswerFromCache
  <2>. HIDE DEF x
  <2>. QED  BY <2>1, <2>3, <2>4, LookupStep DEF EntryInv
<1>5. ASSUME NEW l \in Lookers, NEW b \in Blocks, Miss(l, b)
      PROVE  CacheInv'
  <2> DEFINE x == IF b \in imported THEN [NoLookup EXCEPT !.at = "info", !.block = b]
                  ELSE [NoLookup EXCEPT !.result = "error"]
  <2>1. x \in Lookups /\ x.at \in {"idle", "info"} /\ x.result # "status"
    BY <1>0 DEF NoLookup, Lookups
  <2>2. lookup' = [lookup EXCEPT ![l] = x] /\ created = "both"
        /\ UNCHANGED <<chainVars, updateVars, finality_cache>>
    BY <1>5 DEF Miss
  <2>. HIDE DEF x
  <2>. QED  BY <2>1, <2>2, LookupStep
<1>6. ASSUME NEW l \in Lookers, LookupInfo(l)
      PROVE  CacheInv'
  <2> DEFINE x == [lookup[l] EXCEPT !.at = "justification",
                                    !.finalizedNumber = Number[finalized]]
  <2>1. /\ x \in Lookups /\ x.at = "justification" /\ x.finalizedNumber = Number[finalized]
        /\ x.result = lookup[l].result /\ x.status = lookup[l].status
        /\ x.block = lookup[l].block
    BY <1>0 DEF Lookups
  <2>2. lookup' = [lookup EXCEPT ![l] = x] /\ lookup[l].at = "info"
        /\ UNCHANGED <<chainVars, updateVars, finality_cache>>
    BY <1>6 DEF LookupInfo
  <2>3. created = "both" /\ Number[finalized] <= Number[finalized]
    BY <1>0, <2>2 DEF LookupInv
  <2>. HIDE DEF x
  <2>. QED  BY <1>0, <2>1, <2>2, <2>3, LookupStep DEF LookupInv
<1>7. ASSUME NEW l \in Lookers, LookupJustification(l)
      PROVE  CacheInv'
  <2> DEFINE x == [lookup[l] EXCEPT !.at = "voters",
                                    !.justification = justifications[lookup[l].block]]
  <2>0. justifications[lookup[l].block] \in Justifications \cup {None}
    BY <1>0 DEF CacheInv, UpdatesInv, UpdatesTypeOK, ChainTypeOK, Lookups
  <2>1. /\ x \in Lookups /\ x.at = "voters"
        /\ x.finalizedNumber = lookup[l].finalizedNumber
        /\ x.result = lookup[l].result /\ x.status = lookup[l].status
        /\ x.block = lookup[l].block
    BY <1>0, <2>0 DEF Lookups
  <2>2. lookup' = [lookup EXCEPT ![l] = x] /\ lookup[l].at = "justification"
        /\ UNCHANGED <<chainVars, updateVars, finality_cache>>
    BY <1>7 DEF LookupJustification
  <2>3. created = "both"
    BY <1>0, <2>2 DEF LookupInv
  <2>. HIDE DEF x
  <2>. QED  BY <1>0, <2>1, <2>2, <2>3, LookupStep DEF LookupInv
<1>8. ASSUME NEW l \in Lookers, LookupVoters(l)
      PROVE  CacheInv'
  <2> DEFINE s == FinalityStatus(lookup[l].block, lookup[l].finalizedNumber,
                                 lookup[l].justification, voter_set)
             x == [lookup[l] EXCEPT !.at = "write", !.justification = None,
                                    !.finalizedNumber = 0, !.status = s]
  <2>0. /\ lookup[l].block \in Blocks /\ lookup[l].finalizedNumber \in Nat
        /\ lookup[l].justification \in Justifications \cup {None}
    BY <1>0 DEF Lookups
  <2>1. created = "both" /\ lookup[l].at = "voters"
        /\ lookup[l].finalizedNumber <= Number[finalized]
    BY <1>0, <1>8 DEF LookupInv, LookupVoters
  <2>2. voter_set \in VoterSets
    BY <2>1 DEF CacheInv, UpdatesInv, UpdatesTypeOK
  <2>3. s \in Statuses
    BY <2>0, <2>2, StatusType
  <2>4. Sound(s, lookup[l].block, lookup[l].finalizedNumber)
    BY <2>0, SoundStatus
  <2>5. Sound(s, lookup[l].block, Number[finalized])
    <3>. HIDE DEF s
    <3>. QED  BY <1>0, <2>0, <2>1, <2>3, <2>4, SoundGrows
  <2>6. lookup' = [lookup EXCEPT ![l] = x]
        /\ UNCHANGED <<chainVars, updateVars, finality_cache>>
    BY <1>8 DEF LookupVoters
  <2>. HIDE DEF s
  <2>7. x \in Lookups /\ x.at = "write" /\ x.status = s /\ x.block = lookup[l].block
    BY <1>0, <2>3 DEF Lookups
  <2>. HIDE DEF x
  <2>. QED  BY <2>1, <2>5, <2>6, <2>7, LookupStep
<1>9. ASSUME NEW l \in Lookers, FailLookup(l)
      PROVE  CacheInv'
  <2> DEFINE x == [NoLookup EXCEPT !.result = "error"]
  <2>1. x \in Lookups /\ x.at = "idle" /\ x.result # "status"
    BY <1>0 DEF NoLookup, Lookups
  <2>2. lookup' = [lookup EXCEPT ![l] = x]
        /\ UNCHANGED <<chainVars, updateVars, finality_cache>>
    BY <1>9 DEF FailLookup
  <2>. HIDE DEF x
  <2>. QED  BY <2>1, <2>2, LookupStep
<1>10. ASSUME NEW l \in Lookers, WriteToCache(l)
       PROVE  CacheInv'
  BY <1>10, WriteStep
<1>. QED
  BY <1>1, <1>2, <1>3, <1>4, <1>5, <1>6, <1>7, <1>8, <1>9, <1>10 DEF CacheNext

LEMMA CacheInvariant == CacheSpec => []CacheInv
BY CacheInvInit, CacheInvStep, PTL DEF CacheSpec

\* In every reachable state the variables have their types: what is cached and
\* what a lookup holds are statuses, and there is a voter set from the creation of
\* the client on (src/finality/mod.rs:520 and :777).
THEOREM CacheTypeInvariant == CacheSpec => []CacheTypeOK
<1>1. CacheInv => CacheTypeOK
  BY DEF CacheInv, UpdatesInv, CacheTypeOK, LookupInv, EntryInv, Cached
<1>. QED  BY <1>1, CacheInvariant, PTL

\* No answer, fresh or from the cache, claims more than is finalized.
THEOREM AnswersDoNotOverstateHolds == CacheSpec => []AnswersDoNotOverstate
<1>1. CacheInv => AnswersDoNotOverstate
  BY DEF CacheInv, LookupInv, Sound, AnswersDoNotOverstate
<1>. QED  BY <1>1, CacheInvariant, PTL

\* The ages of any two entries of the cache differ by less than KeepFor: the writer of
\* the younger one has swept out what was older by as much (src/finality/mod.rs:800).
THEOREM EntriesAreContemporaryHolds == CacheSpec => []EntriesAreContemporary
<1>1. CacheInv => EntriesAreContemporary
  BY DEF CacheInv
<1>. QED  BY <1>1, CacheInvariant, PTL
=============================================================================
