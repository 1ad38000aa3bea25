-------------------------- MODULE MCGrandpaFinality --------------------------
(***************************************************************************)
(* Instances of GrandpaFinality for TLC: a branch of three blocks above the *)
(* genesis block and a fork of one, three authorities, and the few          *)
(* authority lists and justifications that differ in what they count for.   *)
(***************************************************************************)
EXTENDS GrandpaFinality

CONSTANTS g, a1, a2, a3, b1,   \* blocks
          v1, v2, v3           \* authorities

MCBlocks == {g, a1, a2, a3, b1}

MCParent ==
  [b \in MCBlocks |-> CASE b = a2 -> a1 [] b = a3 -> a2 [] OTHER -> g]

MCNumber ==
  [b \in MCBlocks |-> CASE b = g -> 0 [] b = a2 -> 2 [] b = a3 -> 3 [] OTHER -> 1]

\* Only the fork at the genesis block: the smallest tree with a stale block.
ShortBlocks == {g, a1, a2, b1}

ShortParent == [b \in ShortBlocks |-> MCParent[b]]
ShortNumber == [b \in ShortBlocks |-> MCNumber[b]]

MCAuthorities == {v1, v2, v3}

EqualVoters == [v \in MCAuthorities |-> 1]
LoneVoter == [v \in {v3} |-> 1]
NoVoter == [v \in {v1} |-> 0]                    \* no voter set
TooHeavy == [v \in MCAuthorities |-> MaxU64]      \* no voter set

FixedList == {EqualVoters}
FixedOrRefused == {EqualVoters, NoVoter, TooHeavy}
ChangingLists == {EqualVoters, LoneVoter, NoVoter, TooHeavy}

Valid(v) == [id |-> v, valid |-> TRUE]
Invalid(v) == [id |-> v, valid |-> FALSE]

Unanimous == <<Valid(v1), Valid(v2), Valid(v3)>>
TwoOfThree == <<Valid(v1), Invalid(v3), Valid(v2)>>

Undecodable == <<>>    \* counts like a justification without a precommit

TwoVotes == {Unanimous, TwoOfThree}

\* One voter signs two precommits, and with the other's they count as three.
VotesTwice == <<Valid(v1), Valid(v1), Valid(v2)>>

AllVotes == TwoVotes \cup {Undecodable, VotesTwice}
=============================================================================
