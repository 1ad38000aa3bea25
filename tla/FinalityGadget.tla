---------------------------- MODULE FinalityGadget ----------------------------
(***************************************************************************)
(* What a caller may rely on when it asks the finality predicate            *)
(* (the trait FinalityPredicate, implemented in src/finality/mod.rs:323-404) *)
(* about a block: a question is decided in one moment between its beginning *)
(* and its end, whatever the chain does meanwhile.                          *)
(***************************************************************************)
EXTENDS Integers

CONSTANTS
  Callers,          \* the tasks that ask
  Blocks,
  Genesis,
  Number,           \* [Blocks -> Nat]
  MinConfirmations  \* how deep a block must be buried to be final

VARIABLES
  height,     \* the number of the last finalized block
  asked,      \* [Callers -> Blocks], the block of the running or last question
  answer,     \* [Callers -> Answers], how it was answered, or that it is running
  sure,       \* [Callers -> BOOLEAN]: the answer was `final` before it was asked
  declared,   \* the blocks somebody has been told are final
  aged        \* the blocks that are too far below the chain to be vouched for

vars == <<height, asked, answer, sure, declared, aged>>

Answers == {"none", "pending", "final", "not_final", "error"}

Buried(b) == Number[b] + MinConfirmations <= height

Init ==
  /\ height = Number[Genesis]
  /\ asked = [c \in Callers |-> Genesis]
  /\ answer = [c \in Callers |-> "none"]
  /\ sure = [c \in Callers |-> FALSE]
  /\ declared = {}
  /\ aged = {}

\* The chain finalizes a higher block.
Finalize ==
  /\ \E b \in Blocks : Number[b] > height /\ height' = Number[b]
  /\ UNCHANGED <<asked, answer, sure, declared, aged>>

\* The chain grows, and blocks far below it stay behind for ever.
Age ==
  /\ UNCHANGED <<height, asked, answer, sure, declared>>
  /\ aged' \in SUBSET Blocks /\ aged \subseteq aged'

Ask(c, b) ==
  /\ answer[c] # "pending"
  /\ asked' = [asked EXCEPT ![c] = b]
  /\ answer' = [answer EXCEPT ![c] = "pending"]
  /\ sure' = [sure EXCEPT ![c] = b \in declared]
  /\ UNCHANGED <<height, declared, aged>>

Affirm(c) ==
  /\ answer[c] = "pending" /\ Buried(asked[c])
  /\ answer' = [answer EXCEPT ![c] = "final"]
  /\ declared' = declared \cup {asked[c]}
  /\ UNCHANGED <<height, asked, sure, aged>>

\* A block that may be final already is denied only to those who cannot know, or
\* when it has been left too far behind.
Deny(c) ==
  /\ answer[c] = "pending"
  /\ ~ sure[c] \/ asked[c] \in aged
  /\ answer' = [answer EXCEPT ![c] = "not_final"]
  /\ UNCHANGED <<height, asked, sure, declared, aged>>

Fail(c) ==
  /\ answer[c] = "pending"
  /\ answer' = [answer EXCEPT ![c] = "error"]
  /\ UNCHANGED <<height, asked, sure, declared, aged>>

Next ==
  \/ Finalize
  \/ Age
  \/ \E c \in Callers :
       \/ \E b \in Blocks : Ask(c, b)
       \/ Affirm(c)
       \/ Deny(c)
       \/ Fail(c)

Spec == Init /\ [][Next]_vars
=============================================================================
