----------------------------- MODULE FinalityWait -----------------------------
(***************************************************************************)
(* GrandpaFinality::wait_for_finality (src/finality/mod.rs:385-403): is_final *)
(* is evaluated again and again, with two seconds of sleep in between, until *)
(* it says `true` or fails or the timeout has elapsed.  The clock is looked  *)
(* at between two evaluations only.                                         *)
(*                                                                          *)
(* The timer may go off at any moment of a wait.  The number of retries,    *)
(* which the timeout error reports, is left out.                            *)
(***************************************************************************)
EXTENDS GrandpaFinality

VARIABLE wait   \* [Callers -> Waits], the running or last wait of each task

waitVars == <<vars, wait>>

\* A wait: what it does, its block reference, whether evaluation_timeout has
\* elapsed since its start, and how it ended.  History: `ripe`, that when its
\* last evaluation was due the block had nothing left to wait for.
Waits == [at : {"idle", "evaluating", "sleeping"}, block : Blocks,
          number : {Number[x] : x \in Blocks}, elapsed : BOOLEAN,
          result : {"none", "ok", "timeout", "error"}, ripe : BOOLEAN]

NoWait == [at |-> "idle", block |-> Genesis, number |-> Number[Genesis],
           elapsed |-> FALSE, result |-> "none", ripe |-> FALSE]

WaitTypeOK ==
  /\ TypeOK
  /\ wait \in [Callers -> Waits]
  /\ \A c \in Callers : wait[c].at = "sleeping" => call[c].at = "idle"

WaitInit == Init /\ wait = [c \in Callers |-> NoWait]

-----------------------------------------------------------------------------
\* The client, the voter set, and callers that ask is_final without waiting.
OtherStep ==
  /\ \/ ChainStep
     \/ \E list \in AuthorityLists : HandleAuthoritySetUpdate(list)
     \/ \E c \in Callers :
          /\ wait[c].at = "idle"
          /\ \/ \E b \in Blocks, n \in {Number[x] : x \in Blocks} : IsFinal(c, b, n)
             \/ CallStep(c)
  /\ UNCHANGED wait

\* wait_for_finality is entered: the clock starts and the first evaluation.
WaitForFinality(c, b, n) ==
  /\ wait[c].at = "idle"
  /\ wait' = [wait EXCEPT ![c] = [NoWait EXCEPT !.at = "evaluating", !.block = b,
                                                !.number = n, !.ripe = Ripe(b)]]
  /\ IsFinal(c, b, n)

EvaluationStep(c) ==
  /\ wait[c].at = "evaluating"
  /\ CallStep(c)
  /\ UNCHANGED wait

Evaluated(c, verdict) ==
  /\ wait[c].at = "evaluating" /\ call[c].at = "idle"
  /\ call[c].verdict = verdict

EndWait(c, result) ==
  /\ wait' = [wait EXCEPT ![c].at = "idle", ![c].result = result]
  /\ UNCHANGED vars

FoundFinal(c) == Evaluated(c, "final") /\ EndWait(c, "ok")

\* Any error of is_final ends the wait, that of a block not imported yet, too.
FailWait(c) == Evaluated(c, "error") /\ EndWait(c, "error")

\* Not final, and start.elapsed() is beyond the timeout.
TimeOut(c) ==
  /\ Evaluated(c, "not_final") /\ wait[c].elapsed
  /\ EndWait(c, "timeout")

\* Not final, and there is time left.
Sleep(c) ==
  /\ Evaluated(c, "not_final") /\ ~ wait[c].elapsed
  /\ wait' = [wait EXCEPT ![c].at = "sleeping"]
  /\ UNCHANGED vars

\* Variation: the clock is looked at before the evaluation.
WakeUpInTime(c) ==
  /\ wait[c].at = "sleeping"
  /\ IF wait[c].elapsed
     THEN wait' = [wait EXCEPT ![c].at = "idle", ![c].result = "timeout",
                               ![c].ripe = Ripe(wait[c].block)]
          /\ UNCHANGED vars
     ELSE wait' = [wait EXCEPT ![c].at = "evaluating", ![c].ripe = Ripe(wait[c].block)]
          /\ IsFinal(c, wait[c].block, wait[c].number)

\* Variation: the clock is started again for every evaluation.
WakeUpAndRestart(c) ==
  /\ wait[c].at = "sleeping"
  /\ wait' = [wait EXCEPT ![c].at = "evaluating", ![c].ripe = Ripe(wait[c].block),
                          ![c].elapsed = FALSE]
  /\ IsFinal(c, wait[c].block, wait[c].number)

\* The sleep is over: is_final is evaluated once more.
WakeUp(c) ==
  /\ wait[c].at = "sleeping"
  /\ wait' = [wait EXCEPT ![c].at = "evaluating", ![c].ripe = Ripe(wait[c].block)]
  /\ IsFinal(c, wait[c].block, wait[c].number)

\* evaluation_timeout elapses.
TimeoutElapses(c) ==
  /\ wait[c].at # "idle" /\ ~ wait[c].elapsed
  /\ wait' = [wait EXCEPT ![c].elapsed = TRUE]
  /\ UNCHANGED vars

\* What a waiting task does once it is polled.
WaitStep(c) ==
  \/ EvaluationStep(c)
  \/ FoundFinal(c)
  \/ FailWait(c)
  \/ TimeOut(c)
  \/ Sleep(c)
  \/ WakeUp(c)

WaitNext ==
  \/ OtherStep
  \/ \E c \in Callers :
       \/ \E b \in Blocks, n \in {Number[x] : x \in Blocks} : WaitForFinality(c, b, n)
       \/ WaitStep(c)
       \/ TimeoutElapses(c)

WaitSpec == WaitInit /\ [][WaitNext]_waitVars

\* The runtime polls a waiting task and wakes it from its sleep, the client
\* answers, with an answer or an error, and time passes.
WaitFairSpec ==
  WaitSpec /\ \A c \in Callers : WF_waitVars(WaitStep(c)) /\ WF_waitVars(TimeoutElapses(c))

-----------------------------------------------------------------------------
\* A wait that ends with Ok is about a block that is buried, and stays buried
\* (src/finality/mod.rs:391 and :402).
OkIsBuried ==
  \A c \in Callers :
    wait[c].result = "ok" => Number[wait[c].block] + MinConfirmations <= Number[finalized]

\* The timeout does not win against an answer that was there: a wait ends with a
\* timeout only if the block was not ripe yet when the last evaluation was due,
\* however late that evaluation came (src/finality/mod.rs:391-392), or if the chain
\* had left it too far behind.
TimeoutMeansUnripe ==
  \A c \in Callers :
    wait[c].result = "timeout" => ~ wait[c].ripe \/ TooOld(wait[c].block)

\* Every wait ends, whether or not the block is ever finalized
\* (src/finality/mod.rs:391-401).
EveryWaitEnds ==
  \A c \in Callers : wait[c].at # "idle" ~> wait[c].at = "idle"
=============================================================================
