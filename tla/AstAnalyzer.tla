------------------------------ MODULE AstAnalyzer ------------------------------
(***************************************************************************)
(* The host's analysis of a push in a forked worker                         *)
(* (src/src/ast/AstAnalyzer.ts, src/src/ast/worker.ts).  A request ends with *)
(* the worker's answer, with its exit, or with a timer; failures in a row    *)
(* open a circuit that keeps the worker out of use for a while.             *)
(*                                                                         *)
(* What the worker finds is "found" or "empty"; the actions are composed    *)
(* by PushFeed.                                                             *)
(***************************************************************************)
EXTENDS Integers, FiniteSets

CONSTANTS
    Request,  \* the analyses of a session
    Strikes   \* CIRCUIT_BREAK_AFTER

ASSUME StrikesAssumption == Strikes \in Nat \ {0}

VARIABLES
    worker,    \* a child process is installed
    pending,   \* requests without an answer
    failures,  \* consecutiveFailures
    cooling,   \* circuitOpenUntil lies ahead
    outcome    \* outcome[x]: the promise of analyzeChange(); "asked": its input is being read

astVars == <<worker, pending, failures, cooling, outcome>>

AstInit ==
    /\ worker = FALSE
    /\ pending = {}
    /\ failures = 0
    /\ cooling = FALSE
    /\ outcome = [x \in Request |-> "none"]

\* n times markFailure(): the circuit opens at every multiple, and the count starts over
MarkFailures(n) ==
    /\ failures' = (failures + n) % Strikes
    /\ cooling' = (cooling \/ failures + n >= Strikes)

Settle(xs, result) ==
    outcome' = [x \in Request |-> IF x \in xs THEN result ELSE outcome[x]]

\* A null worker, or one that send() finds disconnected
RequestFails(x) ==
    /\ MarkFailures(1)
    /\ worker' = FALSE
    /\ Settle({x}, "empty")
    /\ UNCHANGED pending

\* The worker is forked if need be, and a timer runs for the request
RequestSent(x) ==
    /\ worker' = TRUE
    /\ pending' = pending \cup {x}
    /\ Settle({x}, "waiting")
    /\ UNCHANGED <<failures, cooling>>

\* analyzeChange()
Analyze(x) ==
    /\ outcome[x] = "asked"
    /\ IF cooling
       THEN Settle({x}, "empty") /\ UNCHANGED <<worker, pending, failures, cooling>>
       ELSE RequestFails(x) \/ RequestSent(x)

\* handle(): what the worker makes of a request; one bad file does not fail the pass
Answers == {[ok |-> TRUE, result |-> "found"], [ok |-> TRUE, result |-> "empty"],
            [ok |-> FALSE, result |-> "empty"]}

\* An answer counts while its request is pending, whichever child sent it
Answer(x) ==
    /\ x \in pending
    /\ pending' = pending \ {x}
    /\ \E a \in Answers :
          /\ Settle({x}, a.result)
          /\ IF a.ok THEN failures' = 0 /\ UNCHANGED cooling ELSE MarkFailures(1)
    /\ UNCHANGED worker

\* The timer kills the worker that is installed, also one forked since for another request
TimedOut(x) ==
    /\ x \in pending
    /\ pending' = pending \ {x}
    /\ worker' = FALSE
    /\ MarkFailures(1)
    /\ Settle({x}, "empty")

\* Slip: the requests of a worker that exits are forgotten
WorkerExitsSilent ==
    /\ worker
    /\ worker' = FALSE
    /\ pending' = {}
    /\ MarkFailures(Cardinality(pending))
    /\ UNCHANGED outcome

\* The installed worker exits; every pending request fails with it
WorkerExits ==
    /\ worker
    /\ worker' = FALSE
    /\ pending' = {}
    /\ MarkFailures(Cardinality(pending))
    /\ Settle(pending, "empty")

\* CIRCUIT_COOLDOWN_MS have passed
Cooled ==
    /\ cooling
    /\ cooling' = FALSE
    /\ UNCHANGED <<worker, pending, failures, outcome>>
===============================================================================
