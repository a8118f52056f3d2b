--------------------------- MODULE AgentLifecycle ---------------------------
(***************************************************************************)
(* A test binary instrumented by the agent: TestMain calls scopeagent.Run  *)
(* (src/ast/sources.go:163-169), which runs the tests (m.Run) and then     *)
(* stops GlobalAgent (Agent.Stop, src/instrumentation/testing/testing.go:  *)
(* 532-540: kill the recorder's tomb, wait for its loop, print the report).*)
(* Every test started by scopeagent.StartTest ends through Test.End        *)
(* (src/instrumentation/testing/init.go:194-241), which finishes the       *)
(* test's span, handing it to the recorder; a panicking test then runs the *)
(* panic handler StartTest installed (Agent.Flush, sources.go:171-177,     *)
(* testing.go:543-548) and re-panics, which ends the process.  The tests   *)
(* run in parallel (t.Parallel), the recorder's loop concurrently.         *)
(*                                                                         *)
(* init (sources.go:144-161) leaves GlobalAgent nil when NewAgent fails    *)
(* (no API key, testing.go:408-416); the tests then run with the tracer    *)
(* the agent never replaced, whose spans reach no recorder, and Run and    *)
(* the panic handler skip the agent (sources.go:165, 173).                 *)
(*                                                                         *)
(* One span per test; the test's own span stands for every span it        *)
(* finishes.                                                              *)
(***************************************************************************)
EXTENDS Recorder

CONSTANTS
    Tests,   \* the tests m.Run runs, each finishing the span of its own name
    Panics   \* the tests that may panic (each run of one may or may not)

ASSUME Panics \subseteq Tests /\ Tests = Spans /\ Flushers = Tests

VARIABLES
    main,      \* the main goroutine: "tests" (in m.Run), "stopping" (in Stop),
               \* "exited" (Run returned), "crashed" (a test re-panicked)
    test,      \* per test: "pending", "running", "flushing", "sending", "done"
    recorded,  \* the spans handed to the recorder so far
    globalAgent \* GlobalAgent is set (NewAgent succeeded)

agentVars == <<main, test, recorded, globalAgent>>
vars == <<recorderVars, agentVars>>

\* The process is running: no recorder step happens after it exits.
Alive == main \in {"tests", "stopping"}

Init ==
    /\ RecorderInit
    /\ main = "tests"
    /\ test = [t \in Tests |-> "pending"]
    /\ recorded = {}
    /\ globalAgent \in BOOLEAN

\* m.Run starts test t, which calls scopeagent.StartTest (sources.go:171-180,
\* init.go:136-191): its span is started.
StartTest(t) ==
    /\ main = "tests"
    /\ test[t] = "pending"
    /\ test' = [test EXCEPT ![t] = "running"]
    /\ UNCHANGED <<recorderVars, main, recorded, globalAgent>>

\* span.Finish: the agent's tracer hands the span to the recorder; without
\* an agent the span goes nowhere.
SpanFinish(t) ==
    IF globalAgent
      THEN RecordSpan(t) /\ recorded' = recorded \cup {t}
      ELSE UNCHANGED <<recorderVars, recorded>>

\* Test.End without a panic (init.go:206-240): the status is tagged and the
\* span finished, which records it.
EndTest(t) ==
    /\ main = "tests"
    /\ test[t] = "running"
    /\ SpanFinish(t)
    /\ test' = [test EXCEPT ![t] = "done"]
    /\ UNCHANGED <<main, globalAgent>>

\* Test.End recovering a panic (init.go:195-200): the span is tagged ERROR and
\* finished.
PanicEnd(t) ==
    /\ main = "tests"
    /\ test[t] = "running"
    /\ t \in Panics
    /\ SpanFinish(t)
    /\ test' = [test EXCEPT ![t] = "flushing"]
    /\ UNCHANGED <<main, globalAgent>>

\* The panic handler (init.go:201-202, sources.go:172-176) calls
\* GlobalAgent.Flush, i.e. recorder.SendSpans from the test's goroutine,
\* when GlobalAgent is set.
PanicFlush(t) ==
    /\ main = "tests"
    /\ test[t] = "flushing"
    /\ IF globalAgent
         THEN \/ TakeBatch(t)
              \/ buffer = <<>> /\ UNCHANGED recorderVars
         ELSE UNCHANGED recorderVars
    /\ test' = [test EXCEPT ![t] = "sending"]
    /\ UNCHANGED <<main, recorded, globalAgent>>

\* Flush has returned (its error is discarded), PrintReport runs, and End
\* re-panics (init.go:204): the process dies with every goroutine in it.
Repanic(t) ==
    /\ main = "tests"
    /\ test[t] = "sending"
    /\ inflight[t] = <<>>
    /\ main' = "crashed"
    /\ UNCHANGED <<recorderVars, test, recorded, globalAgent>>

\* Mutant: Stop does not kill the tomb.
Stop_NoKill ==
    /\ main = "tests"
    /\ globalAgent
    /\ \A t \in Tests : test[t] = "done"
    /\ main' = "stopping"
    /\ UNCHANGED <<recorderVars, test, recorded, globalAgent>>

\* m.Run has returned (every test is done) and Run calls GlobalAgent.Stop
\* (sources.go:164-166), whose first step kills the tomb (testing.go:536).
Stop ==
    /\ main = "tests"
    /\ globalAgent
    /\ \A t \in Tests : test[t] = "done"
    /\ KillLoop
    /\ main' = "stopping"
    /\ UNCHANGED <<buffer, inflight, delivered, evicted, failures, test, recorded,
                   globalAgent>>

\* m.Run has returned and GlobalAgent is nil: Run returns at once
\* (sources.go:164-168).
RunReturns ==
    /\ main = "tests"
    /\ ~globalAgent
    /\ \A t \in Tests : test[t] = "done"
    /\ main' = "exited"
    /\ UNCHANGED <<recorderVars, test, recorded, globalAgent>>

\* t.Wait returns when the loop is dead; PrintReport runs and Run returns
\* (testing.go:537-539, sources.go:168).
StopReturns ==
    /\ main = "stopping"
    /\ loop = "dead"
    /\ main' = "exited"
    /\ UNCHANGED <<recorderVars, test, recorded, globalAgent>>

\* The recorder's own goroutines: the loop and the sends in flight.
RecorderStep ==
    /\ Alive
    /\ globalAgent
    /\ \/ LoopTick \/ LoopDrain \/ LoopExit
       \/ \E x \in Senders : SendOk(x) \/ SendFail(x)
    /\ UNCHANGED agentVars

Terminated == ~Alive /\ UNCHANGED vars

Next ==
    \/ \E t \in Tests :
          StartTest(t) \/ EndTest(t) \/ PanicEnd(t) \/ PanicFlush(t) \/ Repanic(t)
    \/ Stop \/ StopReturns \/ RunReturns
    \/ RecorderStep
    \/ Terminated

\* m.Run starts every test and waits for it; a test that is not stuck ends;
\* the loop wakes on a timer and every send returns (or fails); Stop and
\* Wait are called by the main goroutine once m.Run returns.
Fairness ==
    /\ \A t \in Tests :
          /\ WF_vars(StartTest(t)) /\ WF_vars(EndTest(t)) /\ WF_vars(PanicEnd(t))
          /\ WF_vars(PanicFlush(t)) /\ WF_vars(Repanic(t))
    /\ WF_vars(Stop) /\ WF_vars(StopReturns) /\ WF_vars(RunReturns)
    /\ WF_vars(RecorderStep)

Spec == Init /\ [][Next]_vars /\ Fairness

-----------------------------------------------------------------------------

TypeOK ==
    /\ RecorderTypeOK
    /\ main \in {"tests", "stopping", "exited", "crashed"}
    /\ test \in [Tests -> {"pending", "running", "flushing", "sending", "done"}]
    /\ recorded \subseteq Tests
    /\ globalAgent \in BOOLEAN

DeliveredSpans == {s \in Spans : delivered[s] > 0}

\* When Run returns, every span a test finished has reached the backend or
\* was evicted by the buffer bound: Stop's kill, the loop's drain of what
\* was buffered and what failed, and Wait lose nothing, however the loop's
\* ticks, the panic handlers' Flushes and the failed sends interleave.
StopDeliversAll ==
    main = "exited" => recorded \subseteq DeliveredSpans \cup evicted

\* The recorder implements the delivery contract: the finished spans are
\* the recorded ones, the delivered ones those the backend accepted, the
\* dropped ones those evicted, and the contract is open while the process
\* runs.  Whatever the loop's sends, the panic handler's Flush and the
\* retries do, no span is delivered that was not finished, none is evicted
\* while the buffer has room, nothing happens after exit.
D == INSTANCE Delivery WITH
        finished <- recorded, delivered <- DeliveredSpans,
        dropped <- evicted, open <- Alive

DeliveryRefined == D!Spec

\* Agent.Flush "flushes the pending payloads to the scope backend"
\* (testing.go:542), and StartTest's panic handler calls it before the
\* re-panic kills the process (sources.go:172-176, init.go:201-204);
\* spec.md 8: RecordSpan followed by Flush delivers that span.  When the
\* backend has refused no send (so no Flush had an error to report), a
\* test that crashes the process finds every span finished before it
\* delivered or evicted by the buffer bound, whatever the recorder loop
\* was sending when the handler flushed.
CrashDeliversAll ==
    main = "crashed" /\ failures = 0 => recorded \subseteq DeliveredSpans \cup evicted

\* The test binary always terminates: Stop returns (the loop's drain ends)
\* or a panicking test ends the process.
Terminates == <>~Alive

=============================================================================
