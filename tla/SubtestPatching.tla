-------------------------- MODULE SubtestPatching --------------------------
(***************************************************************************)
(* The auto-instrumentation of sub tests, src/instrumentation/testing/     *)
(* init.go:64-85: Init monkey-patches testing.T.Run process-wide (the      *)
(* machine code of its entry is overwritten by a jump).  The replacement   *)
(* unpatches (73), defers a re-patch (74) and calls t.Run again (75),      *)
(* which reaches the original Run only if the code is still unpatched by   *)
(* then; otherwise it enters the replacement once more.  The function it   *)
(* hands to Run re-patches (76) and starts a span for the child (77-78)    *)
(* before running the sub test's body.  Top-level tests are wrapped by     *)
(* Init's indirection (29-46, the function at 37-42), which starts their span.                    *)
(*                                                                         *)
(* A goroutine is named by the path of Run calls that created it: <<t>>    *)
(* for top-level test t, <<t, i>> for its i-th sub test, and so on.  The   *)
(* names, captured logs and source locations of the spans are left out.   *)
(*                                                                         *)
(* The deferred end of every wrapper is Test.End (testing.go:115-162):     *)
(* the span's status is FAIL if t.Failed(), else SKIP if t.Skipped(), else *)
(* PASS, read when the test function returns.  The bodies may call         *)
(* t.Error (testing marks the test and every ancestor failed), t.SkipNow   *)
(* (the body ends through runtime.Goexit, the deferred end runs) and       *)
(* t.Parallel (the sub test signals its parent's Run to return and waits   *)
(* until the parent's function has returned; the parent's tRunner then     *)
(* waits for it).  A panicking test is modelled in AgentLifecycle.         *)
(***************************************************************************)
EXTENDS Naturals, Sequences, FiniteSets

CONSTANTS
    Tests,      \* top-level tests
    Parallel,   \* TRUE when every top-level test calls t.Parallel()
    SubRuns,    \* sub tests each test body runs with t.Run, one after another
    MaxDepth,   \* nesting of tests: 1 = top-level tests only
    MaxLayers,  \* frames of the replacement a goroutine's stack holds: a
                \* goroutine that would exceed it overflows its stack and
                \* stops
    ParallelAt, \* sub tests whose body starts with t.Parallel()
    FailAt,     \* tests whose body may call t.Error
    SkipAt      \* tests whose body may call t.SkipNow

\* Every goroutine a run of the tests may create.
Paths == UNION {[1..k -> 1..SubRuns] : k \in 0..(MaxDepth - 1)}
Goroutines == {<<t>> \o p : t \in Tests, p \in Paths}
TopLevel == {<<t>> : t \in Tests}

ASSUME ParallelAt \subseteq Goroutines \ TopLevel
ASSUME FailAt \cup SkipAt \subseteq Goroutines

VARIABLES
    patched,  \* testing.T.Run's entry jumps to the replacement
    pc,       \* per goroutine: "unborn", "pending", "wrap", "body",
              \* "dispatch", "unpatch", "wait", "repatch", "paused"
              \* (in t.Parallel), "subs" (function returned, waiting for
              \* its parallel sub tests), "done"
    runs,     \* per goroutine: sub tests its body has run so far
    layers,   \* per goroutine: frames of the replacement on its stack
    wraps,    \* per goroutine: the replacement's wrappers around its body
              \* still to run
    spans,    \* per goroutine: test spans started for it
    par,      \* per goroutine: t.Parallel() was called
    failed,   \* per goroutine: t.Failed()
    skipped,  \* per goroutine: t.Skipped()
    status    \* per goroutine: the test.status its spans were tagged with

vars == <<patched, pc, runs, layers, wraps, spans, par, failed, skipped, status>>
testVars == <<par, failed, skipped, status>>

Child(g) == Append(g, runs[g] + 1)
Parent(g) == SubSeq(g, 1, Len(g) - 1)
Children(g) == {c \in Goroutines : Len(c) = Len(g) + 1 /\ Parent(c) = g}
Ancestors(g) == {SubSeq(g, 1, k) : k \in 1..Len(g)}

\* A body in ParallelAt has called t.Parallel before anything else.
BodyReady(g) == g \in ParallelAt => par[g]

\* Init has installed the patch (mpatch.PatchMethodByReflect, 71-82); m.Run
\* has not started a test yet.
Init ==
    /\ patched = TRUE
    /\ pc = [g \in Goroutines |-> IF g \in TopLevel THEN "pending" ELSE "unborn"]
    /\ runs = [g \in Goroutines |-> 0]
    /\ layers = [g \in Goroutines |-> 0]
    /\ wraps = [g \in Goroutines |-> 0]
    /\ spans = [g \in Goroutines |-> 0]
    /\ par = [g \in Goroutines |-> FALSE]
    /\ failed = [g \in Goroutines |-> FALSE]
    /\ skipped = [g \in Goroutines |-> FALSE]
    /\ status = [g \in Goroutines |-> "none"]

\* m.Run starts a top-level test: a sequential one once no other is
\* running, parallel ones together.  Init's indirection starts its span
\* (StartTestFromCaller, 39) and calls the test function.
Start(g) ==
    /\ pc[g] = "pending"
    /\ Parallel \/ \A h \in TopLevel : pc[h] \in {"pending", "done"}
    /\ pc' = [pc EXCEPT ![g] = "body"]
    /\ spans' = [spans EXCEPT ![g] = @ + 1]
    /\ UNCHANGED <<patched, runs, layers, wraps, testVars>>

\* The test body calls t.Run for its next sub test.
CallRun(g) ==
    /\ pc[g] = "body"
    /\ BodyReady(g)
    /\ Len(g) < MaxDepth
    /\ runs[g] < SubRuns
    /\ pc' = [pc EXCEPT ![g] = "dispatch"]
    /\ UNCHANGED <<patched, runs, layers, wraps, spans, testVars>>

\* A call of testing.T.Run executes its entry: the jump to the replacement
\* if the code is patched, the original Run otherwise, which starts the
\* child's goroutine running the function it was given (wrapped once by
\* every replacement frame the call went through) and waits for it.
Dispatch(g) ==
    /\ pc[g] = "dispatch"
    /\ IF patched
         THEN /\ layers[g] < MaxLayers
              /\ layers' = [layers EXCEPT ![g] = @ + 1]
              /\ pc' = [pc EXCEPT ![g] = "unpatch"]
              /\ UNCHANGED wraps
         ELSE /\ pc' = [pc EXCEPT ![g] = "wait", ![Child(g)] =
                          IF layers[g] > 0 THEN "wrap" ELSE "body"]
              /\ wraps' = [wraps EXCEPT ![Child(g)] = layers[g]]
              /\ UNCHANGED layers
    /\ UNCHANGED <<patched, runs, spans, testVars>>

\* Mutant: the replacement does not unpatch before calling t.Run.
Unpatch_Missing(g) ==
    /\ pc[g] = "unpatch"
    /\ pc' = [pc EXCEPT ![g] = "dispatch"]
    /\ UNCHANGED <<patched, runs, layers, wraps, spans, testVars>>

\* runPatch.Unpatch() (73); the replacement then calls t.Run (75).
Unpatch(g) ==
    /\ pc[g] = "unpatch"
    /\ patched' = FALSE
    /\ pc' = [pc EXCEPT ![g] = "dispatch"]
    /\ UNCHANGED <<runs, layers, wraps, spans, testVars>>

\* Mutant: the wrapper does not re-patch for the child's own sub tests.
Wrap_NoPatch(g) ==
    /\ pc[g] = "wrap"
    /\ spans' = [spans EXCEPT ![g] = @ + 1]
    /\ wraps' = [wraps EXCEPT ![g] = @ - 1]
    /\ pc' = [pc EXCEPT ![g] = IF wraps[g] = 1 THEN "body" ELSE "wrap"]
    /\ UNCHANGED <<patched, runs, layers, testVars>>

\* One wrapper of the child's function: runPatch.Patch() (76), then the
\* child's span is started (77-78).
Wrap(g) ==
    /\ pc[g] = "wrap"
    /\ patched' = TRUE
    /\ spans' = [spans EXCEPT ![g] = @ + 1]
    /\ wraps' = [wraps EXCEPT ![g] = @ - 1]
    /\ pc' = [pc EXCEPT ![g] = IF wraps[g] = 1 THEN "body" ELSE "wrap"]
    /\ UNCHANGED <<runs, layers, testVars>>

\* Mutant: End asks t.Skipped() before t.Failed().
Verdict_SkipFirst(f, sk) == IF sk THEN "SKIP" ELSE IF f THEN "FAIL" ELSE "PASS"

\* Test.End's status (testing.go:127-158): FAIL if t.Failed(), else SKIP if
\* t.Skipped(), else PASS.
Verdict(f, sk) == IF f THEN "FAIL" ELSE IF sk THEN "SKIP" ELSE "PASS"

\* The test function returns (skipped or not): the deferred end of every
\* wrapper tags its span with the status read now and finishes it; tRunner
\* then waits for the sub tests that called t.Parallel.
Return(g, sk) ==
    /\ status' = [status EXCEPT ![g] = IF spans[g] > 0 THEN Verdict(failed[g], sk) ELSE @]
    /\ pc' = [pc EXCEPT ![g] =
                IF \A c \in Children(g) : pc[c] \in {"unborn", "done"} THEN "done" ELSE "subs"]

\* The test body returns, having run all its sub tests; the deferred end
\* finishes its span (the sub test's 79, the top-level test's 40).
Finish(g) ==
    /\ pc[g] = "body"
    /\ BodyReady(g)
    /\ Len(g) = MaxDepth \/ runs[g] = SubRuns
    /\ Return(g, skipped[g])
    /\ UNCHANGED <<patched, runs, layers, wraps, spans, par, failed, skipped>>

\* t.Error: the test and, through common.Fail, every ancestor fail.
Fail(g) ==
    /\ pc[g] = "body"
    /\ BodyReady(g)
    /\ g \in FailAt
    /\ ~failed[g]
    /\ failed' = [h \in Goroutines |-> failed[h] \/ h \in Ancestors(g)]
    /\ UNCHANGED <<patched, pc, runs, layers, wraps, spans, par, skipped, status>>

\* t.SkipNow: marks the test skipped and leaves the body by runtime.Goexit;
\* the deferred end runs as on a return.
SkipNow(g) ==
    /\ pc[g] = "body"
    /\ BodyReady(g)
    /\ g \in SkipAt
    /\ skipped' = [skipped EXCEPT ![g] = TRUE]
    /\ Return(g, TRUE)
    /\ UNCHANGED <<patched, runs, layers, wraps, spans, par, failed>>

\* t.Parallel: the parent's t.Run returns; the sub test waits.
GoParallel(g) ==
    /\ pc[g] = "body"
    /\ g \in ParallelAt
    /\ ~par[g]
    /\ par' = [par EXCEPT ![g] = TRUE]
    /\ pc' = [pc EXCEPT ![g] = "paused"]
    /\ UNCHANGED <<patched, runs, layers, wraps, spans, failed, skipped, status>>

\* The parent's function has returned (tRunner closes its barrier): the
\* paused sub test runs its body.
Resume(g) ==
    /\ pc[g] = "paused"
    /\ pc[Parent(g)] = "subs"
    /\ pc' = [pc EXCEPT ![g] = "body"]
    /\ UNCHANGED <<patched, runs, layers, wraps, spans, testVars>>

\* Every sub test of g is done: g's tRunner reports and returns.
Drain(g) ==
    /\ pc[g] = "subs"
    /\ \A c \in Children(g) : pc[c] \in {"unborn", "done"}
    /\ pc' = [pc EXCEPT ![g] = "done"]
    /\ UNCHANGED <<patched, runs, layers, wraps, spans, testVars>>

\* The original Run returns once the child is done or has called
\* t.Parallel: through the deferred
\* re-patch of every replacement frame, or straight to the body.
ChildReturned(g) ==
    /\ pc[g] = "wait"
    /\ pc[Child(g)] \in {"done", "paused"}
    /\ pc' = [pc EXCEPT ![g] = IF layers[g] > 0 THEN "repatch" ELSE "body"]
    /\ runs' = [runs EXCEPT ![g] = @ + 1]
    /\ UNCHANGED <<patched, layers, wraps, spans, testVars>>

\* Mutant: one deferred re-patch too many.
Repatch_OffByOne(g) ==
    /\ pc[g] = "repatch"
    /\ patched' = TRUE
    /\ layers' = [layers EXCEPT ![g] = @ - 1]
    /\ pc' = [pc EXCEPT ![g] = IF layers[g] = 0 THEN "body" ELSE "repatch"]
    /\ UNCHANGED <<runs, wraps, spans, testVars>>

\* The deferred runPatch.Patch() of one replacement frame (74).
Repatch(g) ==
    /\ pc[g] = "repatch"
    /\ patched' = TRUE
    /\ layers' = [layers EXCEPT ![g] = @ - 1]
    /\ pc' = [pc EXCEPT ![g] = IF layers[g] = 1 THEN "body" ELSE "repatch"]
    /\ UNCHANGED <<runs, wraps, spans, testVars>>

\* Every test has run; sub tests a skipped body never started stay unborn.
AllDone == \A g \in Goroutines : pc[g] \in {"unborn", "done"}

\* A step of goroutine g.
Step(g) ==
    \/ Start(g) \/ CallRun(g) \/ Dispatch(g) \/ Unpatch(g) \/ Wrap(g)
    \/ Finish(g) \/ ChildReturned(g) \/ Repatch(g)
    \/ Fail(g) \/ SkipNow(g) \/ GoParallel(g) \/ Resume(g) \/ Drain(g)

Next ==
    \/ \E g \in Goroutines : Step(g)
    \/ AllDone /\ UNCHANGED vars

\* Every goroutine of the test binary is scheduled; m.Run starts the next
\* test when it can.
Fairness == \A g \in Goroutines : WF_vars(Step(g))

Spec == Init /\ [][Next]_vars /\ Fairness

-----------------------------------------------------------------------------

TypeOK ==
    /\ patched \in BOOLEAN
    /\ pc \in [Goroutines -> {"unborn", "pending", "wrap", "body", "dispatch",
                              "unpatch", "wait", "repatch", "paused", "subs",
                              "done"}]
    /\ runs \in [Goroutines -> 0..SubRuns]
    /\ layers \in [Goroutines -> 0..MaxLayers]
    /\ wraps \in [Goroutines -> 0..MaxLayers]
    /\ spans \in [Goroutines -> 0..MaxLayers]
    /\ par \in [Goroutines -> BOOLEAN]
    /\ failed \in [Goroutines -> BOOLEAN]
    /\ skipped \in [Goroutines -> BOOLEAN]
    /\ status \in [Goroutines -> {"none", "PASS", "FAIL", "SKIP"}]

\* Every test, top-level or sub test at any depth, that has run has exactly
\* one test span: the patch was in place when its parent called t.Run (or
\* Init wrapped it), and it was not wrapped twice, whatever the other
\* goroutines unpatched and re-patched in between.
OneSpanPerTest == \A g \in Goroutines : pc[g] = "done" => spans[g] = 1

\* What go test reports for g (testing's common.report).
GoTestVerdict(g) ==
    CASE failed[g] -> "FAIL" [] ~failed[g] /\ skipped[g] -> "SKIP" [] OTHER -> "PASS"

\* The status every test span reports is go test's verdict for that test
\* once it is done (FAIL if it or a sub test failed, else SKIP if it
\* skipped, else PASS): Test.End reads t.Failed() and t.Skipped() after
\* every sub test that could still change them has ended.
StatusMatchesVerdict ==
    \A g \in Goroutines :
        pc[g] = "done" /\ spans[g] > 0 => status[g] = GoTestVerdict(g)

\* Every test ends: no t.Run recurses through the replacement forever, and
\* every Run returns.
TestsEnd == <>AllDone

=============================================================================
