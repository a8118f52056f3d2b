# TLA+ models of the Scope Go agent (go.undefinedlabs.com/scopeagent)

This directory holds TLA+ models of the tracing agent in `src/`, the TLC
configurations that check them, and `PROJECT.json`, the machine-readable index
of components, runs, mutants, the source lines each definition models, findings
and hazards.

## 1. Inventory

The repository as shipped in `src/` is a set of file fragments; several files
hold more than one version of the same Go file (separated by a marker line), and
some of the code the agent calls (the tracer's `StartSpan`/`Finish`, the
`SpanRecorder`, the `wire` protobuf package) is not under `src/`.  Where a model
needs such code it follows `spec.md` and the definition is marked
`spec_modelled` in `PROJECT.json`.

| Component | Source | State it keeps | Operations |
|---|---|---|---|
| Text-map propagator | `src/tracer/propagation_ot.go:16-162` | none (pure); the carrier is the caller's | `Inject`, `Extract` (two `ForeachKey` passes, a shared `requiredFieldCount`) |
| Binary propagator | `src/tracer/propagation_ot.go:164-239` | none; an `io.Reader`/`io.Writer` | `Inject` (length prefix + protobuf), `Extract` (one `binary.Read`, one `Read`) |
| Identifier generator | `src/tracer/propagation_ot.go:248-306` (two versions) | a shared `math/rand` source, `seededIDLock` | `generateSeed`, `randomID`, `randomID2` |
| Agent | `src/instrumentation/testing/testing.go:255-606` | tracer, recorder, testing mode, config | `NewAgent`, `SetTestingMode`, `Flush`, `Stop` |
| Span recorder | not in `src/` (spec.md 4.5); driven by `Agent` | buffer of finished spans, tomb of the flush loop | `RecordSpan`, `SendSpans`, `ChangeFlushFrequency`, loop, `Kill`/`Wait` |
| Agent entry points | `src/ast/sources.go:87-180` (two versions of `scopeagent.go`) | `GlobalAgent` | `init`, `Run`, `StartTest` (panic handler flushes) |
| Test instrumentation | `src/instrumentation/testing/testing.go:1-254`, `init.go:87-256` (two versions) | per test: span, ctx, reasons | `StartTestFromCaller`, `End` (pass/fail/skip/panic), `Run`, `StartBenchmark` |
| Test-runner patching | `src/instrumentation/testing/init.go:1-86`, `src/unnamed/part_000`, `part_001` | the global monkey patch of `testing.T.Run` / `testing.M.Run` | `Init`, the patched `Run` (Unpatch, call, re-Patch) |
| HTTP client instrumentation | `src/instrumentation/nethttp/client.go`, `src/instrumentation/patch.go` | per request: `Tracer{root, sp}` | `RoundTrip`, `doRoundTrip`, `start`, `closeTracker.Close`, 12 `httptrace` callbacks |
| Source-location cache | `src/ast/sources.go:1-86` | `methodCodes` map, `mutex` | `GetFuncSource`, `GetFuncSourceFromCaller` |
| SQL driver wrapper | `src/go.mod:28-173` (a fragment of `sql/driver.go`) | driver configuration | `WrapDriver`, `Open`, `newSpan`, `fillDriverData` |
| Module manifest | `src/go.mod:1-27` | - | - |

How they interact.  Instrumentation (test wrapper, HTTP transport, SQL driver)
starts spans on the tracer and finishes them; `Finish` hands the raw span to the
recorder, whose background loop (driven by a tomb) ships buffered spans on a
timer; `Agent.Flush` ships synchronously from the caller's goroutine;
`Agent.Stop` kills the tomb and waits for the loop.  The HTTP transport injects
the current span's context into the request headers through the text-map
propagator; a downstream service extracts it.  The test wrapper's panic path
finishes the span and calls a handler that flushes before re-panicking.  The
test-runner patch rewrites `testing.T.Run` machine code globally, so every
goroutine running a test sees the same patch state.

What is hard.
* `Extract` iterates a Go map (random order) twice, stops at the first error,
  and folds everything into one counter; the first pass's error is overwritten.
* Finished spans cross goroutines: many tests finish concurrently, the
  recorder loop and an explicit `Flush` send concurrently, `Stop` races both.
* A panicking test flushes and re-panics: spans not yet finished are lost.
* The monkey patch of `t.Run` is global mutable state with no lock.
* `GetFuncSource` returns while holding its mutex on a parse error, and reads
  the cache after unlocking.
* HTTP spans are finished on three different paths (error, HEAD, body close),
  and `httptrace` callbacks may fire after the span is finished.

What makes each component correct (the properties the models check or will).
* Text propagator: Extract follows spec.md 4.3's decision rule for every
  carrier and every iteration order; Extract(Inject(ctx)) = ctx.
* Binary propagator: round trip; a partial payload is never accepted.
* Identifier generator: no two draws return the same position of the stream.
* Recorder/agent: every finished span is delivered (at least once, never
  lost on Stop); no delivery after Stop returns; Flush and the loop never
  deliver the same span twice.
* Test-runner patching: every subtest started through `t.Run` is instrumented.
* Source cache: no caller blocks forever; no read races a write.
* HTTP client: every span started is finished exactly once.

## 2. Plan

Modules, in the order they were built, and what is left:

1. `TextPropagation` (done): Inject, and Extract one callback at a time over
   any key order, checked against spec.md 4.3's decision rule `SpecExtract`.
2. `IDGenerator` (done): goroutines drawing ids through `seededIDLock`.
3. `SourceCache` (done): `GetFuncSource`'s lock, cache fill, early return
   and unlocked read.
4. `Recorder` (spec_modelled), `Delivery`, `AgentLifecycle` (done):
   concurrent tests finishing spans, the flush loop, `Flush` from a panic
   handler, `Stop`, `Run`; `AgentLifecycle` refines `Delivery`.
5. `HttpClientSpan` (done): `RoundTrip`/`doRoundTrip`'s span, the close
   tracker and the `httptrace` hooks.
6. `SubtestPatching` (done): the patched `t.Run` under sequential and
   parallel tests.
7. `BinaryPropagation` (done): Inject and Extract over a stream the
   transport may cut, three reader behaviours, the proto3 codec.
8. `MCPropagation` (done): both propagators behind the tracer's format
   dispatch, in one run.
9. `SubtestPatching` extended (done): `Test.End`'s status (FAIL, SKIP,
   PASS), `t.Error`, `t.SkipNow` and `t.Parallel` sub tests.
10. `HttpClientSpan` extended (done): the client options of `TraceRequest`
    (`ClientTrace(false)`) and `Tracer.start`.
11. `AgentLifecycle` extended (done): `NewAgent` failing, which leaves
    `GlobalAgent` nil.
12. `MCProcessGlobals` and `AtomicIds` (done): the id generator and the
    source cache in one run; `IDGenerator` refines the atomic generator.
13. `AgentLifecycle` extended (done): `CrashDeliversAll`, the panic
    handler's `Flush` against the re-panic; four tests, two panicking.
14. `HttpClientSpan` extended (done): `PatchAll` and requests sent with
    `http.DefaultClient`.
15. Left out (see section 4):
   * `Test.Run` (`testing.go:170-177`) composed with the patch (see
     SubtestPatching below).
   * The recorder's `ChangeFlushFrequency`.
   * Composing `HttpClientSpan` with the recorder (a span finished twice is
     recorded twice).
16. `MCPropagation` extended (done): the text propagator on an
    `http.Header` carrier as well as a text map, and contexts with two
    baggage items.

Not to be modelled: `NewAgent` configuration (environment/DSN parsing, git
metadata: pure data plumbing), `getLogPath`, the SQL driver fragment's tag
building, `go.mod`.

## 3. Modules and runs

### Both propagators (`MCPropagation.tla`)

`MCPropagation` composes `TextPropagation` and `BinaryPropagation`: the
tracer hands a carrier to the propagator of its format, so a behaviour
picks the format (`format`) and runs that propagator's steps while the
other's variables stay at their initial values.  The text propagator is
instantiated twice, with its variables renamed (`T` for a
`TextMapCarrier`, `H` for an `HTTPHeadersCarrier`, whose `Set`
canonicalises every key it writes: `CanonicalHeaders` TRUE, and foreign
entries set through the same `http.Header`); the format is "text",
"headers" or "binary".  A constant of an instance cannot be a state
expression, hence two instances rather than one whose `CanonicalHeaders`
follows `format`.  Each module keeps its own MC module for its violation
run.

Run `propagation_roundtrip` (pass, 557 614 states, about 35 s) is the union
of the benign text carriers, on both carrier kinds, and the binary frames
described below.  `TextTypeOK`, `TextExtractFollowsSpec` and
`TextRoundTrip` are the conjunction over both text instances.  It checks
`TextTypeOK`, `TextExtractFollowsSpec`, `TextRoundTrip` and
`BinaryRoundTrip`.

### TextPropagation (`TextPropagation.tla`, `MCTextPropagation.tla`)

State: `carrier` (wire key -> value), `sent` (the last injected context),
`phase` (idle / pass1 / pass2), `visited` (keys the current `ForeachKey` has
already handed to its callback), `acc` (Extract's locals:
`requiredFieldCount`, `traceID`, `spanID`, `sampled`, `decodedBaggage`),
`outcome`.

Abstraction.  A wire key is `[name, word, upper]`: its lower-cased spelling,
the baggage word when it is a baggage key, and whether its spelling has upper
case letters.  Ids are small integers standing for their hex spelling (`0` is
what a failed parse leaves: `uuid.Nil`, `0`); `Garbage` is a spelling the
parser rejects.  A traceparent value is `[version, trace, span, flags]`.

Actions.  `Inject(sc)` = `Inject` (lines 35-71: `DiscreteEntries`,
`CompositeEntry`, `BaggageEntries`, `carrier.Set` overwrites);
`BeginExtract`, `Pass1Key(k)` (the first callback, lines 87-116),
`Pass2Key(k)` (the second, lines 117-144), `Decide`/`Return` (145-161),
`ExtractEmpty`.  Each callback step picks any key not yet visited: that is
Go's random map order.  Environment: `Strip(k)` (a proxy drops a header) and
`ForeignSet(e)` (another writer sets an entry).

Runs.
* `propagation_roundtrip`, text part (pass): carriers written by Inject, stripped by proxies, with
  unrelated headers and a foreign baggage item.  `ExtractFollowsSpec` and
  `RoundTrip` hold in every iteration order, on text maps and on
  canonicalised http.Header keys.  2 trace ids, 1 span id, two baggage
  words and two values, up to two baggage items per context: enough for
  stale baggage left from an earlier Inject, for two `ot-baggage-` keys
  decoded in either order, and for every subset of the injected entries.
* `text_malformed_traceparent` (violation): a traceparent with another
  version or a non-hex trace id makes Extract return "not found" (the first
  pass's error is overwritten, line 117) where spec.md 4.3 says corrupted.

Observed while modelling, not kept as runs (the run budget goes to the other
components; both reproduce by giving `ForeignEntries` the entries named):
* Two spellings of `ot-tracer-spanid` (a text map written by two producers
  that disagree on case) plus `ot-tracer-sampled` count to 3, and Extract
  returns ok with trace id `uuid.Nil` (the counter at line 149).
* A baggage key with upper-case letters comes back lower-cased (line 137),
  against spec.md 8's round-trip law; `RoundTrip` states the law with keys
  lower-cased, which is what the code guarantees.


### IDGenerator (`IDGenerator.tla`)

Models `randomID`/`randomID2` (`propagation_ot.go:277-306`), which share one
`math/rand` source and `seededIDLock`.  The random stream is abstracted to
its positions.  A draw returns the position it read, so two draws collide
exactly when they read the source in the same state.  `Int63` is split into
`ReadSource` and `WriteSource`, because only the lock keeps them together.

State: `pos` (the source), `lock`, and per goroutine `pc`, `want` (1 or 2
ids), `read`, `got` and `calls`.  `issued` counts how often each id was
returned.

Actions: `Call(g, n)`, `Lock`, `ReadSource`, `WriteSource`, and `Unlock`
(which returns the ids).

`AtomicIds.tla` is the abstract generator, written from spec.md 4.1 and 5.
Its variables are `next` and `handed`, and its one action, `Draw(n)`, hands
out the n positions from `next` in a single step.  `IDGenerator` refines it
under the mapping `next <- Drawn`, `handed <- DOMAIN issued`.  `Drawn` is
`pos` less the draws of calls that have not returned yet.  A call's
`Unlock` is the abstract `Draw`; every other step is a stutter.

Checked by run `process_globals` (below).
* `IdsAtomic`: `A!Spec`.  Each call returns consecutive positions as one
  indivisible draw.  It implies that no id is returned twice, and more: `randomID2`'s two draws
  interleaved with another call's would keep the ids unique but break it.
* `IdCallsReturn`: every call returns.
* Fairness: `SF` on `Lock`, which is justified by `sync.Mutex` starvation
  mode.  `WF` on the other steps.

### SourceCache (`SourceCache.tla`, `MCSourceCache.tla`)

Models `GetFuncSource` (`src/ast/sources.go:12-86`).  `methodCodes` maps a
file to the names it declares.  A caller goes through these steps:
* `Call`
* `Lock` (line 40)
* `Check` (41-46): a file seen before is not parsed again.
* `Parse` (47-79): on a parse error it returns nil while still holding the
  mutex (line 50).
* `Unlock` (81)
* `Read` (83-85): the unlocked lookup of `funcNameParts[1]`.

Checked by run `process_globals` (below).
* `CacheCallsReturn`: every call returns.

The module also states `ResultCorrect` (each call returns the boundaries
of the function it asked for) and `NoMapRace` (no unlocked read runs while
the map it reads is being written).  Neither is checked by a run: within
the bounds where they hold (one file, package `main`) they cannot fail
whatever the code does, and outside them they fail at once (below).
* Fairness: `SF` on `Lock`.

### Both mutex-guarded globals (`MCProcessGlobals.tla`)

The id generator and the source cache share no state, so one run checks
both.  `component` is chosen in `Init`, and each step is a step of that
component (`IdStep`, `SrcStep`) with the other's variables unchanged.  Each
component's fairness is stated over these composite steps and applies only
when that component runs.  The same 3 goroutines call either one.

Run `process_globals` (pass), 16 268 states:
* The id generator: each goroutine makes one call of `randomID` or
  `randomID2`, so three draws can interleave.
* The source cache: 3 callers make 2 calls each on one file, so later calls
  hit the cache another caller filled.

It checks `TypeOK` of both, plus `IdsAtomic`, `IdCallsReturn` and
`CacheCallsReturn`.  The id generator makes one call
per goroutine here.  With two calls each, the liveness check of the
composed run takes over three minutes, and a second call by the same
goroutine adds no new interleaving of the lock.

Run `srccache_parse_error` (violation): a file that fails to parse leaves
the mutex locked, and the next caller blocks forever (`CallsReturn`).

Observed while modelling, not kept as runs:
* With two files (`Files <- TwoFiles`, `Targets <- TwoFileTargets`), one
  caller's unlocked read of the outer map at line 85 races another caller
  adding a file at line 45.  That is a Go map read concurrent with a write,
  a fatal runtime error (`NoMapRace`).
* With a package path containing dots (`Targets <- DottedTargets`), element
  `[1]` of the split name is a piece of the package path rather than the
  function name, so the lookup returns nil (`ResultCorrect`).

### Recorder, Delivery, AgentLifecycle

`Recorder.tla` is spec_modelled from spec.md 4.5, because the
`SpanRecorder` is not under `src/`.  It has:
* a buffer of at most `MaxBuffer` spans that evicts the oldest on overflow;
* a loop supervised by a tomb, with states alive, dying and dead;
* `TakeBatch`/`SendOk`/`SendFail` for a `SendSpans` from any sender; a
  failed batch is put back in front of the buffer, at most `MaxFailures`
  times;
* `LoopDrain`: the dying loop sends what is left before it exits.

`Delivery.tla` is the abstract contract.  Its variables are `finished`,
`delivered`, `dropped` and `open`.  A span is delivered only once it is
finished.  It is evicted only while more than `MaxBuffer` spans are pending.
Nothing happens after close.

`AgentLifecycle.tla` extends `Recorder` with the tests and the main
goroutine.  `globalAgent` is chosen in `Init`: `init`
(`sources.go:144-161`) leaves `GlobalAgent` nil when `NewAgent` fails
(no API key, `testing.go:408-416`).  Without an agent the recorder never
runs, a finished span reaches no recorder (`SpanFinish`), the panic
handler skips `Flush` (173) and `Run` returns without `Stop`
(`RunReturns`, 164-168).  Actions:
* `StartTest` (`sources.go:171-180`)
* `EndTest` and `PanicEnd` (`init.go:195-240`): any test in `Panics` may
  panic or pass.
* `PanicFlush`, the handler calling `Agent.Flush` (`testing.go:543-548`).
* `Repanic` (`init.go:204`)
* `Stop`, which kills the tomb (`testing.go:532-536`), and `StopReturns`
  (537-540).
* `RecorderStep`

Run `agent_run` (pass): 4 parallel tests, of which t1 and t2 may panic;
`MaxBuffer` 2 (a third pending span evicts the oldest), `MaxFailures` 2,
with and without an agent.  With two panicking tests, one can crash the
process while the other's `Flush` is still sending.  This gives 43 117
states.
* `StopDeliversAll`: when `Run` returns, every finished span was delivered
  or evicted.
* `DeliveryRefined`: `D!Spec`, through the refinement mapping
  `finished <- recorded`, `delivered <- DeliveredSpans`,
  `dropped <- evicted`, `open <- Alive`.
* `Terminates`: the binary always ends.
* Fairness: `WF` on every step.  Tests run to completion, the loop's timer
  fires, and sends return or fail.

Run `agent_panic_flush` (violation) uses the `agent_run` constants and
checks `CrashDeliversAll`: once a test has crashed the process, and no send
was refused by the backend, every finished span was delivered or evicted.
`Agent.Flush` is documented as flushing the pending payloads
(`testing.go:542`), the handler calls it before the re-panic, and spec.md 8
says that `RecordSpan` followed by `Flush` delivers that span.  A refused
send is excused (`failures = 0`): spec.md 4.5's `Flush` returns the
delivery error, and the property asks nothing of a Flush that had one to
report.  TLC's trace has no failure at all:
1. t2 panics, and its span is recorded.
2. The loop's tick takes the span as its batch; the send is in flight.
3. t2's `Flush` finds the buffer empty and returns nil.
4. t2 re-panics (`init.go:204`) before the loop's send completes, and the
   span is lost.

The recorder is modelled from spec.md 4.5, whose `Flush` drains only the
current buffer and does not wait for a send another goroutine has in
flight.  `TakeBatch` takes the whole buffer in one step, so a span can
never be in two batches: the model says nothing of two senders reading the
buffer before either clears it (`testing.go:547`).

### HttpClientSpan (`HttpClientSpan.tla`, `MCHttpClientSpan.tla`)

Models `client.go`.  Per request it tracks `phase`, `span`, `finishes`,
`body`, `closes` and the hooks the transport may still call (`pending`).
The flags `nilSpan` and `lateWrite` record a method called on a nil span
and a mutation of a finished span.  `defaultPatched`, chosen in `Init`,
says whether `init` called `PatchAll` (`sources.go:156-160`).  `PatchAll`
calls `PatchHttpDefaultClient` (`patch.go:8-18`), which puts a `Transport`
around `http.DefaultTransport` into `http.DefaultClient` and never fails.
`Wrapped(r)` holds when request r reaches `Transport.RoundTrip`: it was
sent with a client built on a `Transport`, or with a patched
`http.DefaultClient` (`ViaDefaultClient`).

Actions:
* `UserHooks` (40-131): whether a request the caller prepared with
  `TraceRequest` carries that Tracer's hooks; `ClientTrace(false)` leaves
  them out.
* `RoundTrip` (155-196): traced only when `Wrapped` and with a parent
  span; `TracerStart`
  (275-292) starts the child of the context's span.
* `SyncHook`: hooks on the caller's goroutine.
* `LateHook`: `WroteRequest` from the write loop, `ConnectDone` from a dial
  goroutine.
* `Respond` (198-221): error finishes, HEAD finishes, otherwise the body is
  tracked.
* `PlainRespond`
* `Close`, the `closeTracker` (138-143).

Run `http_spans` (pass): r1 is parented and sent with `http.DefaultClient`,
patched or not.  r2 is not parented and was prepared by the caller with
`TraceRequest(tr, req, ClientTrace(false))`.  Both methods, GET and HEAD,
are used, and bodies are closed up to twice.  This gives 4100 states.
* `SpanFinishes`: every span started is finished.
* Fairness: `WF` on responses and closes.  The transport's timeouts return
  every `RoundTrip`, and net/http requires callers to close bodies.

Run `http_late_hook` (violation): `WroteRequest` or `ConnectDone` runs after
the span was finished (by the error path, HEAD, or `Close`), mutating a
span the recorder owns (`NoMutationAfterFinish`).

Observed, not kept as runs:
* A body closed twice finishes the span twice (`Close` at 140).
* A caller that called `TraceRequest` itself without
  `ClientTrace(false)` leaves a Tracer with a nil `sp` in the context
  (`NoClientTrace <- NoRequests`), and its first hook panics: `NoNilSpan`
  (no hook runs on a nil span) is violated at once.  In `http_spans` the
  one caller-prepared request uses `ClientTrace(false)`, where `NoNilSpan`
  would only restate the option check at line 126, so it is not checked
  there.  That
  Tracer is never started (`RoundTrip` makes its own at 165), so
  `Tracer.Finish` and `Tracer.Span` (294-306) of the example at 99-116
  do nothing and return nil.

### SubtestPatching (`SubtestPatching.tla`, `MCSubtestPatching.tla`)

Models the `testing.T.Run` monkey patch (`init.go:64-85`) and the top-level
indirection (29-46).

State: the global `patched` flag, plus per goroutine `pc`, `runs`, `layers`,
`wraps`, `spans`, and the test's `par`, `failed`, `skipped` and the
`status` its spans were tagged with.
* `layers`: frames of the replacement on the goroutine's stack.
* `wraps`: wrappers still to run around its body.

Actions:
* `Start`: the top-level span.
* `CallRun`
* `Dispatch`: the entry of `T.Run`, either the jump or the original, which
  starts the child.
* `Unpatch` (73)
* `Wrap`: `Patch` (76) plus the child's span (77-78).
* `Finish`
* `ChildReturned`
* `Repatch`: the deferred `Patch` (74).
* `Finish` and `SkipNow` end the test function through `Return`: every
  wrapper's deferred end is `Test.End` (`testing.go:115-162`), whose
  status is `Verdict` (FAIL if `t.Failed()`, else SKIP if `t.Skipped()`,
  else PASS).  The goroutine then waits in `subs` for sub tests that
  called `t.Parallel`.
* The testing package's side: `Fail` (`t.Error` marks the test and every
  ancestor failed, as `common.Fail` does), `GoParallel` (the sub test
  signals its parent's `Run` to return and pauses), `Resume` (the
  parent's function has returned) and `Drain` (tRunner waits for its
  parallel sub tests).  `FailAt`, `SkipAt` and `ParallelAt` name the
  bodies that call them.

A goroutine with `MaxLayers` frames stops, which stands for a stack
overflow.

Run `subtest_sequential` (pass): 2 sequential top-level tests, 2 sub tests
each, depth 3.  In t1 a grandchild fails, and the second sub test fails
and then skips.  t2 may skip at any point, and its first sub test's two
children are parallel leaves, one of which may skip.  This gives 2944
states.
* `OneSpanPerTest`
* `StatusMatchesVerdict`: every test span's status is what go test
  reports for the test (`GoTestVerdict`).  The mutant asks `Skipped`
  before `Failed`.
* `TestsEnd`
* Fairness: `WF` per goroutine.

Run `subtest_parallel` (violation): 2 parallel tests.
1. t1's replacement unpatches.
2. t2 calls `t.Run`, reaches the original `Run`, and its sub test gets no
   span.

Run `subtest_parallel_subs` (violation): t1's two sub tests call
`t.Parallel`, and the first fails (`StatusMatchesVerdict`).
1. Each sub test starts, gets its span, and calls `t.Parallel`, so t1's
   `t.Run` returns.
2. t1's function returns.  Its deferred end reads `t.Failed()` = false and
   tags t1's span PASS.
3. The sub tests resume.  The first fails, which marks t1 failed, and go
   test reports t1 as FAIL.

Observed while modelling, not kept as a run: a sub test started through
`Test.Run` (`testing.go:170-177`) while the patch is installed passes
through both wrappers.  `Test.Run`'s wrapper starts a span, and the
replacement's wrapper (init.go:75-79) starts another, so the sub test gets
two spans.

### BinaryPropagation (`BinaryPropagation.tla`, `MCBinaryPropagation.tla`)

Models `Inject` (164-198) and `Extract` (200-239) over the byte stream.

The proto3 codec of `wire.TracerState` is spec_modelled
(`Marshal`/`Fields`/`Unmarshal`):
* field tags are 11..15;
* fields at their zero value are omitted;
* tag 0 is illegal;
* a field cut short is an error.

A fixed64 is abstracted to 2 bytes.  `ReadCall` is one `carrier.Read` for
three readers:
* a `bytes.Buffer`-like reader;
* a chunked reader;
* a reader that returns `io.EOF` with its last bytes.

Run `propagation_roundtrip`, binary part (pass): every context over ids
{0, non-zero}, sampled or not, with no, empty or two-byte baggage, and the
buffer reader.  This gives 1520 states.  `RoundTrip` (`BinaryRoundTrip`)
holds.

Run `binary_truncated` (violation) reads from the `bytes.Buffer`-like
reader.  TLC's trace: Inject writes the
frame of a context whose one baggage item has an empty value
(`0 0 0 7 | 15 5 21 1 7 22 0`), the transport delivers all but the last
byte, and Extract's single `carrier.Read` (line 217) returns the 6 bytes
there are with no error.  The seventh byte of the buffer stays zero, which
is the very length byte that was cut, so Unmarshal accepts the frame and
Extract returns a context.  spec.md 8 says a truncated payload yields
`ContextCorrupted`, "not a silently truncated context"
(`ExtractFollowsSpec`).  A cut inside a fixed64 id or a baggage value
decodes the same way into zeroed bytes.  The chunked and `io.EOF`-with-data
readers of `ReadCall` reach the same line with a complete frame; they are
kept in the module but not in this run, so the trace is the plain
truncation.

## 4. Bounds, and what is not modelled

The bounds are the smallest that make every interleaving of the hazards
possible:
* 2 or 3 goroutines;
* 2 calls each, so that a caller runs again after another filled the cache
  or re-patched;
* a buffer of 2 with 4 tests, so that eviction happens;
* up to two failed sends, so that a re-queue happens, twice in a row;
* depth 3 in the subtest model, so that a grandchild depends on its parent's
  re-patch.

Every property of a passing run has a mutant in `PROJECT.json` that TLC
shows violates it.

Not modelled:
* `NewAgent` and its configuration: environment and DSN parsing, git
  metadata;
* the SQL driver fragment: tag building only;
* the logger patch of `M.Run` (`src/unnamed/part_000`): runs once on the
  main goroutine;
* the benchmark indirection;
* the older `scopeagent.go` (`sources.go:87-130`), whose `init` leaves
  `GlobalAgent` nil when `NewAgent` succeeds, and whose `Run` then calls a
  method on the nil agent: it is another revision of the same file;
* `Tracer.Finish`/`Tracer.Span` (`client.go:294-306`): they change nothing
  for a Tracer that is never started (see HttpClientSpan);
* the older `randomID` (`propagation_ot.go:240-264`), seeded from the
  clock: the same lock discipline as the model of the newer one;
* the `-test.parallel` limit on running parallel tests (`init.go:22-27`).
  It only delays parallel tests;
* `Test.Run` (see SubtestPatching), benchmarks, and log capture;
* tags, logs and payload capture: abstracted to "the span was mutated";
* `Agent.SetTestingMode` and the recorder's `ChangeFlushFrequency`
  (`testing.go:514-521`): the recorder's timer tick is already a step that
  may come at any moment, so a different period adds no behaviour;
* `HttpClientSpan` composed with the recorder: a span is recorded when it
  finishes, and the recorder model treats every recorded span alike, so
  the composition would only multiply states; the HTTP model's own
  `finished` count already shows whether a span can finish twice;
* the size of the buffer the binary Extract allocates from the length
  prefix (`propagation_ot.go:216`): bytes are small naturals and the three
  high bytes of the prefix are zero in the model, so no state tells a
  4 GiB allocation from a small one;
* goroutines a test leaves running that finish spans after `Agent.Stop`
  (`testing.go:536`): AgentLifecycle's tests finish their spans before
  `m.Run` returns.  Such a span is buffered after the loop has drained and
  exited, and is never sent; showing that needs a run of its own.
