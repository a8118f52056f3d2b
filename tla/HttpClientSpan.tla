--------------------------- MODULE HttpClientSpan ---------------------------
(***************************************************************************)
(* The client span of the HTTP transport wrapper, src/instrumentation/     *)
(* nethttp/client.go: Transport.RoundTrip (155-167) traces a request only  *)
(* when its context holds a span; TraceRequest (117-131) registers the     *)
(* httptrace hooks of a fresh Tracer; doRoundTrip (170-222) starts the     *)
(* child span (start, 275-292), sends the request, and finishes the span   *)
(* on a transport error or for HEAD, or else wraps the body in a           *)
(* closeTracker whose Close (138-143) logs and finishes it.                *)
(*                                                                         *)
(* The hooks (324-422) run on the goroutine of whoever calls them: the     *)
(* caller's during RoundTrip, or the transport's own (the write loop calls *)
(* WroteRequest when the request is written, possibly after the response; *)
(* a dial that lost a race or outlived its request calls ConnectDone       *)
(* later).  Every hook mutates h.sp.  Tags, logs and payloads are          *)
(* abstracted to "the span was mutated".                                   *)
(***************************************************************************)
EXTENDS Naturals

CONSTANTS
    Requests,    \* requests, each issued by its own caller goroutine
    Parented,    \* the requests whose context holds an active span
    UserTraced,  \* the requests the caller prepared with TraceRequest itself
    NoClientTrace, \* of those, the ones prepared with the ClientTrace(false)
                   \* option
    ViaDefaultClient, \* the requests sent with http.DefaultClient
    Methods,     \* request methods: "GET", "HEAD"
    MaxCloses,   \* times a caller closes the response body
    LateHooks    \* the hooks the transport may call from its own goroutines

VARIABLES
    phase,      \* per request: "idle", "traced" (inside RoundTrip, traced),
                \* "plain" (inside RoundTrip, untraced), "returned"
    method,     \* per request: its method
    span,       \* per request: the client span, "none", "open" or "finished"
    finishes,   \* per request: calls of Finish on its span
    body,       \* per request: the response body, "none", "plain" or "tracked"
    closes,     \* per request: calls of Body.Close
    pending,    \* per request: the hooks the transport may still call
    nilSpan,    \* a method was called on a nil span (a panic)
    lateWrite,  \* a finished span was mutated
    defaultPatched \* init replaced http.DefaultClient (PatchAll)

vars == <<phase, method, span, finishes, body, closes, pending, nilSpan, lateWrite,
          defaultPatched>>

Init ==
    /\ phase = [r \in Requests |-> "idle"]
    /\ method = [r \in Requests |-> "GET"]
    /\ span = [r \in Requests |-> "none"]
    /\ finishes = [r \in Requests |-> 0]
    /\ body = [r \in Requests |-> "none"]
    /\ closes = [r \in Requests |-> 0]
    /\ pending = [r \in Requests |-> {}]
    /\ nilSpan = FALSE
    /\ lateWrite = FALSE
    /\ defaultPatched \in BOOLEAN

\* The request reaches nethttp.Transport.RoundTrip: it was sent with a
\* client built on a Transport, or with http.DefaultClient after init
\* (src/ast/sources.go:156-160) called PatchAll, whose only patch,
\* PatchHttpDefaultClient, replaces http.DefaultClient by a Client with a
\* Transport around http.DefaultTransport and never fails (patch.go:8-18).
\* An unpatched http.DefaultClient sends with http.DefaultTransport.
Wrapped(r) == r \notin ViaDefaultClient \/ defaultPatched

\* TraceRequest (117-131) applies the options (40-91) and registers the
\* Tracer's hooks on the request's context unless ClientTrace(false) was
\* given.  The request the caller prepared carries its hooks.
UserHooks(r) == r \in UserTraced \ NoClientTrace

\* A hook runs: it mutates the span of every Tracer whose hooks the request
\* carries.  A TraceRequest made by the caller registered a Tracer whose sp
\* is never set (only doRoundTrip's own Tracer is started), so its hook
\* calls a method on a nil span.
Mutate(r) ==
    /\ nilSpan' = (nilSpan \/ UserHooks(r))
    /\ lateWrite' = (lateWrite \/ span[r] = "finished")

\* Tracer.Finish of the span, as closeTracker.Close and doRoundTrip call it.
FinishSpan(r) ==
    /\ span' = [span EXCEPT ![r] = "finished"]
    /\ finishes' = [finishes EXCEPT ![r] = @ + 1]

\* Tracer.start (275-292): the root is the parent span of the request's
\* context; the client span is started as its child and tagged.
TracerStart(r) == span' = [span EXCEPT ![r] = "open"]

\* The client sends r: a request that does not reach Transport.RoundTrip
\* (155-167), or has no parent span, goes straight to the inner transport;
\* otherwise
\* TraceRequest, start (ChildOf the parent), tags, Inject (170-196).
RoundTrip(r, m) ==
    /\ phase[r] = "idle"
    /\ method' = [method EXCEPT ![r] = m]
    /\ pending' = [pending EXCEPT ![r] = LateHooks]
    /\ IF r \in Parented /\ Wrapped(r)
         THEN /\ phase' = [phase EXCEPT ![r] = "traced"]
              /\ TracerStart(r)
         ELSE /\ phase' = [phase EXCEPT ![r] = "plain"]
              /\ UNCHANGED span
    /\ UNCHANGED <<finishes, body, closes, nilSpan, lateWrite, defaultPatched>>

\* A hook called on the caller's goroutine during rt.RoundTrip (GetConn,
\* GotConn, DNSStart, WroteHeaders, GotFirstResponseByte, ...; a retried
\* request calls them again).
SyncHook(r) ==
    /\ phase[r] \in {"traced", "plain"}
    /\ Mutate(r)
    /\ UNCHANGED <<phase, method, span, finishes, body, closes, pending, defaultPatched>>

\* A hook called from a transport goroutine at any time after the request
\* was handed to the transport.
LateHook(r, h) ==
    /\ h \in pending[r]
    /\ pending' = [pending EXCEPT ![r] = @ \ {h}]
    /\ Mutate(r)
    /\ UNCHANGED <<phase, method, span, finishes, body, closes, defaultPatched>>

\* Mutant: the else is dropped; HEAD and error responses are finished and
\* also tracked.
Respond_FinishAndTrack(r, res) ==
    /\ phase[r] = "traced"
    /\ phase' = [phase EXCEPT ![r] = "returned"]
    /\ IF res = "error" \/ method[r] = "HEAD" THEN FinishSpan(r) ELSE UNCHANGED <<span, finishes>>
    /\ body' = [body EXCEPT ![r] = IF res = "error" THEN "none" ELSE "tracked"]
    /\ UNCHANGED <<method, closes, pending, nilSpan, lateWrite, defaultPatched>>

\* Mutant: the body is not wrapped in a closeTracker.
Respond_NoTrack(r, res) ==
    /\ phase[r] = "traced"
    /\ phase' = [phase EXCEPT ![r] = "returned"]
    /\ IF res = "error" \/ method[r] = "HEAD" THEN FinishSpan(r) ELSE UNCHANGED <<span, finishes>>
    /\ body' = [body EXCEPT ![r] = IF res = "error" THEN "none" ELSE "plain"]
    /\ UNCHANGED <<method, closes, pending, nilSpan, lateWrite, defaultPatched>>

\* doRoundTrip after rt.RoundTrip returns (198-221): on an error the span is
\* finished (208); for HEAD it is finished (217); otherwise the body is
\* wrapped in a closeTracker (219).
Respond(r, res) ==
    /\ phase[r] = "traced"
    /\ phase' = [phase EXCEPT ![r] = "returned"]
    /\ CASE res = "error" ->
              FinishSpan(r) /\ body' = [body EXCEPT ![r] = "none"]
         [] method[r] = "HEAD" ->
              FinishSpan(r) /\ body' = [body EXCEPT ![r] = "plain"]
         [] OTHER ->
              body' = [body EXCEPT ![r] = "tracked"] /\ UNCHANGED <<span, finishes>>
    /\ UNCHANGED <<method, closes, pending, nilSpan, lateWrite, defaultPatched>>

\* The inner transport of an untraced request returns (163).
PlainRespond(r, res) ==
    /\ phase[r] = "plain"
    /\ phase' = [phase EXCEPT ![r] = "returned"]
    /\ body' = [body EXCEPT ![r] = IF res = "error" THEN "none" ELSE "plain"]
    /\ UNCHANGED <<method, span, finishes, closes, pending, nilSpan, lateWrite, defaultPatched>>

\* The caller closes the response body; a closeTracker closes the real body,
\* logs "ClosedBody" on the span and finishes it, on every call (138-143).
Close(r) ==
    /\ phase[r] = "returned"
    /\ body[r] # "none"
    /\ closes[r] < MaxCloses
    /\ closes' = [closes EXCEPT ![r] = @ + 1]
    /\ IF body[r] = "tracked"
         THEN /\ lateWrite' = (lateWrite \/ span[r] = "finished")
              /\ FinishSpan(r)
         ELSE UNCHANGED <<span, finishes, lateWrite>>
    /\ UNCHANGED <<phase, method, body, pending, nilSpan, defaultPatched>>

\* Every caller has its response and has closed its body.
Finished ==
    \A r \in Requests :
        phase[r] = "returned" /\ (body[r] = "none" \/ closes[r] = MaxCloses)
        /\ pending[r] = {}

Next ==
    \/ \E r \in Requests :
          \/ \E m \in Methods : RoundTrip(r, m)
          \/ SyncHook(r)
          \/ \E h \in LateHooks : LateHook(r, h)
          \/ \E res \in {"error", "response"} : Respond(r, res) \/ PlainRespond(r, res)
          \/ Close(r)
    \/ Finished /\ UNCHANGED vars

\* Every RoundTrip returns (the transport's timeouts); a caller closes the
\* body of every response, as net/http requires; the transport's
\* goroutines make progress.
Fairness ==
    \A r \in Requests :
        /\ WF_vars(\E res \in {"error", "response"} : Respond(r, res))
        /\ WF_vars(\E res \in {"error", "response"} : PlainRespond(r, res))
        /\ WF_vars(Close(r))

Spec == Init /\ [][Next]_vars /\ Fairness

-----------------------------------------------------------------------------

TypeOK ==
    /\ phase \in [Requests -> {"idle", "traced", "plain", "returned"}]
    /\ method \in [Requests -> Methods \cup {"GET"}]
    /\ span \in [Requests -> {"none", "open", "finished"}]
    /\ finishes \in [Requests -> 0..MaxCloses]
    /\ body \in [Requests -> {"none", "plain", "tracked"}]
    /\ closes \in [Requests -> 0..MaxCloses]
    /\ pending \in [Requests -> SUBSET LateHooks]
    /\ nilSpan \in BOOLEAN /\ lateWrite \in BOOLEAN /\ defaultPatched \in BOOLEAN

\* No span method is called on a nil span: start() only runs for a request
\* whose context has a parent span, and every hook that runs belongs to a
\* Tracer that doRoundTrip started.
NoNilSpan == ~nilSpan

\* No hook, and no closeTracker.Close, mutates the span after it was
\* finished (the finished span belongs to the recorder, spec.md 4.2).
NoMutationAfterFinish == ~lateWrite

\* Every client span started by doRoundTrip is finished: on an error, for
\* HEAD, or when the caller closes the tracked body.
SpanFinishes == \A r \in Requests : span[r] = "open" ~> span[r] = "finished"

=============================================================================
