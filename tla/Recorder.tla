----------------------------- MODULE Recorder -----------------------------
(***************************************************************************)
(* The span recorder (SpanRecorder, not under src/; spec.md 4.5): a buffer *)
(* of finished spans bounded by MaxBuffer (the oldest are evicted when it  *)
(* overflows), a background loop supervised by a tomb that sends the       *)
(* buffer on every tick, and SendSpans, which callers use to flush from    *)
(* their own goroutine.  A send takes the whole buffer as its batch; a     *)
(* failed send puts the batch back in front of what was buffered since, to *)
(* be retried.  When the tomb is killed, the loop drains the buffer and    *)
(* then dies.                                                              *)
(*                                                                         *)
(* This module only defines the recorder's state and steps; the agent      *)
(* (AgentLifecycle) composes them with the goroutines that drive them.     *)
(***************************************************************************)
EXTENDS Naturals, Sequences, FiniteSets

CONSTANTS
    Spans,        \* finished spans (one model value each)
    Flushers,     \* goroutines that may call SendSpans directly (Agent.Flush)
    Loop,         \* model value: the recorder's background loop
    MaxBuffer,    \* the buffer bound
    MaxFailures   \* failed sends the backend returns in a behaviour

Senders == Flushers \cup {Loop}

VARIABLES
    buffer,     \* spans recorded and not yet taken by a send, oldest first
    inflight,   \* per sender: the batch it is sending (<<>> when idle)
    delivered,  \* per span: the times the backend accepted it
    evicted,    \* spans dropped from the buffer on overflow
    failures,   \* failed sends so far
    loop        \* the tomb: "alive", "dying" (killed) or "dead"

recorderVars == <<buffer, inflight, delivered, evicted, failures, loop>>

SeqRange(s) == {s[i] : i \in DOMAIN s}

\* Mutant: an off-by-one in the bound, evicting when the buffer is full.
Overflow_OffByOne(s) ==
    IF Len(s) >= MaxBuffer THEN SubSeq(s, 1, Len(s) - MaxBuffer + 1) ELSE <<>>

\* On overflow the oldest spans are evicted and the newest MaxBuffer kept.
Overflow(s) == IF Len(s) > MaxBuffer THEN SubSeq(s, 1, Len(s) - MaxBuffer) ELSE <<>>
Kept(s) == SubSeq(s, Len(Overflow(s)) + 1, Len(s))

RecorderInit ==
    /\ buffer = <<>>
    /\ inflight = [x \in Senders |-> <<>>]
    /\ delivered = [s \in Spans |-> 0]
    /\ evicted = {}
    /\ failures = 0
    /\ loop = "alive"

\* Mutant: the buffer is not bounded.
RecordSpan_NoBound(s) ==
    /\ buffer' = Append(buffer, s)
    /\ UNCHANGED <<inflight, delivered, evicted, failures, loop>>

\* RecordSpan: a finished span is appended without blocking.
RecordSpan(s) ==
    /\ buffer' = Kept(Append(buffer, s))
    /\ evicted' = evicted \cup SeqRange(Overflow(Append(buffer, s)))
    /\ UNCHANGED <<inflight, delivered, failures, loop>>

\* SendSpans, first half: the buffered spans become the sender's batch.
TakeBatch(x) ==
    /\ inflight[x] = <<>>
    /\ buffer # <<>>
    /\ inflight' = [inflight EXCEPT ![x] = buffer]
    /\ buffer' = <<>>
    /\ UNCHANGED <<delivered, evicted, failures, loop>>

\* SendSpans, second half: the backend accepts the batch ...
SendOk(x) ==
    /\ inflight[x] # <<>>
    /\ delivered' = [s \in Spans |->
                        delivered[s] + IF s \in SeqRange(inflight[x]) THEN 1 ELSE 0]
    /\ inflight' = [inflight EXCEPT ![x] = <<>>]
    /\ UNCHANGED <<buffer, evicted, failures, loop>>

\* ... or fails, and the batch goes back in front of the buffer.
SendFail(x) ==
    /\ inflight[x] # <<>>
    /\ failures < MaxFailures
    /\ buffer' = Kept(inflight[x] \o buffer)
    /\ evicted' = evicted \cup SeqRange(Overflow(inflight[x] \o buffer))
    /\ inflight' = [inflight EXCEPT ![x] = <<>>]
    /\ failures' = failures + 1
    /\ UNCHANGED <<delivered, loop>>

\* The loop wakes on its timer and sends what is buffered.
LoopTick ==
    /\ loop = "alive"
    /\ TakeBatch(Loop)

\* The tomb is killed (t.Kill): the loop starts dying.
KillLoop ==
    /\ loop = "alive"
    /\ loop' = "dying"

\* A dying loop drains the buffer before it returns ...
LoopDrain ==
    /\ loop = "dying"
    /\ TakeBatch(Loop)

\* Mutant: the loop returns as soon as it is killed, without draining.
LoopExit_NoDrain ==
    /\ loop = "dying"
    /\ inflight[Loop] = <<>>
    /\ loop' = "dead"
    /\ UNCHANGED <<buffer, inflight, delivered, evicted, failures>>

\* ... and returns once nothing is buffered or in flight from it.
LoopExit ==
    /\ loop = "dying"
    /\ buffer = <<>>
    /\ inflight[Loop] = <<>>
    /\ loop' = "dead"
    /\ UNCHANGED <<buffer, inflight, delivered, evicted, failures>>

RecorderTypeOK ==
    /\ buffer \in Seq(Spans) /\ Len(buffer) <= MaxBuffer
    /\ inflight \in [Senders -> Seq(Spans)]
    /\ delivered \in [Spans -> Nat]
    /\ evicted \subseteq Spans
    /\ failures \in 0..MaxFailures
    /\ loop \in {"alive", "dying", "dead"}

=============================================================================
