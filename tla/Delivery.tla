----------------------------- MODULE Delivery -----------------------------
(***************************************************************************)
(* What the recorder promises the instrumentation (spec.md 3, 4.5, 8): a   *)
(* finished span is pending until the backend accepts it, once, or until  *)
(* it is evicted by the documented overflow policy, which only evicts     *)
(* while more than MaxBuffer spans are pending.  Once the process is       *)
(* closed (Stop has returned, or it crashed), nothing is finished,         *)
(* delivered or evicted any more.                                          *)
(***************************************************************************)
EXTENDS Naturals, FiniteSets

CONSTANTS Spans, MaxBuffer

VARIABLES finished, delivered, dropped, open

Pending == finished \ (delivered \cup dropped)

\* A span is finished; spans pending beyond the bound may be evicted with it.
Finish(s) ==
    /\ open
    /\ s \notin finished
    /\ finished' = finished \cup {s}
    /\ \E S \in SUBSET (Pending \cup {s}) :
          /\ S # {} => Cardinality((Pending \cup {s}) \ S) >= MaxBuffer
          /\ dropped' = dropped \cup S
    /\ UNCHANGED <<delivered, open>>

\* The backend accepts a batch of pending spans.
Deliver(S) ==
    /\ open
    /\ S # {}
    /\ S \subseteq Pending
    /\ delivered' = delivered \cup S
    /\ UNCHANGED <<finished, dropped, open>>

\* Pending spans are evicted, keeping at least MaxBuffer pending.
Evict(S) ==
    /\ open
    /\ S # {}
    /\ S \subseteq Pending
    /\ Cardinality(Pending \ S) >= MaxBuffer
    /\ dropped' = dropped \cup S
    /\ UNCHANGED <<finished, delivered, open>>

Close ==
    /\ open
    /\ open' = FALSE
    /\ UNCHANGED <<finished, delivered, dropped>>

Init ==
    /\ finished = {}
    /\ delivered = {}
    /\ dropped = {}
    /\ open = TRUE

Next ==
    \/ \E s \in Spans : Finish(s)
    \/ \E S \in SUBSET Spans : Deliver(S) \/ Evict(S)
    \/ Close

Spec == Init /\ [][Next]_<<finished, delivered, dropped, open>>

=============================================================================
