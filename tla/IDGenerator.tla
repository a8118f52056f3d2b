---------------------------- MODULE IDGenerator ----------------------------
(***************************************************************************)
(* The span/trace id generator of tracer/random.go (second version in      *)
(* src/tracer/propagation_ot.go, lines 265-306): one math/rand source      *)
(* seeded at package initialisation and shared by every goroutine that     *)
(* starts a span, guarded by seededIDLock.                                 *)
(*                                                                         *)
(* The pseudo-random stream is abstracted to its positions: the k-th draw  *)
(* from the source returns "position k", and two draws return the same id  *)
(* exactly when they read the source in the same state.  A draw (Int63)    *)
(* reads the source's state and writes the advanced state back, two steps  *)
(* that only the lock keeps together.                                      *)
(***************************************************************************)
EXTENDS Naturals, Sequences, FiniteSets

LOCAL INSTANCE FiniteSetsExt

CONSTANTS
    Goroutines,  \* goroutines starting spans
    MaxCalls,    \* calls each goroutine makes (bound on the model)
    NoOne        \* model value: the mutex is free

VARIABLES
    pos,       \* the state of seededIDGen: the position of the next draw
    lock,      \* seededIDLock: NoOne or the goroutine holding it
    pc,        \* per goroutine: "idle", "lock", "read", "write", "unlock"
    want,      \* per goroutine: ids the current call returns (1 or 2)
    read,      \* per goroutine: the source state its draw read
    got,       \* per goroutine: the ids drawn so far in the current call
    calls,     \* per goroutine: calls returned
    issued     \* every id returned so far, with the number of times

vars == <<pos, lock, pc, want, read, got, calls, issued>>

-----------------------------------------------------------------------------

\* Package initialisation (lines 277-281): the source is seeded once;
\* positions are counted from the seed.
Init ==
    /\ pos = 0
    /\ lock = NoOne
    /\ pc = [g \in Goroutines |-> "idle"]
    /\ want = [g \in Goroutines |-> 0]
    /\ read = [g \in Goroutines |-> 0]
    /\ got = [g \in Goroutines |-> <<>>]
    /\ calls = [g \in Goroutines |-> 0]
    /\ issued = [i \in {} |-> 0]

\* randomID (n = 1, lines 296-300) or randomID2 (n = 2, lines 302-306) is
\* called.
Call(g, n) ==
    /\ pc[g] = "idle"
    /\ calls[g] < MaxCalls
    /\ pc' = [pc EXCEPT ![g] = "lock"]
    /\ want' = [want EXCEPT ![g] = n]
    /\ UNCHANGED <<pos, lock, read, got, calls, issued>>

\* Mutant: the lock is not taken (the generator used without seededIDLock).
Lock_None(g) ==
    /\ pc[g] = "lock"
    /\ pc' = [pc EXCEPT ![g] = "read"]
    /\ UNCHANGED <<pos, lock, want, read, got, calls, issued>>

\* seededIDLock.Lock() (lines 297, 303).
Lock(g) ==
    /\ pc[g] = "lock"
    /\ lock = NoOne
    /\ lock' = g
    /\ pc' = [pc EXCEPT ![g] = "read"]
    /\ UNCHANGED <<pos, want, read, got, calls, issued>>

\* seededIDGen.Int63() reads the source state ...
ReadSource(g) ==
    /\ pc[g] = "read"
    /\ read' = [read EXCEPT ![g] = pos]
    /\ pc' = [pc EXCEPT ![g] = "write"]
    /\ UNCHANGED <<pos, lock, want, got, calls, issued>>

\* Mutant: one draw too many before returning (an off-by-one in the count).
WriteSource_NoEnd(g) ==
    /\ pc[g] = "write"
    /\ pos' = read[g] + 1
    /\ got' = [got EXCEPT ![g] = Append(@, read[g])]
    /\ pc' = [pc EXCEPT ![g] = IF Len(got'[g]) > want[g] THEN "unlock" ELSE "read"]
    /\ UNCHANGED <<lock, want, read, calls, issued>>

\* ... and writes it back advanced, returning the id of the state it read;
\* randomID2 draws twice before returning (line 305).
WriteSource(g) ==
    /\ pc[g] = "write"
    /\ pos' = read[g] + 1
    /\ got' = [got EXCEPT ![g] = Append(@, read[g])]
    /\ pc' = [pc EXCEPT ![g] = IF Len(got'[g]) = want[g] THEN "unlock" ELSE "read"]
    /\ UNCHANGED <<lock, want, read, calls, issued>>

\* The ids of a returning call added to the history of ids handed out.
Issue(h, ids) ==
    [i \in DOMAIN h \cup {ids[j] : j \in DOMAIN ids} |->
        (IF i \in DOMAIN h THEN h[i] ELSE 0)
        + Cardinality({j \in DOMAIN ids : ids[j] = i})]

\* Mutant: the deferred Unlock is missing.
Unlock_Missing(g) ==
    /\ pc[g] = "unlock"
    /\ issued' = Issue(issued, got[g])
    /\ pc' = [pc EXCEPT ![g] = "idle"]
    /\ got' = [got EXCEPT ![g] = <<>>]
    /\ calls' = [calls EXCEPT ![g] = @ + 1]
    /\ UNCHANGED <<pos, lock, want, read>>

\* defer seededIDLock.Unlock(): the lock is released and the ids returned.
Unlock(g) ==
    /\ pc[g] = "unlock"
    /\ lock' = IF lock = g THEN NoOne ELSE lock
    /\ issued' = Issue(issued, got[g])
    /\ pc' = [pc EXCEPT ![g] = "idle"]
    /\ got' = [got EXCEPT ![g] = <<>>]
    /\ calls' = [calls EXCEPT ![g] = @ + 1]
    /\ UNCHANGED <<pos, want, read>>

Done == \A g \in Goroutines : calls[g] = MaxCalls /\ pc[g] = "idle"

Next ==
    \/ \E g \in Goroutines :
          \/ \E n \in {1, 2} : Call(g, n)
          \/ Lock(g) \/ ReadSource(g) \/ WriteSource(g) \/ Unlock(g)
    \/ Done /\ UNCHANGED vars

\* Go's sync.Mutex hands the lock to a waiter that has waited over 1ms
\* (starvation mode): a goroutine waiting on a lock released infinitely often
\* gets it.  The steps under the lock run without waiting on anything.
Fairness ==
    \A g \in Goroutines :
        /\ SF_vars(Lock(g))
        /\ WF_vars(ReadSource(g)) /\ WF_vars(WriteSource(g)) /\ WF_vars(Unlock(g))

Spec == Init /\ [][Next]_vars /\ Fairness

-----------------------------------------------------------------------------

TypeOK ==
    /\ pos \in Nat
    /\ lock \in Goroutines \cup {NoOne}
    /\ pc \in [Goroutines -> {"idle", "lock", "read", "write", "unlock"}]
    /\ want \in [Goroutines -> 0..2]
    /\ calls \in [Goroutines -> 0..MaxCalls]
    /\ \A g \in Goroutines : got[g] \in Seq(Nat) /\ Len(got[g]) <= want[g]

\* However the goroutines starting spans interleave, no id is handed out
\* twice: every id returned by randomID/randomID2 is a different position
\* of the shared stream.
IdsUnique == \A i \in DOMAIN issued : issued[i] = 1

\* The position the next call starts from: the source's position less the
\* draws made by calls that have not returned yet.
Drawn == pos - MapThenSumSet(LAMBDA g : Len(got[g]), Goroutines)

\* The generator implements the atomic one: every call of randomID or
\* randomID2 returns the next one or two positions of the stream as if it
\* drew them in one step, however the goroutines' Int63 calls (their read
\* and write of the source state) interleave with the lock's hand-offs.
A == INSTANCE AtomicIds WITH next <- Drawn, handed <- DOMAIN issued

AtomicDraws == A!Spec

\* Every call of randomID/randomID2 returns: no goroutine starting a span
\* waits on seededIDLock forever.
CallsReturn == \A g \in Goroutines : pc[g] # "idle" ~> pc[g] = "idle"

=============================================================================
