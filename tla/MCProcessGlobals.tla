-------------------------- MODULE MCProcessGlobals --------------------------
(* The two package-level states of the agent that every goroutine reaches  *)
(* through a sync.Mutex: the seeded id generator (IDGenerator) and the      *)
(* source-location cache (SourceCache).  They share no variable, so a      *)
(* behaviour checks one of them: it picks the component in Init and runs   *)
(* that component's Next and fairness while the other stays idle.  The     *)
(* same three goroutines are the callers of either; each makes one call   *)
(* of the id generator, MaxCalls of the cache.                             *)
EXTENDS Naturals

CONSTANTS
    g1, g2, g3, f1,
    NoOne, Nil, MaxCalls

VARIABLES
    component,
    pos, lock, idPc, want, read, got, idCalls, issued,
    mutex, methodCodes, srcPc, target, result, srcCalls

idVars == <<pos, lock, idPc, want, read, got, idCalls, issued>>
srcVars == <<mutex, methodCodes, srcPc, target, result, srcCalls>>
vars == <<component, idVars, srcVars>>

MCGoroutines == {g1, g2, g3}

I == INSTANCE IDGenerator WITH Goroutines <- MCGoroutines, pc <- idPc, calls <- idCalls, MaxCalls <- 1

\* One test file declaring TestA; calls from main.TestA and main.TestB.
S == INSTANCE SourceCache
        WITH Callers <- MCGoroutines, pc <- srcPc, calls <- srcCalls,
             Files <- {f1}, Names <- {"TestA", "TestB"}, Decls <- [f \in {f1} |-> {"TestA"}],
             Parses <- {f1},
             Targets <- {[file |-> f1, pkg |-> <<"main">>, name |-> n] : n \in {"TestA", "TestB"}}

\* A step of one component, the other left alone.
IdStep(A) == component = "ids" /\ A /\ UNCHANGED <<component, srcVars>>
SrcStep(A) == component = "sources" /\ A /\ UNCHANGED <<component, idVars>>

Init ==
    /\ component \in {"ids", "sources"}
    /\ I!Init
    /\ S!Init

Next == IdStep(I!Next) \/ SrcStep(S!Next)

\* The fairness of the component the behaviour runs (IDGenerator's and
\* SourceCache's own), over the composite steps.
Fairness ==
    /\ component = "ids" =>
          \A g \in MCGoroutines :
              /\ SF_vars(IdStep(I!Lock(g)))
              /\ WF_vars(IdStep(I!ReadSource(g))) /\ WF_vars(IdStep(I!WriteSource(g)))
              /\ WF_vars(IdStep(I!Unlock(g)))
    /\ component = "sources" =>
          \A g \in MCGoroutines :
              /\ SF_vars(SrcStep(S!Lock(g)))
              /\ WF_vars(SrcStep(S!Check(g))) /\ WF_vars(SrcStep(S!Parse(g)))
              /\ WF_vars(SrcStep(S!Unlock(g))) /\ WF_vars(SrcStep(S!Read(g)))

Spec == Init /\ [][Next]_vars /\ Fairness

\* Both components' variables keep their types.
TypeOK == I!TypeOK /\ S!TypeOK

\* randomID and randomID2 behave as indivisible draws of the next one or
\* two positions of the stream.
IdsAtomic == I!AtomicDraws

\* Every call of randomID/randomID2 returns.
IdCallsReturn == I!CallsReturn

\* Every GetFuncSource call returns.
CacheCallsReturn == S!CallsReturn

=============================================================================
