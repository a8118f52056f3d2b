---------------------------- MODULE SourceCache ----------------------------
(***************************************************************************)
(* GetFuncSource of src/ast/sources.go (lines 12-86): a process-wide cache *)
(* methodCodes, file -> (function name -> code boundaries), filled under   *)
(* mutex by parsing the file on its first lookup, and read after Unlock.   *)
(*                                                                         *)
(* Abstraction.  The boundaries of function n of file f are <<f, n>>; the  *)
(* parser is the constant Decls (the names a file declares) and Parses     *)
(* (the files it accepts).  A runtime function name is the sequence of its *)
(* dot-separated parts, so strings.Split(funcName, ".") is the identity on *)
(* it and funcNameParts[1] is its second element.                          *)
(***************************************************************************)
EXTENDS Naturals, Sequences, FiniteSets, TLC

CONSTANTS
    Callers,   \* goroutines calling GetFuncSource
    MaxCalls,  \* calls each goroutine makes (bound on the model)
    Files,     \* source files
    Names,     \* function names
    Decls,     \* Decls[f]: the functions file f declares
    Parses,    \* the files parser.ParseFile accepts
    Targets,   \* [file, pkg, name]: the functions calls are made from; pkg is
               \* the package path split at its dots
    NoOne,     \* model value: the mutex is free
    Nil        \* model value: a nil *MethodCodeBoundaries

ASSUME Decls \in [Files -> SUBSET Names] /\ Parses \subseteq Files

VARIABLES
    mutex,        \* NoOne or the caller holding it
    methodCodes,  \* the cache: a function from the files present to names
    pc,           \* per caller: "idle", "lock", "check", "parse", "unlock", "read"
    target,       \* per caller: the function of the current call
    result,       \* per caller: what its last call returned
    calls         \* per caller: calls returned

vars == <<mutex, methodCodes, pc, target, result, calls>>

NoTarget == [file |-> CHOOSE f \in Files : TRUE, pkg |-> <<>>, name |-> Nil]

\* runtime.FuncForPC(pc).Name() split at its dots (lines 83-84).
FuncNameParts(t) == t.pkg \o <<t.name>>

-----------------------------------------------------------------------------

Init ==
    /\ mutex = NoOne
    /\ methodCodes = [f \in {} |-> {}]
    /\ pc = [c \in Callers |-> "idle"]
    /\ target = [c \in Callers |-> NoTarget]
    /\ result = [c \in Callers |-> Nil]
    /\ calls = [c \in Callers |-> 0]

\* GetFuncSourceFromCaller / GetFuncSource(pc) is called (lines 30-38).
Call(c, t) ==
    /\ pc[c] = "idle"
    /\ calls[c] < MaxCalls
    /\ pc' = [pc EXCEPT ![c] = "lock"]
    /\ target' = [target EXCEPT ![c] = t]
    /\ UNCHANGED <<mutex, methodCodes, result, calls>>

\* Mutant: the cache used without the mutex.
Lock_None(c) ==
    /\ pc[c] = "lock"
    /\ pc' = [pc EXCEPT ![c] = "check"]
    /\ UNCHANGED <<mutex, methodCodes, target, result, calls>>

\* mutex.Lock() (line 40).
Lock(c) ==
    /\ pc[c] = "lock"
    /\ mutex = NoOne
    /\ mutex' = c
    /\ pc' = [pc EXCEPT ![c] = "check"]
    /\ UNCHANGED <<methodCodes, target, result, calls>>

\* Lines 41-46: a file seen before is not parsed again; a new one gets an
\* empty entry before it is parsed.
Check(c) ==
    LET f == target[c].file IN
    /\ pc[c] = "check"
    /\ IF f \in DOMAIN methodCodes
         THEN /\ pc' = [pc EXCEPT ![c] = "unlock"]
              /\ UNCHANGED methodCodes
         ELSE /\ methodCodes' = methodCodes @@ (f :> {})
              /\ pc' = [pc EXCEPT ![c] = "parse"]
    /\ UNCHANGED <<mutex, target, result, calls>>

\* methodCodes[mFile][funcNameParts[1]] (line 85); a missing name is nil.
Lookup(c) ==
    LET f == target[c].file
        key == FuncNameParts(target[c])[2]
    IN  IF key \in methodCodes[f] THEN <<f, key>> ELSE Nil

\* A call returns r.
Return(c, r) ==
    /\ pc' = [pc EXCEPT ![c] = "idle"]
    /\ result' = [result EXCEPT ![c] = r]
    /\ calls' = [calls EXCEPT ![c] = @ + 1]

\* Mutant: every name is entered, declared by the file or not.
Parse_AllNames(c) ==
    LET f == target[c].file IN
    /\ pc[c] = "parse"
    /\ methodCodes' = [methodCodes EXCEPT ![f] = Names]
    /\ pc' = [pc EXCEPT ![c] = "unlock"]
    /\ UNCHANGED <<mutex, target, result, calls>>

\* Lines 47-79: parser.ParseFile; on an error GetFuncSource returns nil
\* without unlocking the mutex (line 50); otherwise every declared function
\* with a body is entered.
Parse(c) ==
    LET f == target[c].file IN
    /\ pc[c] = "parse"
    /\ IF f \in Parses
         THEN /\ methodCodes' = [methodCodes EXCEPT ![f] = Decls[f]]
              /\ pc' = [pc EXCEPT ![c] = "unlock"]
              /\ UNCHANGED <<result, calls>>
         ELSE /\ Return(c, Nil)
              /\ UNCHANGED methodCodes
    /\ UNCHANGED <<mutex, target>>

\* Mutant: the mutex is never released.
Unlock_Missing(c) ==
    /\ pc[c] = "unlock"
    /\ pc' = [pc EXCEPT ![c] = "read"]
    /\ UNCHANGED <<mutex, methodCodes, target, result, calls>>

\* mutex.Unlock() (line 81).
Unlock(c) ==
    /\ pc[c] = "unlock"
    /\ mutex' = NoOne
    /\ pc' = [pc EXCEPT ![c] = "read"]
    /\ UNCHANGED <<methodCodes, target, result, calls>>

\* Lines 83-85, outside the mutex.
Read(c) ==
    /\ pc[c] = "read"
    /\ Return(c, Lookup(c))
    /\ UNCHANGED <<mutex, methodCodes, target>>

Done == \A c \in Callers : calls[c] = MaxCalls /\ pc[c] = "idle"

Next ==
    \/ \E c \in Callers :
          \/ \E t \in Targets : Call(c, t)
          \/ Lock(c) \/ Check(c) \/ Parse(c) \/ Unlock(c) \/ Read(c)
    \/ Done /\ UNCHANGED vars

\* sync.Mutex starvation mode hands the lock to a long waiter; the other
\* steps wait on nothing.
Fairness ==
    \A c \in Callers :
        /\ SF_vars(Lock(c))
        /\ WF_vars(Check(c)) /\ WF_vars(Parse(c))
        /\ WF_vars(Unlock(c)) /\ WF_vars(Read(c))

Spec == Init /\ [][Next]_vars /\ Fairness

-----------------------------------------------------------------------------

TypeOK ==
    /\ mutex \in Callers \cup {NoOne}
    /\ DOMAIN methodCodes \subseteq Files
    /\ \A f \in DOMAIN methodCodes : methodCodes[f] \subseteq Decls[f]
    /\ pc \in [Callers -> {"idle", "lock", "check", "parse", "unlock", "read"}]
    /\ target \in [Callers -> Targets \cup {NoTarget}]
    /\ result \in [Callers -> (Files \X Names) \cup {Nil}]
    /\ calls \in [Callers -> 0..MaxCalls]

\* The boundaries a caller should get: those of the function it was called
\* from, when its file parses and declares it.
Expected(t) ==
    IF t.file \in Parses /\ t.name \in Decls[t.file] THEN <<t.file, t.name>> ELSE Nil

\* Every call of GetFuncSource returns the boundaries of the function it was
\* asked about, whichever caller filled the cache and however the calls
\* interleave.
ResultCorrect ==
    \A c \in Callers : pc[c] = "idle" /\ calls[c] > 0 => result[c] = Expected(target[c])

\* A caller about to write the cache: the outer map at line 45, or the
\* inner map of file f at line 75.
WritesOuter(d) == pc[d] = "check" /\ target[d].file \notin DOMAIN methodCodes
WritesInner(d, f) == pc[d] = "parse" /\ target[d].file = f

\* The unlocked read of methodCodes at line 85 never runs while another
\* caller writes the map it reads (a Go map read concurrent with a write is
\* a fatal runtime error).
NoMapRace ==
    \A c, d \in Callers :
        pc[c] = "read" => ~WritesOuter(d) /\ ~WritesInner(d, target[c].file)

\* Every call of GetFuncSource returns: no goroutine waits on the mutex
\* forever.
CallsReturn == \A c \in Callers : pc[c] # "idle" ~> pc[c] = "idle"

=============================================================================
