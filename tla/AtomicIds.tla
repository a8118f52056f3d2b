----------------------------- MODULE AtomicIds -----------------------------
(***************************************************************************)
(* What the id generator promises its callers (spec.md 4.1 and 5): a call  *)
(* of randomID or randomID2 takes the next one or two values of the       *)
(* generator's stream in one indivisible step, so the ids a call returns   *)
(* are consecutive draws and no two calls share one.  The stream is        *)
(* abstracted to its positions, as in IDGenerator.                         *)
(***************************************************************************)
EXTENDS Naturals

VARIABLES
    next,    \* the position of the next draw
    handed   \* the positions returned so far

Init == next = 0 /\ handed = {}

\* A call returns the n positions from next on.
Draw(n) ==
    /\ handed' = handed \cup (next .. next + n - 1)
    /\ next' = next + n

Next == \E n \in {1, 2} : Draw(n)

Spec == Init /\ [][Next]_<<next, handed>>

=============================================================================
