--------------------------- MODULE DurableStepsMC ---------------------------
(* DurableSteps and AdminQueries for TLC: a program with two steps of the   *)
(* same name, which go by "x" and "x#2", a sleep and an event.             *)
EXTENDS AdminQueries, Sequences, TLC

CONSTANTS e1, v1, v2

Call(kind, name) == [kind |-> kind, name |-> name]

Program4 == <<Call("step", "x"), Call("sleep", "nap"), Call("await", e1), Call("step", "x")>>

SuffixedMC(name, count) == name \o "#" \o ToString(count)

(* Workers in Rust, in Python and on asyncio are not symmetric. *)
RunSymmetry == Permutations(Run)
=============================================================================
