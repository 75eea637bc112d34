------------------------------ MODULE UsecasesMC ------------------------------
(* Usecases for TLC: in usecase A an application in Rust, one on asyncio    *)
(* whose worker takes a single channel, and the command line, which is also *)
(* the upkeep worker; in usecase B one in Python; a key that both usecases  *)
(* spawn with, and a name that nobody registers.                            *)
EXTENDS Usecases, TLC

CONSTANTS a1, a2, a3, a4, A, B, c1, c2, n1, n2, k1, go, w1, w2, w3, u1

Homes ==
  {[usecase |-> A, channel |-> c2, name |-> n1, key |-> k1],
   [usecase |-> A, channel |-> c1, name |-> n2, key |-> None],
   [usecase |-> B, channel |-> c1, name |-> n1, key |-> k1]}

UsecaseEvents == Usecase \X EventName
KindOf == (a1 :> "rust") @@ (a2 :> "python") @@ (a3 :> "command") @@ (a4 :> "asyncio")
UsecaseOfApp == (a1 :> A) @@ (a2 :> B) @@ (a3 :> A) @@ (a4 :> A)
DefaultOf == (a1 :> c2) @@ (a2 :> c2) @@ (a3 :> c1) @@ (a4 :> c1)
AddedBy == (a1 :> {c1}) @@ (a2 :> {c1}) @@ (a3 :> {}) @@ (a4 :> {})
RegisteredBy == (a1 :> {n1}) @@ (a2 :> {n1}) @@ (a3 :> {}) @@ (a4 :> {n1})
Config == (w1 :> a1) @@ (w2 :> a4) @@ (w3 :> a2) @@ (u1 :> a3)
ChannelsOf == (w1 :> {}) @@ (w2 :> {c2}) @@ (w3 :> {c1})

IdSymmetry == Permutations(Task) \cup Permutations(Run)
===============================================================================
