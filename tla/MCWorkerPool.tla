----------------------------- MODULE MCWorkerPool -----------------------------
(***************************************************************************)
(* Instances of WorkerPool for TLC: two calls of ProcessTrace, either for  *)
(* traces of different values or for one value under two types.            *)
(***************************************************************************)
EXTENDS WorkerPool, TLC

CONSTANTS c1, c2, p1, p2, w1, w2, x, y

Distinct   == c1 :> x @@ c2 :> y
Shared     == c1 :> x @@ c2 :> x
AllPlugins == c1 :> {p1, p2} @@ c2 :> {p1, p2}
OnePlugin  == c1 :> {p1} @@ c2 :> {p1}
\* The second call has a plugin whose TraceMatcher turns the trace down.
Matched    == c1 :> {p1, p2} @@ c2 :> {p1}

\* The workers are interchangeable: nothing but their number matters.
WorkerSymmetry == Permutations(Workers)

=============================================================================
