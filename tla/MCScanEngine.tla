----------------------------- MODULE MCScanEngine -----------------------------
(***************************************************************************)
(* An instance of ScanEngine for TLC: three traces on a cycle, one of them *)
(* found from two parents, by two plugins; two traces have the same value  *)
(* and want the same plugin, so their tasks share a key.                   *)
(***************************************************************************)
EXTENDS ScanEngine, TLC

CONSTANTS a, b, c, p, q, x, y

Shared == a :> x @@ b :> y @@ c :> y

TwoSources == a :> {p} @@ b :> {q} @@ c :> {q}

\* a leads to b and c, b to c and back to a, c to a.
Cycle == a :> (p :> {b, c} @@ q :> {}) @@ b :> (p :> {} @@ q :> {c, a})
         @@ c :> (p :> {} @@ q :> {a})

=============================================================================
