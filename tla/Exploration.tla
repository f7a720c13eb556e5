------------------------------ MODULE Exploration ------------------------------
(***************************************************************************)
(* What ProcessInput promises whoever asks for a scan, whatever its        *)
(* batches, calls, caches and workers do: an exploration of the facts that *)
(* the sources connect with a seed. It takes up to MaxConcurrency reported *)
(* facts at a time, each once, and in one step reports and stores all that *)
(* those sources that answered say of them. A source may be silent, and    *)
(* the exploration may break off anywhere; it ends by itself only when     *)
(* every fact it reports has been explored.                                *)
(***************************************************************************)
EXTENDS Naturals, FiniteSets

CONSTANTS Traces, Plugins, Handles, Finds, MaxConcurrency, NoTrace, SeedPlugin

VARIABLES
  graph,    \* the edges of all explorations
  id,       \* which exploration this is; 0 if there is none
  found,    \* the facts it reports
  explored, \* those its sources have been asked about
  ended     \* it has come to its end

vars == <<graph, id, found, explored, ended>>

Edge(t, p, c) == [parent |-> t, plugin |-> p, child |-> c, scan |-> id]

Init == graph = {} /\ id = 0 /\ found = {} /\ explored = {} /\ ended = FALSE

Begin(seed) ==
  /\ id = 0
  /\ id' \in Nat \ ({0} \cup {e.scan : e \in graph})
  /\ graph' = graph \cup {Edge(NoTrace, SeedPlugin, seed)'}
  /\ found' = {seed}
  /\ UNCHANGED <<explored, ended>>

\* The facts in B with the sources that are asked about them.
Questions(B) == {q \in B \X Plugins : q[2] \in Handles[q[1]]}

\* The edges the answers to some questions make.
EdgesFrom(answered) == UNION {{Edge(q[1], q[2], c) : c \in Finds[q[1]][q[2]]} : q \in answered}

Explore(B) ==
  /\ id # 0 /\ ~ended
  /\ B # {} /\ Cardinality(B) <= MaxConcurrency
  /\ \E answered \in SUBSET Questions(B) :
       /\ graph' = graph \cup EdgesFrom(answered)
       /\ found' = found \cup {e.child : e \in EdgesFrom(answered)}
  /\ explored' = explored \cup B
  /\ UNCHANGED <<id, ended>>

End ==
  /\ id # 0 /\ ~ended
  /\ found = explored
  /\ ended' = TRUE
  /\ UNCHANGED <<graph, id, found, explored>>

\* The scan is reported, or it failed, or its process died: the graph remains.
Leave ==
  /\ id # 0
  /\ id' = 0 /\ found' = {} /\ explored' = {} /\ ended' = FALSE
  /\ UNCHANGED graph

Next ==
  \/ \E seed \in Traces : Begin(seed)
  \/ \E B \in SUBSET (found \ explored) : Explore(B)
  \/ End \/ Leave

Spec == Init /\ [][Next]_vars

=============================================================================
