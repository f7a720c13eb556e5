------------------------------ MODULE TraceCalls ------------------------------
(***************************************************************************)
(* What Processor.ProcessTrace promises the engine, whatever happens in    *)
(* the pool below it: a call resolves each plugin that wants its trace at  *)
(* most once, to one outcome that never changes, and then returns with     *)
(* every plugin resolved; only an expired scan lets it return with fewer.  *)
(***************************************************************************)
CONSTANTS Calls, Plugins, Wanted

VARIABLES outcome, status

vars == <<outcome, status>>

Init ==
  /\ outcome = [c \in Calls |-> [p \in Plugins |-> "none"]]
  /\ status = [c \in Calls |-> "open"]

\* The call learns what became of its task for plugin p.
Resolve(c, p) ==
  /\ status[c] = "open"
  /\ p \in Wanted[c]
  /\ outcome[c][p] = "none"
  /\ \E o \in {"traces", "error", "dup", "refused"} :
       outcome' = [outcome EXCEPT ![c][p] = o]
  /\ UNCHANGED status

Complete(c) ==
  /\ status[c] = "open"
  /\ \A p \in Wanted[c] : outcome[c][p] # "none"
  /\ status' = [status EXCEPT ![c] = "done"]
  /\ UNCHANGED outcome

Abandon(c) ==
  /\ status[c] = "open"
  /\ \E p \in Wanted[c] : outcome[c][p] = "none"
  /\ status' = [status EXCEPT ![c] = "aborted"]
  /\ UNCHANGED outcome

Next == \E c \in Calls : (\E p \in Plugins : Resolve(c, p)) \/ Complete(c) \/ Abandon(c)

Spec == Init /\ [][Next]_vars

=============================================================================
