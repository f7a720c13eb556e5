------------------------ MODULE MCDomainRateLimiter ------------------------
(***************************************************************************)
(* An instance of DomainRateLimiter for TLC: two callers for one host that *)
(* starts in the shared bucket and gets a bucket of its own, and one       *)
(* reader of the metrics.                                                  *)
(***************************************************************************)
EXTENDS DomainRateLimiter, TLC

CONSTANTS host, w1, w2

OneHost == [shape : {"email"}, host : {host}]
OneDeadline == w1 :> 1 @@ w2 :> NoDeadline
Slow == {[burst |-> 1, base |-> 1, max |-> 2]}
Plain == [burst |-> 1, base |-> 2, max |-> 2]

=============================================================================
