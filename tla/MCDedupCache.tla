---------------------------- MODULE MCDedupCache ----------------------------
(***************************************************************************)
(* An instance of DedupCache for TLC: every plugin with one task, and one  *)
(* plugin with more tasks than the memory cache holds. A history is made   *)
(* of commits by six people, some of whom sign in more than one way and    *)
(* some of whom share an address. The other instance is of one plugin.     *)
(***************************************************************************)
EXTENDS DedupCache, TLC

CONSTANTS k1, k2, k3

OneKeyButGitHub == [p \in Plugins |-> IF p = "github_profile" THEN {k1, k2, k3} ELSE {k1}]

Sig(person, login, email, name) ==
  [person |-> person, login |-> login, email |-> email, name |-> name]

OwnerSig == Sig("ann", "ann", "ann@x", "Ann")
BobLogin == Sig("bob", "bob", "bob@x", "Bob")
BobMail  == Sig("bob", Missing, "bob@x", "Bob")
Cid      == Sig("cid", "cid", Missing, "Cid")
CidName  == Sig("cid", Missing, Missing, "Cid")
Dan      == Sig("dan", Missing, "dan@x", Missing)
DanEva   == Sig("eva", Missing, "dan@x", "Eva")
DanFay   == Sig("fay", Missing, "dan@x", "Fay")
Bot      == Sig("bot", Missing, Missing, Missing)

Commit(author, committer, coauthors) ==
  [author |-> author, committer |-> committer, coauthors |-> coauthors]

History == {
  Commit(OwnerSig, OwnerSig, {}), Commit(BobLogin, BobMail, {}), Commit(BobMail, Bot, {Dan}),
  Commit(Cid, CidName, {}), Commit(Dan, OwnerSig, {CidName}), Commit(Dan, DanEva, {DanFay})}

OnlyGitHubKeys == [p \in Plugins |-> IF p = "github_keys" THEN {k1} ELSE {}]

=============================================================================
