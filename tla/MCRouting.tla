----------------------------- MODULE MCRouting -----------------------------
(***************************************************************************)
(* Entries of spec.domains for TLC.                                        *)
(***************************************************************************)
EXTENDS Routing

(* One host, at its root and below. *)
TwoPaths == <<[host |-> <<"a", ".", "b">>, path |-> <<"/">>],
              [host |-> <<"a", ".", "b">>, path |-> <<"/", "a">>]>>

(* Two paths of one host that sanitizeDNS writes alike: /a/b and /a-b. *)
CollidingPaths ==
  <<[host |-> <<"a", ".", "b">>, path |-> <<"/", "a", "/", "b">>],
    [host |-> <<"a", ".", "b">>, path |-> <<"/", "a", "-", "b">>]>>

(* An entry that is edited names somebody else's middleware, twice. *)
OwnTwice == {<<External, External>>}
=============================================================================
