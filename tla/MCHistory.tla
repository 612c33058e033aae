----------------------------- MODULE MCHistory ------------------------------
(* History for TLC: a DNS check, a peer, and a second alias of that peer. *)
EXTENDS History

MCChecks == << [kind |-> "wan", target |-> "example.org", label |-> None],
               [kind |-> "peers", target |-> "id1", label |-> "desktop"],
               [kind |-> "peers", target |-> "id1", label |-> "workshop"] >>
=============================================================================
