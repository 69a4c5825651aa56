--------------------------- MODULE MCNetworkService ---------------------------
(* Three nodes: one talks to both others and hears from one of them.         *)
EXTENDS NetworkService

MCNodes == {"alice", "bob", "charlie"}
MCTalks == {<<"alice", "bob">>, <<"alice", "charlie">>, <<"bob", "alice">>}
=============================================================================
