---------------------------- MODULE MCActorSystem ----------------------------
(* Small instance of a system of actors: the servers are spawned first.        *)
EXTENDS ActorSystem

TestOrder == <<"http", "proxy", "c1", "c2">>
=============================================================================
