---------------------------- MODULE MCUpdatesHub ----------------------------
(* Instances of the updates service for TLC: two connections of one user. *)
EXTENDS UpdatesHub

CONSTANTS f1, f2, c1, c2, u1

SameUser(c) == u1
OneShard(f) == 0
=============================================================================
