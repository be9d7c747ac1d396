---------------------------- MODULE MCWebServer ----------------------------
(* WebServer on small instances.                                             *)
EXTENDS WebServer, TLC

CONSTANTS f1, f2, c1, c2, c3, w1, w2

(* Descriptors, clients and workers are interchangeable.                     *)
Perms == Permutations(Fds) \cup Permutations(Conns) \cup Permutations(Workers)
=============================================================================
