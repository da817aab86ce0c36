----------------------- MODULE MCRequestOrchestration -----------------------
(* Two requests of one client, one of another, fewer slots than requests,  *)
(* each request cancelled up to twice.                                     *)
EXTENDS RequestOrchestration
CONSTANTS r1, r2, r3, c1, c2

MCClientOf == [r \in {r1, r2, r3} |-> IF r = r3 THEN c2 ELSE c1]
=============================================================================
