------------------------ MODULE MCProcessJobRunner ------------------------
(* ProcessJobRunner with two jobs, so that one has to wait for the only    *)
(* worker thread, and two messages, so that they can be confused.          *)
EXTENDS ProcessJobRunner
CONSTANTS j1, j2
============================================================================
