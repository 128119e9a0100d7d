---------------------------- MODULE MCLmdbSessions -----------------------------
(* LmdbSessions on a small instance; the constants are in the cfg file.       *)
EXTENDS LmdbSessions
=============================================================================
