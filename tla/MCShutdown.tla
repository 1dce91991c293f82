---------------------------- MODULE MCShutdown ----------------------------
(* Recovery and TTL share the background lock, recovery is critical; the   *)
(* unlock task takes no lock.                                              *)
EXTENDS Shutdown

MCTask == {"recovery", "ttl", "unlock"}
MCLocked == {"recovery", "ttl"}
MCCritical == {"recovery"}
=============================================================================
