------------------------ MODULE MCPersistenceWorker ------------------------
(***************************************************************************)
(* Persistence with a channel of one or two places, so that it is often    *)
(* full, and every kind of job.                                            *)
(***************************************************************************)
EXTENDS PersistenceWorker
=============================================================================
