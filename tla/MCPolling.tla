------------------------------ MODULE MCPolling ------------------------------
(* An application that is underwritten up to three times. *)
EXTENDS Polling

MCRuns == 1..3
=============================================================================
