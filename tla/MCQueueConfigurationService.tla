--------------------- MODULE MCQueueConfigurationService ---------------------
(* The configuration service with two limits and the request to have none. *)
EXTENDS QueueConfigurationService

MCLimits == {-1, 1, 2}
=============================================================================
