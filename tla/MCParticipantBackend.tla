-------------------------- MODULE MCParticipantBackend --------------------------
(* ParticipantBackend for TLC.                                             *)
EXTENDS ParticipantBackend, TLC

=============================================================================
