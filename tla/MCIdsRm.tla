------------------------------- MODULE MCIdsRm -------------------------------
(***************************************************************************)
(* Instances of the forwarder for TLC.  Queues of two and one entries are  *)
(* full after as many events, so that every limit is met.                  *)
(***************************************************************************)
EXTENDS IdsRm
=============================================================================
