-------------------------- MODULE MCMeetingPipeline --------------------------
(* Small instances of MeetingPipeline for TLC.                              *)
EXTENDS MeetingPipeline, TLC

\* Worker processes are interchangeable.
WorkerSymmetry == Permutations(Workers)
=============================================================================
