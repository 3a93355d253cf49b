----------------------------- MODULE MCQueueLoop -----------------------------
(* Small instances of QueueLoop for TLC: QueueLoop.cfg checks FairSpec,     *)
(* QueueLoopStartup.cfg checks CrashSpec, where only a crash leaves a       *)
(* meeting in the middle of a stage.                                        *)
EXTENDS QueueLoop
=============================================================================
