---------------------------- MODULE SchedulerMC -----------------------------
(* An instance of Scheduler for TLC.                                        *)
EXTENDS Scheduler
=============================================================================
