-------------------------- MODULE MCBackgroundTasks --------------------------
(* Instance of BackgroundTasks for TLC: two configurations, so that a reload *)
(* can shrink the limits under a dispatch, with no finished task to keep and *)
(* no line of the log.                                                      *)
EXTENDS BackgroundTasks

OneOrOff == [concurrent : {0, 1}, entries : {0}]
=============================================================================
