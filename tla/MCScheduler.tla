---------------------------- MODULE MCScheduler ----------------------------
(* Scheduler on a small instance. *)
EXTENDS Scheduler

CONSTANTS t1, t2, t3, t4, s1, s2

MCThreads == {t1, t2, t3, t4}
MCPatient == {t1, t2}
MCSpaces == {s1, s2}
=============================================================================
