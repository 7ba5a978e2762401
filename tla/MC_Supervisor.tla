---------------------------- MODULE MC_Supervisor ----------------------------
(* Configurations that differ in the number of workers and another setting, *)
(* or in the listen address.                                                *)
EXTENDS Supervisor

Conf(n, b, o) == [workers |-> n, bind |-> b, other |-> o]

OneWorker == Conf(1, "x", 1)
TwoWorkers == Conf(2, "x", 0)
MCConfigs == {OneWorker, TwoWorkers, Conf(2, "y", 0)}
OnlyOne == {OneWorker}
=============================================================================
