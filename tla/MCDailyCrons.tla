---------------------------- MODULE MCDailyCrons ----------------------------
(* One worker with one slot; four customers and a shoemaker.                 *)
EXTENDS DailyCrons

CONSTANTS a, sa

MCWorkerOf == [s \in Slots |-> a]

=============================================================================
