----------------------- MODULE MCSystemNotification ------------------------
(* Small instances of SystemNotification: two workers, each with a request   *)
(* and a job slot.                                                           *)
EXTENDS SystemNotification

CONSTANTS n1, u1, u2, s1, h1, h2, c1, c2, a, b

MCWorkerOf == [x \in Handlers \union Consumers |-> IF x \in {h1, c1} THEN a ELSE b]

=============================================================================
