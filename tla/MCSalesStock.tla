----------------------------- MODULE MCSalesStock -----------------------------
(* Small instances of SalesStock for TLC. *)
EXTENDS SalesStock, TLC

CONSTANTS o1, o2, u1, u2, a1, a2, k1, k2, moto, moto2, usada, auto, norte, sur, ana

\* Which version each supplier availability is about.
DeMoto == [a \in Disponibilidades |-> moto]
DeAuto == [a \in Disponibilidades |-> auto]

Simetria == Permutations(Operaciones) \cup Permutations(Unidades)
               \cup Permutations(Disponibilidades) \cup Permutations(Solicitudes)
===============================================================================
