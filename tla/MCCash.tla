-------------------------------- MODULE MCCash --------------------------------
(* A small instance of Cash for TLC. *)
EXTENDS Cash, TLC

CONSTANTS c1, c2, i1, g1, p1, v1, w1, t1, norte, sur, k1, k2, k3, socio

\* Both accounts belong to a partner.
UnSocio == [c \in Cuentas |-> socio]

Simetria == Permutations(Claves) \cup Permutations(Cuentas)
===============================================================================
