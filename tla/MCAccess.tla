------------------------------- MODULE MCAccess -------------------------------
(* A small instance of Access for TLC. *)
EXTENDS Access, TLC

CONSTANTS ana, beto, caro, TALLER, NUEVO, VENTAS

Pedidos == {{}, {GESTION}, {VENTAS}, {GESTION, VENTAS}}

Cuenta(rol, global) ==
    [rol |-> rol, global |-> global, activo |-> TRUE, clave |-> 1,
     configurada |-> TRUE, vence |-> NoHay, estado |-> "ACCEPTED", version |-> 1]

\* Two administrators and somebody with a role of the organization.
Todos == ana :> Cuenta(ADMINISTRADOR, TRUE) @@ beto :> Cuenta(ADMINISTRADOR, FALSE)
         @@ caro :> Cuenta(TALLER, FALSE)

\* The last one was never invited.
SinCaro == [Todos EXCEPT ![caro] = NoHay]

\* The second administrator has not chosen a password yet.
Invitado == [Todos EXCEPT ![beto].configurada = FALSE, ![beto].vence = "futuro",
                          ![beto].estado = "DELIVERED"]

LosRoles == ADMINISTRADOR :> [activo |-> TRUE, permisos |-> {GESTION}, version |-> 1]
            @@ TALLER :> [activo |-> TRUE, permisos |-> {VENTAS}, version |-> 1]
            @@ NUEVO :> NoHay

Topes(e, c, o, a, m, r, t) ==
    [entradas |-> e, claves |-> c, olvidos |-> o, altas |-> a, cambios |-> m,
     roles |-> r, tiempo |-> t]

De3(us, ss, q) == [usuarios |-> us, roles |-> LosRoles, sesiones |-> ss, quedan |-> q]

\* Behaviours apart: administrators that change each other; accesses against
\* logins, passwords and permissions; invitations; forgotten passwords; roles.
LosEscenarios ==
    {De3(Todos, <<ana, beto>>, Topes(0, 0, 1, 0, 2, 0, 0)),
     De3(Todos, <<ana, caro>>, Topes(1, 1, 0, 0, 1, 0, 1)),
     De3(Todos, <<ana, caro>>, Topes(1, 0, 0, 0, 1, 1, 0)),
     De3(SinCaro, <<ana>>, Topes(0, 1, 0, 2, 0, 0, 1)),
     De3(Invitado, <<ana>>, Topes(0, 1, 0, 1, 1, 0, 0)),
     De3(Todos, <<caro>>, Topes(0, 1, 2, 0, 0, 0, 0)),
     De3(Todos, <<caro>>, Topes(1, 2, 1, 0, 0, 0, 1)),
     De3(SinCaro, <<ana>>, Topes(0, 0, 0, 1, 0, 2, 0)),
     De3(Todos, <<ana>>, Topes(0, 0, 0, 0, 1, 2, 0))}

Simetria == Permutations(Procesos)
===============================================================================
