-------------------------------- MODULE Access --------------------------------
(***************************************************************************)
(* Who may work with the system: the accounts of an organization           *)
(* (src/src/users), their roles (src/src/roles), their passwords and       *)
(* sessions (src/src/auth) and the check of every request (JwtStrategy).   *)
(*                                                                         *)
(* Almost every handler reads in one transaction and writes in a later     *)
(* one, some send a mail in between: each is several steps of a process,   *)
(* which may stop after any of them (an error answer, a restart of the     *)
(* server).  What the handler read is in the process; the transaction that *)
(* writes checks only what its WHERE says.  The transactions that take     *)
(* away an administrator hold the advisory lock of the organization from   *)
(* their check to their commit, and those that assign or deactivate a role *)
(* the lock of the role (luma_validar_rol_organizacion,                    *)
(* luma_proteger_identidad_rol): one step each.  The check of a request    *)
(* and the first read of its handler are one step too.                     *)
(*                                                                         *)
(* A password is its number in the life of the account: who holds the      *)
(* current one is the person who chose it, or who got its mail.  GESTION   *)
(* stands for the permissions to manage users and roles.  Left out:        *)
(* branches (a change of branch is a change of access that changes nothing *)
(* else here), other organizations, names, base roles and the audit log.   *)
(***************************************************************************)
EXTENDS Naturals, Sequences, FiniteSets

CONSTANTS
    Usuarios,        \* addresses an account may have
    Roles, ADMINISTRADOR, GESTION,
    Conjuntos,       \* sets of permissions a request may give a role
    Sesiones,        \* 1..n
    Procesos,        \* requests that may be in flight at once
    Escenarios,      \* initial accounts and sessions, with their bounds
    NoHay            \* SQL NULL, nothing

ASSUME RolDeSistema == ADMINISTRADOR \in Roles

ASSUME NumerosDeSesion == Sesiones \subseteq Nat \ {0}

-------------------------------------------------------------------------------
(* Types *)

Usuario ==
    [rol : Roles, global : BOOLEAN, activo : BOOLEAN, clave : Nat \ {0},
     configurada : BOOLEAN, vence : {NoHay, "futuro", "pasado"},
     estado : {"PENDING", "DELIVERED", "FAILED", "EXPIRED", "ACCEPTED"},
     version : Nat \ {0}]

Rol == [activo : BOOLEAN, permisos : Conjuntos, version : Nat \ {0}]

Sesion ==
    [usuario : Usuarios, revocada : BOOLEAN, ocio : 0..2, tardia : BOOLEAN,
     acceso : [clave : Nat \ {0}, rol : Roles, permisos : Conjuntos]]

\* NULL is no value of a column, and no row.
ASSUME NoHayAparte ==
    /\ NoHay \notin Roles /\ NoHay \notin Conjuntos
    /\ NoHay \notin BOOLEAN /\ NoHay \notin {"futuro", "pasado"}
    /\ NoHay \notin Usuario /\ NoHay \notin Rol

\* An account at the beginning: its role is active, and its password is one its
\* owner chose or a temporary one.
CuentaInicial(c, rs) ==
    /\ rs[c.rol] # NoHay /\ rs[c.rol].activo
    /\ c.configurada <=> c.vence = NoHay
    /\ c.configurada <=> c.estado = "ACCEPTED"

\* An organization begins with an administrator that can sign in.
ASSUME EscenariosPosibles ==
    \A e \in Escenarios :
        /\ e.usuarios \in [Usuarios -> Usuario \cup {NoHay}]
        /\ e.roles \in [Roles -> Rol \cup {NoHay}]
        /\ \A u \in Usuarios :
              e.usuarios[u] # NoHay => CuentaInicial(e.usuarios[u], e.roles)
        /\ \E u \in Usuarios :
              /\ e.usuarios[u] # NoHay /\ e.usuarios[u].rol = ADMINISTRADOR
              /\ e.usuarios[u].activo /\ e.usuarios[u].configurada
        /\ e.sesiones \in Seq({u \in Usuarios : e.usuarios[u] # NoHay})

VARIABLES
    usuarios,   \* [Usuarios -> row or NoHay]     usuarios, personal
    roles,      \* [Roles -> row or NoHay]        roles, permisos_rol
    sesiones,   \* [Sesiones -> row or NoHay]     sesiones_autenticacion
    proceso,    \* [Procesos -> request in flight or NoHay]
    correos,    \* the temporary passwords that reached their mailbox
    tarde,      \* history: accounts written over by an answer out of date
    sinAdmin,   \* history: an administrator lost the password outside the lock
    quedan      \* what each kind of request may still do

vars == <<usuarios, roles, sesiones, proceso, correos, tarde, sinAdmin, quedan>>

Gasta(q) == quedan[q] > 0 /\ quedan' = [quedan EXCEPT ![q] = @ - 1]

Libre(p) == proceso[p] = NoHay

\* The process of a request: what it is about and what it read.
En(p, paso, de, leido) ==
    proceso' = [proceso EXCEPT ![p] = [paso |-> paso, de |-> de, leido |-> leido]]

Sigue(p, paso) == ~ Libre(p) /\ proceso[p].paso = paso

Termina(p) == proceso' = [proceso EXCEPT ![p] = NoHay]

-------------------------------------------------------------------------------
(* Accounts, roles and sessions *)

Existe(u) == usuarios[u] # NoHay

De(r) == {u \in Usuarios : Existe(u) /\ usuarios[u].rol = r}

canCompleteFirstAccess(c) == c.activo /\ roles[c.rol].activo

canSignIn(c) ==
    canCompleteFirstAccess(c) /\ c.configurada /\ c.estado = "ACCEPTED"

\* What a session was opened with.
Acceso(c) ==
    [clave |-> c.clave, rol |-> c.rol, permisos |-> roles[c.rol].permisos]

\* The session answers for its user in a request made now.
Aceptada(s) ==
    /\ sesiones[s] # NoHay
    /\ ~ sesiones[s].revocada /\ sesiones[s].ocio < 2
    /\ canSignIn(usuarios[sesiones[s].usuario])

\* The permissions of a request: those its user's role has now, not those its
\* session was opened with.
permissions(a) == roles[usuarios[a].rol].permisos

\* A request of a, signed in, to manage users and roles.
Autorizado(a) ==
    /\ \E s \in Sesiones : Aceptada(s) /\ sesiones[s].usuario = a
    /\ GESTION \in permissions(a)

\* Mutant of SesionesDe: idle sessions are taken for ended.
SesionesDe_enUso(us) ==
    {s \in Sesiones : /\ sesiones[s] # NoHay /\ sesiones[s].usuario \in us
                      /\ sesiones[s].ocio = 0}

SesionesDe(us) ==
    {s \in Sesiones : sesiones[s] # NoHay /\ sesiones[s].usuario \in us}

revokeSessions(us) ==
    sesiones' = [s \in Sesiones |->
                    IF s \in SesionesDe(us)
                    THEN [sesiones[s] EXCEPT !.revocada = TRUE] ELSE sesiones[s]]

\* A new temporary password.
Reemitida(c) ==
    [c EXCEPT !.clave = @ + 1, !.configurada = FALSE, !.vence = "futuro",
              !.estado = "PENDING", !.version = @ + 1]

\* Mutant of Elegida: the expiry of the temporary password stays.
Elegida_vence(c) ==
    [c EXCEPT !.clave = @ + 1, !.configurada = TRUE, !.estado = "ACCEPTED"]

\* A password its owner chose.
Elegida(c) ==
    [c EXCEPT !.clave = @ + 1, !.configurada = TRUE, !.vence = NoHay,
              !.estado = "ACCEPTED"]

\* An account that keeps the organization administrable.
Protege(u) ==
    /\ Existe(u)
    /\ canCompleteFirstAccess(usuarios[u])
    /\ usuarios[u].configurada /\ usuarios[u].rol = ADMINISTRADOR

\* Mutant of assertLastGlobalAdministrator: an administrator invited counts.
assertLastGlobalAdministrator_invitado(u, rol, activo, configurada) ==
    (Protege(u) /\ ~ (activo /\ configurada /\ rol = ADMINISTRADOR))
        => \E w \in De(ADMINISTRADOR) \ {u} : usuarios[w].activo

\* Who stops being an active administrator leaves another one.  The arguments
\* are what the request read or asks, the rest is read under the lock.
assertLastGlobalAdministrator(u, rol, activo, configurada) ==
    (Protege(u) /\ ~ (activo /\ configurada /\ rol = ADMINISTRADOR))
        => \E w \in Usuarios \ {u} : Protege(w)

\* requireRole, then the trigger that reads the role again under its lock.
RolAsignable(r) == roles[r] # NoHay /\ roles[r].activo

assertGlobalAccessAssignment(otorga, global, rol) ==
    global => otorga /\ rol = ADMINISTRADOR

-------------------------------------------------------------------------------
(* Sessions *)

\* The password is checked on what the request read ...
login(p, u) ==
    /\ Libre(p) /\ Gasta("entradas")
    /\ Existe(u) /\ canSignIn(usuarios[u])
    /\ En(p, "login", u, Acceso(usuarios[u]))
    /\ UNCHANGED <<usuarios, roles, sesiones, correos, tarde, sinAdmin>>

\* ... and the session is created without reading the account again.
CreaSesion(p, s) ==
    /\ Sigue(p, "login")
    /\ sesiones[s] = NoHay /\ \A t \in Sesiones : t < s => sesiones[t] # NoHay
    /\ LET u == proceso[p].de
           leido == proceso[p].leido
       IN sesiones' = [sesiones EXCEPT ![s] =
              [usuario |-> u, acceso |-> leido, revocada |-> FALSE, ocio |-> 0,
               tardia |-> leido # Acceso(usuarios[u])]]
    /\ Termina(p)
    /\ UNCHANGED <<usuarios, roles, correos, tarde, sinAdmin, quedan>>

\* A request after a pause keeps its session alive.  Another one that is doing
\* it makes this one skip the row: nothing changes.
validate(s) ==
    /\ Aceptada(s) /\ sesiones[s].ocio = 1
    /\ sesiones' = [sesiones EXCEPT ![s].ocio = 0]
    /\ UNCHANGED <<usuarios, roles, proceso, correos, tarde, sinAdmin, quedan>>

logout(s) ==
    /\ Gasta("entradas")
    /\ Aceptada(s)
    /\ sesiones' = [sesiones EXCEPT ![s].revocada = TRUE]
    /\ UNCHANGED <<usuarios, roles, proceso, correos, tarde, sinAdmin>>

\* Time without requests: past the touch interval, then past the idle timeout.
Reposo(s) ==
    /\ Gasta("tiempo")
    /\ sesiones[s] # NoHay /\ ~ sesiones[s].revocada /\ sesiones[s].ocio < 2
    /\ sesiones' = [sesiones EXCEPT ![s].ocio = @ + 1]
    /\ UNCHANGED <<usuarios, roles, proceso, correos, tarde, sinAdmin>>

\* The temporary password of an account expires.
Vence(u) ==
    /\ Gasta("tiempo")
    /\ Existe(u) /\ usuarios[u].vence = "futuro"
    /\ usuarios' = [usuarios EXCEPT ![u].vence = "pasado"]
    /\ UNCHANGED <<roles, sesiones, proceso, correos, tarde, sinAdmin>>

-------------------------------------------------------------------------------
(* Passwords *)

\* The current password is checked on what is read ...
changePassword(p, s) ==
    /\ Libre(p) /\ Gasta("claves")
    /\ Aceptada(s)
    /\ LET u == sesiones[s].usuario
       IN  En(p, "clave", u, usuarios[u].clave)
    /\ UNCHANGED <<usuarios, roles, sesiones, correos, tarde, sinAdmin>>

\* ... and the new one is written whatever happened since.
CambiaClave(p) ==
    /\ Sigue(p, "clave")
    /\ LET u == proceso[p].de
       IN  /\ usuarios' = [usuarios EXCEPT ![u] = Elegida(@)]
           /\ tarde' = IF usuarios[u].clave = proceso[p].leido THEN tarde
                       ELSE tarde \cup {u}
           /\ revokeSessions({u})
    /\ Termina(p)
    /\ UNCHANGED <<roles, correos, sinAdmin, quedan>>

\* The first access, with the temporary password that came by mail.
changeTemporaryPassword(p, u) ==
    /\ Libre(p) /\ Gasta("claves")
    /\ Existe(u)
    /\ LET c == usuarios[u]
       IN  /\ ~ c.configurada /\ <<u, c.clave>> \in correos
           /\ canCompleteFirstAccess(c)
           /\ \/ /\ c.vence = "pasado" \/ c.estado = "EXPIRED"
                 /\ En(p, "vencida", u, c)
              \/ /\ c.vence = "futuro" /\ c.estado = "DELIVERED"
                 /\ En(p, "temporal", u, c)
    /\ UNCHANGED <<usuarios, roles, sesiones, correos, tarde, sinAdmin>>

\* Only the invitation that was read is marked.
MarcaVencida(p) ==
    /\ Sigue(p, "vencida")
    /\ LET u == proceso[p].de
           c == proceso[p].leido
       IN  /\ ~ usuarios[u].configurada
           /\ usuarios[u].clave = c.clave /\ usuarios[u].vence = c.vence
           /\ usuarios[u].estado = c.estado /\ usuarios[u].version = c.version
           /\ usuarios' = [usuarios EXCEPT ![u].estado = "EXPIRED"]
    /\ Termina(p)
    /\ UNCHANGED <<roles, sesiones, correos, tarde, sinAdmin, quedan>>

Configura(p) ==
    /\ Sigue(p, "temporal")
    /\ LET u == proceso[p].de
           c == usuarios[u]
       IN  /\ ~ c.configurada /\ c.clave = proceso[p].leido.clave
           /\ c.estado = "DELIVERED" /\ c.vence = "futuro"
           /\ usuarios' = [usuarios EXCEPT
                 ![u] = [Elegida(c) EXCEPT !.version = @ + 1]]
           /\ revokeSessions({u})
    /\ Termina(p)
    /\ UNCHANGED <<roles, correos, tarde, sinAdmin, quedan>>

\* Anybody asks for a new temporary password of an address.
requestPasswordReset(p, u) ==
    /\ Libre(p) /\ Gasta("olvidos")
    /\ Existe(u) /\ usuarios[u].activo
    /\ En(p, "olvido", u, usuarios[u].version)
    /\ UNCHANGED <<usuarios, roles, sesiones, correos, tarde, sinAdmin>>

\* Of two at once one goes on.  Nobody asks whether the account was the last
\* administrator that could sign in.
ReemitePublica(p) ==
    /\ Sigue(p, "olvido")
    /\ LET u == proceso[p].de
           c == Reemitida(usuarios[u])
       IN  /\ usuarios[u].version = proceso[p].leido
           /\ usuarios' = [usuarios EXCEPT ![u] = c]
           /\ sinAdmin' = (sinAdmin \/ Protege(u))
           /\ En(p, "revoca", u, c)
    /\ UNCHANGED <<roles, sesiones, correos, tarde, quedan>>

\* Its sessions end in another transaction.
RevocaPublica(p) ==
    /\ Sigue(p, "revoca")
    /\ LET u == proceso[p].de
           c == proceso[p].leido
       IN  /\ revokeSessions({u})
           /\ En(p, "correo", u, [clave |-> c.clave, version |-> c.version,
                                  publico |-> TRUE])
    /\ UNCHANGED <<usuarios, roles, correos, tarde, sinAdmin, quedan>>

\* The mail provider: a call that fails may have sent the mail.
EnviaCorreo(p) ==
    /\ Sigue(p, "correo")
    /\ LET u == proceso[p].de
           v == proceso[p].leido
       IN  \E llega, responde \in BOOLEAN :
              /\ responde => llega
              /\ correos' = IF llega THEN correos \cup {<<u, v.clave>>}
                            ELSE correos
              /\ En(p, "resultado", u, [version |-> v.version,
                                        publico |-> v.publico,
                                        responde |-> responde])
    /\ UNCHANGED <<usuarios, roles, sesiones, tarde, sinAdmin, quedan>>

\* Mutant of Vigente: the result of a mail is written whatever was sent since.
Vigente_siempre(u, v) == TRUE

\* An administrator's mail is registered on the invitation it was sent for, ...
Vigente(u, v) == v.publico \/ usuarios[u].version = v.version

\* ... a public reset's on the account, whatever its invitation is by now.
FueraDeFecha(u, v) == v.publico /\ usuarios[u].version # v.version

RegistraEnvio(p) ==
    /\ Sigue(p, "resultado")
    /\ LET u == proceso[p].de
           v == proceso[p].leido
       IN  /\ Vigente(u, v)
           /\ usuarios' = [usuarios EXCEPT
                 ![u].estado = IF v.responde THEN "DELIVERED" ELSE "FAILED"]
           /\ tarde' = IF FueraDeFecha(u, v) THEN tarde \cup {u} ELSE tarde
    /\ Termina(p)
    /\ UNCHANGED <<roles, sesiones, correos, sinAdmin, quedan>>

-------------------------------------------------------------------------------
(* Administration of users *)

\* Sends the temporary password the transaction gave the account.
Invita(p, u, c) ==
    En(p, "correo", u, [clave |-> c.clave, version |-> c.version,
                        publico |-> FALSE])

create(p, a, u, rol, global) ==
    /\ Libre(p) /\ Gasta("altas")
    /\ Autorizado(a)
    /\ RolAsignable(rol)
    /\ assertGlobalAccessAssignment(usuarios[a].global, global, rol)
    /\ ~ Existe(u)
    /\ LET c == [rol |-> rol, global |-> global, activo |-> TRUE, clave |-> 1,
                 configurada |-> FALSE, vence |-> "futuro",
                 estado |-> "PENDING", version |-> 1]
       IN  /\ usuarios' = [usuarios EXCEPT ![u] = c]
           /\ Invita(p, u, c)
    /\ UNCHANGED <<roles, sesiones, correos, tarde, sinAdmin>>

\* The address is taken by an account that never chose a password: it is
\* invited again.
Repite(p, a, u, rol, global) ==
    /\ Libre(p) /\ Gasta("altas")
    /\ Autorizado(a)
    /\ RolAsignable(rol)
    /\ assertGlobalAccessAssignment(usuarios[a].global, global, rol)
    /\ Existe(u) /\ ~ usuarios[u].configurada
    /\ En(p, "recupera", u, [rol |-> rol, global |-> global])
    /\ UNCHANGED <<usuarios, roles, sesiones, correos, tarde, sinAdmin>>

\* Even if it has chosen one by now.
recoverAbandonedInvitation(p) ==
    /\ Sigue(p, "recupera")
    /\ LET u == proceso[p].de
           v == proceso[p].leido
           c == [Reemitida(usuarios[u]) EXCEPT
                    !.rol = v.rol, !.global = v.global, !.activo = TRUE]
       IN  /\ RolAsignable(v.rol)
           /\ usuarios' = [usuarios EXCEPT ![u] = c]
           /\ sinAdmin' = (sinAdmin \/ Protege(u))
           /\ revokeSessions({u})
           /\ Invita(p, u, c)
    /\ UNCHANGED <<roles, correos, tarde, quedan>>

\* A request changes role, scope or branch; what it leaves out is what it read.
updateAccess(p, a, u, rol, global, sucursal) ==
    /\ Libre(p) /\ Gasta("cambios")
    /\ Autorizado(a) /\ Existe(u)
    /\ LET c == usuarios[u]
           r == IF rol = NoHay THEN c.rol ELSE rol
           g == IF global = NoHay THEN c.global /\ r = ADMINISTRADOR ELSE global
       IN  /\ r # c.rol \/ g # c.global \/ sucursal
           /\ a = u => r = c.rol /\ g = c.global
           /\ En(p, "acceso", u, [rol |-> r, global |-> g, activo |-> c.activo,
                                  configurada |-> c.configurada,
                                  otorga |-> usuarios[a].global])
    /\ UNCHANGED <<usuarios, roles, sesiones, correos, tarde, sinAdmin>>

GuardaAcceso(p) ==
    /\ Sigue(p, "acceso")
    /\ LET u == proceso[p].de
           v == proceso[p].leido
       IN  /\ assertLastGlobalAdministrator(u, v.rol, v.activo, v.configurada)
           /\ RolAsignable(v.rol)
           /\ assertGlobalAccessAssignment(v.otorga, v.global, v.rol)
           /\ usuarios' = [usuarios EXCEPT
                 ![u] = [@ EXCEPT !.rol = v.rol, !.global = v.global]]
           /\ revokeSessions({u})
    /\ Termina(p)
    /\ UNCHANGED <<roles, correos, tarde, sinAdmin, quedan>>

updateStatus(p, a, u, activo) ==
    /\ Libre(p) /\ Gasta("cambios")
    /\ Autorizado(a) /\ Existe(u)
    /\ usuarios[u].activo # activo
    /\ a = u => activo
    /\ En(p, "estado", u, [rol |-> usuarios[u].rol, activo |-> activo,
                           configurada |-> usuarios[u].configurada])
    /\ UNCHANGED <<usuarios, roles, sesiones, correos, tarde, sinAdmin>>

GuardaEstado(p) ==
    /\ Sigue(p, "estado")
    /\ LET u == proceso[p].de
           v == proceso[p].leido
       IN  /\ assertLastGlobalAdministrator(u, v.rol, v.activo, v.configurada)
           /\ usuarios' = [usuarios EXCEPT ![u].activo = v.activo]
           /\ revokeSessions({u})
    /\ Termina(p)
    /\ UNCHANGED <<roles, correos, tarde, sinAdmin, quedan>>

resetTemporaryPassword(p, a, u) ==
    /\ Libre(p) /\ Gasta("cambios")
    /\ Autorizado(a) /\ Existe(u)
    /\ En(p, "reinicio", u, [rol |-> usuarios[u].rol,
                             activo |-> usuarios[u].activo])
    /\ UNCHANGED <<usuarios, roles, sesiones, correos, tarde, sinAdmin>>

GuardaReinicio(p) ==
    /\ Sigue(p, "reinicio")
    /\ LET u == proceso[p].de
           v == proceso[p].leido
           c == Reemitida(usuarios[u])
       IN  /\ assertLastGlobalAdministrator(u, v.rol, v.activo, FALSE)
           /\ usuarios' = [usuarios EXCEPT ![u] = c]
           /\ revokeSessions({u})
           /\ Invita(p, u, c)
    /\ UNCHANGED <<roles, correos, tarde, sinAdmin, quedan>>

-------------------------------------------------------------------------------
(* Administration of roles *)

NuevoRol(permisos) == [activo |-> TRUE, permisos |-> permisos, version |-> 1]

createRole(a, r, permisos) ==
    /\ Gasta("roles")
    /\ Autorizado(a)
    /\ roles[r] = NoHay
    /\ roles' = [roles EXCEPT ![r] = NuevoRol(permisos)]
    /\ UNCHANGED <<usuarios, sesiones, proceso, correos, tarde, sinAdmin>>

clone(a, r, origen) ==
    roles[origen] # NoHay /\ createRole(a, r, roles[origen].permisos)

\* A system role is for administrators of every organization ...
assertRoleManageable(a, r) == r = ADMINISTRADOR => usuarios[a].global

\* ... and the administrators' own keeps what it takes to manage users and roles.
assertSystemRolePermissions(r, permisos) ==
    r = ADMINISTRADOR /\ permisos # NoHay => GESTION \in permisos

updateRole(p, a, r, permisos) ==
    /\ Libre(p) /\ Gasta("roles")
    /\ Autorizado(a) /\ roles[r] # NoHay
    /\ assertRoleManageable(a, r) /\ assertSystemRolePermissions(r, permisos)
    /\ LET nuevos == IF permisos = NoHay THEN roles[r].permisos ELSE permisos
       IN  En(p, "rol", r, [version |-> roles[r].version, permisos |-> nuevos,
                            cambian |-> nuevos # roles[r].permisos])
    /\ UNCHANGED <<usuarios, roles, sesiones, correos, tarde, sinAdmin>>

GuardaRol(p) ==
    /\ Sigue(p, "rol")
    /\ LET r == proceso[p].de
           v == proceso[p].leido
       IN  /\ roles[r].version = v.version
           /\ roles' = [roles EXCEPT ![r].permisos = v.permisos,
                                     ![r].version = @ + 1]
           /\ IF v.cambian THEN revokeSessions(De(r))
              ELSE UNCHANGED sesiones
    /\ Termina(p)
    /\ UNCHANGED <<usuarios, correos, tarde, sinAdmin, quedan>>

updateRoleStatus(p, a, r, activo) ==
    /\ Libre(p) /\ Gasta("roles")
    /\ Autorizado(a) /\ roles[r] # NoHay /\ r # ADMINISTRADOR
    /\ roles[r].activo # activo
    /\ ~ activo => De(r) = {}
    /\ En(p, "estadoRol", r, [version |-> roles[r].version, activo |-> activo])
    /\ UNCHANGED <<usuarios, roles, sesiones, correos, tarde, sinAdmin>>

\* The trigger looks for users again, under the lock of the role.
luma_proteger_identidad_rol(r, activo) == ~ activo => De(r) = {}

GuardaEstadoRol(p) ==
    /\ Sigue(p, "estadoRol")
    /\ LET r == proceso[p].de
           v == proceso[p].leido
       IN  /\ roles[r].version = v.version
           /\ luma_proteger_identidad_rol(r, v.activo)
           /\ roles' = [roles EXCEPT ![r].activo = v.activo,
                                     ![r].version = @ + 1]
    /\ Termina(p)
    /\ UNCHANGED <<usuarios, sesiones, correos, tarde, sinAdmin, quedan>>

-------------------------------------------------------------------------------
\* A request stops between two of its steps: an error, a restart.
Caida(p) ==
    /\ ~ Libre(p)
    /\ Termina(p)
    /\ UNCHANGED <<usuarios, roles, sesiones, correos, tarde, sinAdmin, quedan>>

Init ==
    \E e \in Escenarios :
        /\ usuarios = e.usuarios /\ roles = e.roles
        /\ sesiones = [s \in Sesiones |->
              IF s > Len(e.sesiones) THEN NoHay
              ELSE LET c == e.usuarios[e.sesiones[s]]
                   IN  [usuario |-> e.sesiones[s], revocada |-> FALSE,
                        acceso |-> [clave |-> c.clave, rol |-> c.rol,
                                    permisos |-> e.roles[c.rol].permisos],
                        ocio |-> 0, tardia |-> FALSE]]
        /\ proceso = [p \in Procesos |-> NoHay]
        /\ correos = {<<u, usuarios[u].clave>> :
                         u \in {w \in Usuarios : Existe(w) /\ ~ usuarios[w].configurada}}
        /\ tarde = {} /\ sinAdmin = FALSE
        /\ quedan = e.quedan

Next ==
    \/ \E p \in Procesos, u \in Usuarios : login(p, u)
    \/ \E p \in Procesos, s \in Sesiones : CreaSesion(p, s)
    \/ \E s \in Sesiones : validate(s)
    \/ \E s \in Sesiones : logout(s)
    \/ \E s \in Sesiones : Reposo(s)
    \/ \E u \in Usuarios : Vence(u)
    \/ \E p \in Procesos, s \in Sesiones : changePassword(p, s)
    \/ \E p \in Procesos : CambiaClave(p)
    \/ \E p \in Procesos, u \in Usuarios : changeTemporaryPassword(p, u)
    \/ \E p \in Procesos : MarcaVencida(p)
    \/ \E p \in Procesos : Configura(p)
    \/ \E p \in Procesos, u \in Usuarios : requestPasswordReset(p, u)
    \/ \E p \in Procesos : ReemitePublica(p)
    \/ \E p \in Procesos : RevocaPublica(p)
    \/ \E p \in Procesos : EnviaCorreo(p)
    \/ \E p \in Procesos : RegistraEnvio(p)
    \/ \E p \in Procesos, a, u \in Usuarios, r \in Roles, g \in BOOLEAN :
          create(p, a, u, r, g)
    \/ \E p \in Procesos, a, u \in Usuarios, r \in Roles, g \in BOOLEAN :
          Repite(p, a, u, r, g)
    \/ \E p \in Procesos : recoverAbandonedInvitation(p)
    \/ \E p \in Procesos, a, u \in Usuarios, r \in Roles \cup {NoHay},
          g \in BOOLEAN \cup {NoHay}, s \in BOOLEAN :
             updateAccess(p, a, u, r, g, s)
    \/ \E p \in Procesos : GuardaAcceso(p)
    \/ \E p \in Procesos, a, u \in Usuarios, b \in BOOLEAN :
          updateStatus(p, a, u, b)
    \/ \E p \in Procesos : GuardaEstado(p)
    \/ \E p \in Procesos, a, u \in Usuarios : resetTemporaryPassword(p, a, u)
    \/ \E p \in Procesos : GuardaReinicio(p)
    \/ \E a \in Usuarios, r, o \in Roles : clone(a, r, o)
    \/ \E a \in Usuarios, r \in Roles, c \in Conjuntos : createRole(a, r, c)
    \/ \E p \in Procesos, a \in Usuarios, r \in Roles,
          c \in Conjuntos \cup {NoHay} : updateRole(p, a, r, c)
    \/ \E p \in Procesos : GuardaRol(p)
    \/ \E p \in Procesos, a \in Usuarios, r \in Roles, b \in BOOLEAN :
          updateRoleStatus(p, a, r, b)
    \/ \E p \in Procesos : GuardaEstadoRol(p)
    \/ \E p \in Procesos : Caida(p)

Spec == Init /\ [][Next]_vars

-------------------------------------------------------------------------------
(* Properties *)

Pasos == {"login", "clave", "temporal", "vencida", "olvido", "revoca", "correo",
          "resultado", "recupera", "acceso", "estado", "reinicio", "rol",
          "estadoRol"}

UsuarioOK(c) ==
    /\ c \in Usuario /\ roles[c.rol] # NoHay
    /\ c.configurada <=> c.vence = NoHay

RolOK(r) == r \in Rol

SesionOK(s) == s \in Sesion /\ Existe(s.usuario)

\* Every row has the shape of its table; an account has an existing role, a
\* password its owner chose has no expiry and a temporary one has one.
TypeOK ==
    /\ DOMAIN usuarios = Usuarios
    /\ \A u \in Usuarios : Existe(u) => UsuarioOK(usuarios[u])
    /\ DOMAIN roles = Roles
    /\ \A r \in Roles : roles[r] # NoHay => RolOK(roles[r])
    /\ DOMAIN sesiones = Sesiones
    /\ \A s \in Sesiones : sesiones[s] # NoHay => SesionOK(sesiones[s])
    /\ DOMAIN proceso = Procesos
    /\ \A p \in Procesos : ~ Libre(p) => proceso[p].paso \in Pasos
    /\ tarde \subseteq Usuarios /\ sinAdmin \in BOOLEAN

\* No account is left with a role that was deactivated, however its assignment
\* interleaves with the deactivation (docs/api-user-role-management.md:195).
RolAsignadoActivo == \A r \in Roles : De(r) # {} => roles[r].activo

\* Whatever administrators do to each other at once, one of them stays active
\* with a password of their own (LAST_ACTIVE_ADMIN): unless one asked for a new
\* one without signing in, or was invited again just after the first access.
QuedaAdministrador == sinAdmin \/ \E u \in Usuarios : Protege(u)

\* The organization stays administrable.
Administrable == RolAsignadoActivo /\ QuedaAdministrador

\* A session that is accepted was opened with the password, the role and the
\* permissions its user has now: every change of them ended the earlier ones,
\* except for one whose login was in flight at that moment.
SesionDeSuClave ==
    \A s \in Sesiones : (Aceptada(s) /\ ~ sesiones[s].tardia) =>
        sesiones[s].acceso = Acceso(usuarios[sesiones[s].usuario])

\* The invitation says how the current password got there: ACCEPTED if and only
\* if its owner chose it, DELIVERED only if it was mailed, however mails, resets
\* and first accesses cross; unless an answer out of date wrote over it.
InvitacionAlDia ==
    \A u \in Usuarios \ tarde : Existe(u) =>
        /\ usuarios[u].configurada <=> usuarios[u].estado = "ACCEPTED"
        /\ usuarios[u].estado = "DELIVERED" => <<u, usuarios[u].clave>> \in correos
===============================================================================
