------------------------------ MODULE AccessProofs ------------------------------
(***************************************************************************)
(* Theorems about Access, for any number of accounts, roles, sessions and  *)
(* requests in flight.                                                     *)
(*                                                                         *)
(* A request writes what it read earlier, so the invariant says of each    *)
(* request in flight how what it read compares with the rows as they are:  *)
(* numbers of passwords and versions only grow, and while they are the     *)
(* same the rest that was read is what is written now.                     *)
(***************************************************************************)
EXTENDS Access, TLAPS

-------------------------------------------------------------------------------
(* The inductive invariant *)

\* A temporary password being mailed to u: the account still waits for it,
\* unless there is a later one or an answer out of date wrote over it.
EnEspera(u, version) ==
    \/ u \in tarde
    \/ usuarios[u].version > version
    \/ ~ usuarios[u].configurada

Espera(u, version, clave) ==
    EnEspera(u, version) /\ (usuarios[u].version = version /\ u \notin tarde
                                => usuarios[u].clave = clave)

\* What a request for an account read.
Leido(paso, v) ==
    /\ paso = "login" => v \in [clave : Nat \ {0}, rol : Roles, permisos : Conjuntos]
    /\ paso = "clave" => v \in Nat
    /\ paso \in {"revoca", "correo"} => v.version \in Nat /\ v.clave \in Nat
    /\ paso = "correo" => v.publico \in BOOLEAN
    /\ paso = "resultado" =>
          v.version \in Nat /\ v.publico \in BOOLEAN /\ v.responde \in BOOLEAN
    /\ paso \in {"recupera", "acceso"} => v.rol \in Roles /\ v.global \in BOOLEAN
    /\ paso = "estado" => v.activo \in BOOLEAN

\* The password that was checked is one the owner chose.
ClaveOK(u, v) ==
    /\ v <= usuarios[u].clave
    /\ v = usuarios[u].clave => usuarios[u].configurada

CorreoOK(u, v) == v.version <= usuarios[u].version /\ Espera(u, v.version, v.clave)

\* What was answered for was sent.
ResultadoOK(u, v) ==
    /\ v.version <= usuarios[u].version /\ EnEspera(u, v.version)
    /\ v.responde = TRUE /\ usuarios[u].version = v.version /\ u \notin tarde
          => <<u, usuarios[u].clave>> \in correos

\* A request for the account x.de, by what it does next.
CuentaOK(x) ==
    /\ x.de \in Usuarios /\ Existe(x.de)
    /\ Leido(x.paso, x.leido)
    /\ x.paso = "clave" => ClaveOK(x.de, x.leido)
    /\ x.paso \in {"revoca", "correo"} => CorreoOK(x.de, x.leido)
    /\ x.paso = "resultado" => ResultadoOK(x.de, x.leido)

\* The request x for a role.  The version of a role tells its permissions.
TrabajoOK(x) ==
    LET r == x.de
        v == x.leido
    IN  /\ r \in Roles /\ roles[r] # NoHay
        /\ v.version \in Nat /\ v.version <= roles[r].version
        /\ x.paso = "rol" =>
              /\ v.permisos \in Conjuntos
              /\ v.version = roles[r].version
                    => (v.cambian <=> v.permisos # roles[r].permisos)
        /\ x.paso = "estadoRol" => r # ADMINISTRADOR /\ v.activo \in BOOLEAN

ProcesoOK(x) ==
    /\ x.paso \in Pasos
    /\ IF x.paso \in {"rol", "estadoRol"} THEN TrabajoOK(x) ELSE CuentaOK(x)

EnVuelo == {proceso[p] : p \in Procesos} \ {NoHay}

ProcesosOK == \A x \in EnVuelo : ProcesoOK(x)

\* A session that was not ended was opened with what its user has now, if the
\* user can sign in, be it idle or not.
SesionAlDia(s) ==
    (~ s.revocada /\ ~ s.tardia /\ canSignIn(usuarios[s.usuario]))
       => s.acceso = Acceso(usuarios[s.usuario])

Abiertas == {sesiones[s] : s \in Sesiones} \ {NoHay}

SesionesAlDia == \A s \in Abiertas : SesionAlDia(s)

IInv ==
    /\ TypeOK /\ ProcesosOK /\ RolAsignadoActivo /\ QuedaAdministrador
    /\ SesionesAlDia /\ InvitacionAlDia

-------------------------------------------------------------------------------
(* What the steps have in common *)

TablasOK ==
    /\ DOMAIN usuarios = Usuarios
    /\ \A u \in Usuarios : Existe(u) => UsuarioOK(usuarios[u])
    /\ DOMAIN roles = Roles
    /\ \A r \in Roles : roles[r] # NoHay => RolOK(roles[r])
    /\ DOMAIN sesiones = Sesiones
    /\ \A s \in Sesiones : sesiones[s] # NoHay => SesionOK(sesiones[s])
    /\ tarde \subseteq Usuarios /\ sinAdmin \in BOOLEAN

\* A step may change an account so: the password is the same, or there is a
\* later one that the requests in flight can tell.
Avanza(u, c) ==
    /\ c.version >= usuarios[u].version
    /\ \/ c.clave = usuarios[u].clave /\ c.configurada = usuarios[u].configurada
       \/ /\ c.clave > usuarios[u].clave
          /\ \/ usuarios[u].configurada
             \/ c.version > usuarios[u].version
             \/ u \in tarde'

\* A role, so: its version grows with every change.
AvanzaRol(r, f) ==
    \/ f.version > roles[r].version
    \/ f.version = roles[r].version /\ f.permisos = roles[r].permisos

\* The numbers and flags of an account.
LEMMA Numeros ==
    ASSUME NEW c \in Usuario
    PROVE  /\ c.clave \in Nat /\ c.version \in Nat /\ c.configurada \in BOOLEAN
           /\ c.activo \in BOOLEAN /\ c.rol \in Roles
BY DEF Usuario

\* An account has an active role.
LEMMA RolActivo ==
    ASSUME IInv, NEW u \in Usuarios, Existe(u)
    PROVE  /\ usuarios[u] \in Usuario /\ usuarios[u].rol \in Roles
           /\ roles[usuarios[u].rol] # NoHay /\ roles[usuarios[u].rol].activo
           /\ usuarios[u].configurada <=> usuarios[u].vence = NoHay
<1>1. UsuarioOK(usuarios[u])
  BY DEF IInv, TypeOK
<1>2. usuarios[u] \in Usuario /\ usuarios[u].rol \in Roles
  BY <1>1, Numeros DEF UsuarioOK
<1>3. u \in De(usuarios[u].rol)
  BY DEF De
<1>4. QED
  BY <1>1, <1>2, <1>3 DEF UsuarioOK, IInv, RolAsignadoActivo

\* What a request in flight read goes on comparing with the rows.
LEMMA ProcesoSigue ==
    ASSUME TypeOK, TablasOK', NEW x, ProcesoOK(x),
           \A u \in Usuarios : Existe(u) => Existe(u)' /\ Avanza(u, usuarios'[u]),
           \A r \in Roles : roles[r] # NoHay => roles'[r] # NoHay /\ AvanzaRol(r, roles'[r]),
           tarde \subseteq tarde', correos \subseteq correos'
    PROVE  ProcesoOK(x)'
<1>1. CASE x.paso \in {"rol", "estadoRol"}
  <2>1. TrabajoOK(x)
    BY <1>1 DEF ProcesoOK
  <2> DEFINE r == x.de
             v == x.leido
  <2>2. r \in Roles /\ roles[r] # NoHay /\ roles'[r] # NoHay /\ AvanzaRol(r, roles'[r])
    BY <2>1 DEF TrabajoOK
  <2>3. roles[r].version \in Nat /\ roles'[r].version \in Nat
    BY <2>2 DEF TypeOK, TablasOK, RolOK, Rol
  <2>4. v.version \in Nat /\ v.version <= roles[r].version
    BY <2>1 DEF TrabajoOK
  <2>5. TrabajoOK(x)'
    BY <2>1, <2>2, <2>3, <2>4 DEF TrabajoOK, AvanzaRol
  <2>6. QED
    BY <1>1, <2>5 DEF ProcesoOK
<1>2. CASE x.paso \notin {"rol", "estadoRol"}
  <2>1. CuentaOK(x) /\ x.paso \in Pasos
    BY <1>2 DEF ProcesoOK
  <2> DEFINE u == x.de
             v == x.leido
             a == usuarios[u]
             b == usuarios'[u]
  <2>2. u \in Usuarios /\ Existe(u) /\ Existe(u)' /\ Avanza(u, b)
    BY <2>1 DEF CuentaOK
  <2>3. a \in Usuario /\ b \in Usuario
    BY <2>2 DEF TypeOK, TablasOK, UsuarioOK
  <2>4. /\ a.version \in Nat /\ b.version \in Nat /\ a.clave \in Nat /\ b.clave \in Nat
        /\ a.configurada \in BOOLEAN /\ b.configurada \in BOOLEAN
    BY <2>3, Numeros
  <2>5. b.version >= a.version /\ (b.clave = a.clave \/ b.clave > a.clave)
    BY <2>2 DEF Avanza
  <2>6. ASSUME NEW n \in Nat, n <= a.version, EnEspera(u, n)
        PROVE  /\ EnEspera(u, n)' /\ n <= b.version
               /\ b.version = n /\ u \notin tarde' => a.version = n /\ u \notin tarde /\ b.clave = a.clave
    BY <2>2, <2>4, <2>6 DEF Avanza, EnEspera
  <2>7. x.paso = "clave" => ClaveOK(u, v)'
    <3>1. SUFFICES ASSUME x.paso = "clave" PROVE ClaveOK(u, v)'
      OBVIOUS
    <3>2. v \in Nat /\ v <= a.clave /\ (v = a.clave => a.configurada)
      BY <2>1, <3>1 DEF CuentaOK, Leido, ClaveOK
    <3>3. QED
      BY <2>2, <2>4, <3>2 DEF Avanza, ClaveOK
  <2>8. x.paso \in {"revoca", "correo"} => CorreoOK(u, v)'
    <3>1. SUFFICES ASSUME x.paso \in {"revoca", "correo"} PROVE CorreoOK(u, v)'
      OBVIOUS
    <3>2. v.version \in Nat /\ v.version <= a.version /\ Espera(u, v.version, v.clave)
      BY <2>1, <3>1 DEF CuentaOK, Leido, CorreoOK
    <3>3. QED
      BY <2>6, <3>2 DEF Espera, CorreoOK
  <2>9. x.paso = "resultado" => ResultadoOK(u, v)'
    <3>1. SUFFICES ASSUME x.paso = "resultado" PROVE ResultadoOK(u, v)'
      OBVIOUS
    <3>2. /\ v.version \in Nat /\ v.version <= a.version /\ EnEspera(u, v.version)
          /\ v.responde = TRUE /\ a.version = v.version /\ u \notin tarde
                => <<u, a.clave>> \in correos
      BY <2>1, <3>1 DEF CuentaOK, Leido, ResultadoOK
    <3>3. QED
      BY <2>6, <3>2 DEF ResultadoOK
  <2>11. CuentaOK(x)'
    BY <2>1, <2>2, <2>7, <2>8, <2>9 DEF CuentaOK
  <2>12. QED
    BY <1>2, <2>1, <2>11 DEF ProcesoOK
<1>3. QED
  BY <1>1, <1>2

\* The request p goes on as x, or ends; the others as they were.
LEMMA ProcesosSiguen ==
    ASSUME TypeOK, ProcesosOK, TablasOK',
           \A u \in Usuarios : Existe(u) => Existe(u)' /\ Avanza(u, usuarios'[u]),
           \A r \in Roles : roles[r] # NoHay => roles'[r] # NoHay /\ AvanzaRol(r, roles'[r]),
           tarde \subseteq tarde', correos \subseteq correos',
           NEW p, NEW x, x = NoHay \/ ProcesoOK(x)',
           proceso' = [proceso EXCEPT ![p] = x] \/ proceso' = proceso
    PROVE  TypeOK' /\ ProcesosOK'
<1>1. DOMAIN proceso = Procesos /\ DOMAIN proceso' = Procesos
  BY DEF TypeOK
<1>2. EnVuelo' \subseteq EnVuelo \cup ({x} \ {NoHay})
  BY <1>1 DEF EnVuelo
<1>3. ASSUME NEW y \in EnVuelo' PROVE ProcesoOK(y)'
  <2>1. CASE y \in EnVuelo
    BY <2>1, ProcesoSigue DEF ProcesosOK
  <2>2. CASE y = x /\ y # NoHay
    BY <2>2
  <2>3. QED
    BY <1>2, <2>1, <2>2
<1>4. ProcesosOK'
  BY <1>3 DEF ProcesosOK
<1>5. \A q \in Procesos : ~ Libre(q)' => proceso'[q].paso \in Pasos
  <2>1. \A y : ProcesoOK(y)' => y.paso \in Pasos
    BY DEF ProcesoOK
  <2>2. \A q \in Procesos : proceso'[q] # NoHay => proceso'[q] \in EnVuelo'
    BY DEF EnVuelo
  <2>3. QED
    BY <1>3, <2>1, <2>2 DEF Libre
<1>6. TypeOK'
  BY <1>1, <1>5 DEF TypeOK, TablasOK
<1>7. QED
  BY <1>4, <1>6


\* The sessions the step may leave: those that were, ended or not.
SesionesSiguen(us) ==
    \A s \in Sesiones : sesiones[s] # NoHay =>
        /\ sesiones'[s] \in Sesion
        /\ sesiones'[s].usuario = sesiones[s].usuario
        /\ sesiones'[s].acceso = sesiones[s].acceso
        /\ sesiones'[s].tardia = sesiones[s].tardia
        /\ sesiones'[s].revocada = (sesiones[s].revocada \/ sesiones[s].usuario \in us)

\* Ending the sessions of some accounts.
LEMMA RevocarSesiones ==
    ASSUME TypeOK, NEW us, revokeSessions(us)
    PROVE  /\ DOMAIN sesiones' = Sesiones
           /\ \A s \in Sesiones : sesiones[s] = NoHay => sesiones'[s] = NoHay
           /\ SesionesSiguen(us)
<1>1. sesiones' = [s \in Sesiones |->
                    IF sesiones[s] # NoHay /\ sesiones[s].usuario \in us
                    THEN [sesiones[s] EXCEPT !.revocada = TRUE] ELSE sesiones[s]]
  BY DEF revokeSessions, SesionesDe
<1>2. ASSUME NEW s \in Sesiones, sesiones[s] # NoHay
      PROVE  /\ sesiones'[s] \in Sesion
             /\ sesiones'[s].usuario = sesiones[s].usuario
             /\ sesiones'[s].acceso = sesiones[s].acceso
             /\ sesiones'[s].tardia = sesiones[s].tardia
             /\ sesiones'[s].revocada = (sesiones[s].revocada \/ sesiones[s].usuario \in us)
  <2>1. sesiones[s] \in Sesion
    BY <1>2 DEF TypeOK, SesionOK
  <2>2. PICK a \in Sesion : a = sesiones[s]
    BY <2>1
  <2>3. PICK b : b = sesiones'[s]
    OBVIOUS
  <2>4. b = IF a.usuario \in us THEN [a EXCEPT !.revocada = TRUE] ELSE a
    BY <1>1, <1>2, <2>2, <2>3
  <2>5. /\ b \in Sesion /\ b.usuario = a.usuario /\ b.acceso = a.acceso
        /\ b.tardia = a.tardia /\ b.revocada = (a.revocada \/ a.usuario \in us)
    <3>1. CASE a.usuario \in us
      BY <2>4, <3>1 DEF Sesion
    <3>2. CASE a.usuario \notin us
      BY <2>4, <3>2 DEF Sesion
    <3>3. QED
      BY <3>1, <3>2
  <2>6. QED
    BY <2>2, <2>3, <2>5
<1>3. QED
  BY <1>1, <1>2 DEF SesionesSiguen


-------------------------------------------------------------------------------
(* The kinds of steps *)

\* A step that writes the row of one account, for a request that goes on as x.
LEMMA EscribeUsuario ==
    ASSUME IInv, NEW p, NEW x, x = NoHay \/ ProcesoOK(x)',
           proceso' = [proceso EXCEPT ![p] = x] \/ proceso' = proceso,
           NEW u \in Usuarios, NEW c \in Usuario,
           usuarios' = [usuarios EXCEPT ![u] = c], roles' = roles,
           roles[c.rol] # NoHay, roles[c.rol].activo,
           c.configurada <=> c.vence = NoHay,
           Existe(u) => Avanza(u, c),
           tarde \subseteq tarde', tarde' \subseteq tarde \cup {u}, correos \subseteq correos',
           sinAdmin' \in BOOLEAN, sinAdmin => sinAdmin',
           Protege(u) => \/ sinAdmin'
                         \/ c.rol = ADMINISTRADOR /\ c.activo /\ c.configurada
                         \/ \E w \in Usuarios \ {u} : Protege(w),
           \/ revokeSessions({u})
           \/ sesiones' = sesiones /\ (Existe(u) /\ canSignIn(c) =>
                  canSignIn(usuarios[u]) /\ Acceso(c) = Acceso(usuarios[u])),
           \/ u \in tarde'
           \/ /\ c.configurada <=> c.estado = "ACCEPTED"
              /\ c.estado = "DELIVERED" => <<u, c.clave>> \in correos'
    PROVE  IInv'
<1>1. /\ TypeOK /\ ProcesosOK /\ RolAsignadoActivo /\ QuedaAdministrador
      /\ SesionesAlDia /\ InvitacionAlDia
  BY DEF IInv
<1>2. /\ DOMAIN usuarios' = Usuarios /\ usuarios'[u] = c /\ c # NoHay
      /\ \A w \in Usuarios \ {u} : usuarios'[w] = usuarios[w]
  BY <1>1, NoHayAparte DEF TypeOK
<1> DEFINE Igual == sesiones' = sesiones /\ (Existe(u) /\ canSignIn(c) =>
                        canSignIn(usuarios[u]) /\ Acceso(c) = Acceso(usuarios[u]))
<1>3. /\ DOMAIN sesiones' = Sesiones
      /\ \A s \in Sesiones : sesiones[s] = NoHay => sesiones'[s] = NoHay
      /\ \E us : us \subseteq {u} /\ SesionesSiguen(us) /\ (u \in us \/ Igual)
  <2>1. CASE revokeSessions({u})
    BY <1>1, <2>1, RevocarSesiones
  <2>2. CASE Igual
    <3>1. SesionesSiguen({})
      BY <1>1, <2>2 DEF SesionesSiguen, TypeOK, SesionOK, Sesion
    <3>2. QED
      BY <1>1, <2>2, <3>1 DEF TypeOK
  <2>3. QED
    BY <2>1, <2>2
<1>4. PICK us : us \subseteq {u} /\ SesionesSiguen(us) /\ (u \in us \/ Igual)
  BY <1>3
<1>5. TablasOK'
  <2>1. \A w \in Usuarios : Existe(w)' => UsuarioOK(usuarios[w])'
    BY <1>1, <1>2 DEF TypeOK, UsuarioOK, Existe
  <2>2. \A s \in Sesiones : sesiones'[s] # NoHay => SesionOK(sesiones[s])'
    BY <1>1, <1>2, <1>3, <1>4 DEF SesionesSiguen, TypeOK, SesionOK, Existe
  <2>3. QED
    BY <1>1, <1>2, <1>3, <2>1, <2>2 DEF TypeOK, TablasOK, RolOK
<1>6. TypeOK' /\ ProcesosOK'
  <2>1. \A w \in Usuarios : Existe(w) => Existe(w)' /\ Avanza(w, usuarios'[w])
    <3>1. ASSUME NEW w \in Usuarios, Existe(w) PROVE Existe(w)' /\ Avanza(w, usuarios'[w])
      <4>1. CASE w = u
        BY <1>2, <3>1, <4>1 DEF Existe
      <4>2. CASE w # u
        <5>1. usuarios[w].version \in Nat
          BY <3>1, RolActivo, Numeros
        <5>2. usuarios'[w] = usuarios[w]
          BY <1>2, <4>2
        <5>3. QED
          BY <3>1, <5>1, <5>2 DEF Existe, Avanza
      <4>3. QED
        BY <4>1, <4>2
    <3>2. QED
      BY <3>1
  <2>2. \A r \in Roles : roles[r] # NoHay => roles'[r] # NoHay /\ AvanzaRol(r, roles'[r])
    BY DEF AvanzaRol
  <2>3. QED
    BY <1>1, <1>5, <2>1, <2>2, ProcesosSiguen
<1>7. RolAsignadoActivo'
  <2>1. ASSUME NEW w \in Usuarios, usuarios'[w] # NoHay PROVE roles[usuarios'[w].rol].activo
    BY <1>2, <2>1, RolActivo DEF Existe
  <2>2. QED
    BY <2>1 DEF RolAsignadoActivo, De, Existe
<1>8. QuedaAdministrador'
  <2>1. CASE sinAdmin'
    BY <2>1 DEF QuedaAdministrador
  <2>2. CASE Protege(u) /\ c.rol = ADMINISTRADOR /\ c.activo /\ c.configurada
    <3>1. Protege(u)'
      BY <1>2, <2>2 DEF Protege, Existe, canCompleteFirstAccess
    <3>2. QED
      BY <3>1 DEF QuedaAdministrador
  <2>3. ASSUME NEW w \in Usuarios \ {u}, Protege(w) PROVE QuedaAdministrador'
    <3>1. Protege(w)'
      BY <1>2, <2>3 DEF Protege, Existe, canCompleteFirstAccess
    <3>2. QED
      BY <3>1 DEF QuedaAdministrador
  <2>4. QED
    BY <1>1, <2>1, <2>2, <2>3 DEF QuedaAdministrador
<1>9. SesionesAlDia'
  <2>1. SUFFICES ASSUME NEW y \in Abiertas' PROVE SesionAlDia(y)'
    BY DEF SesionesAlDia
  <2>2. PICK s \in Sesiones : y = sesiones'[s] /\ y # NoHay
    BY DEF Abiertas
  <2>3. PICK z : z = sesiones[s] /\ z # NoHay
    BY <1>3, <2>2
  <2>4. /\ z \in Abiertas /\ z \in Sesion /\ Existe(z.usuario) /\ z.usuario \in Usuarios
        /\ y.usuario = z.usuario /\ y.acceso = z.acceso /\ y.tardia = z.tardia
        /\ y.revocada = (z.revocada \/ z.usuario \in us)
        /\ z.revocada \in BOOLEAN
    BY <1>1, <1>4, <2>2, <2>3 DEF Abiertas, SesionesSiguen, TypeOK, SesionOK, Sesion
  <2>5. SesionAlDia(z)
    BY <1>1, <2>4 DEF SesionesAlDia
  <2>6. CASE z.usuario # u
    <3>1. usuarios'[z.usuario] = usuarios[z.usuario]
      BY <1>2, <2>4, <2>6
    <3>2. QED
      BY <1>4, <2>4, <2>5, <2>6, <3>1
         DEF SesionAlDia, canSignIn, canCompleteFirstAccess, Acceso
  <2>7. CASE z.usuario = u /\ u \in us
    BY <2>4, <2>7 DEF SesionAlDia
  <2>8. CASE z.usuario = u /\ u \notin us
    <3>1. canSignIn(c) => canSignIn(usuarios[u]) /\ Acceso(c) = Acceso(usuarios[u])
      BY <1>4, <2>4, <2>8
    <3>2. QED
      BY <1>2, <2>4, <2>5, <2>8, <3>1
         DEF SesionAlDia, canSignIn, canCompleteFirstAccess, Acceso
  <2>9. QED
    BY <2>6, <2>7, <2>8
<1>10. InvitacionAlDia'
  <2>1. ASSUME NEW w \in Usuarios \ tarde', usuarios'[w] # NoHay
        PROVE  /\ usuarios'[w].configurada <=> usuarios'[w].estado = "ACCEPTED"
               /\ usuarios'[w].estado = "DELIVERED" => <<w, usuarios'[w].clave>> \in correos'
    BY <1>1, <1>2, <2>1 DEF InvitacionAlDia, Existe
  <2>2. QED
    BY <2>1 DEF InvitacionAlDia, Existe
<1>11. QED
  BY <1>6, <1>7, <1>8, <1>9, <1>10 DEF IInv

\* A step that writes no account and no role: sessions, mails, requests.
LEMMA SinCuentas ==
    ASSUME IInv, NEW p, NEW x, x = NoHay \/ ProcesoOK(x)',
           proceso' = [proceso EXCEPT ![p] = x] \/ proceso' = proceso,
           usuarios' = usuarios, roles' = roles, tarde' = tarde,
           sinAdmin' = sinAdmin, correos \subseteq correos',
           DOMAIN sesiones' = Sesiones,
           \A y \in Abiertas' \ Abiertas : SesionOK(y) /\ SesionAlDia(y)
    PROVE  IInv'
<1>1. /\ TypeOK /\ ProcesosOK /\ RolAsignadoActivo /\ QuedaAdministrador
      /\ SesionesAlDia /\ InvitacionAlDia
  BY DEF IInv
<1>2. \A y \in Abiertas' : SesionOK(y) /\ SesionAlDia(y)
  <2>1. \A y \in Abiertas : SesionOK(y) /\ SesionAlDia(y)
    BY <1>1 DEF TypeOK, SesionesAlDia, Abiertas
  <2>2. QED
    BY <2>1
<1>3. TablasOK'
  <2>1. \A s \in Sesiones : sesiones'[s] # NoHay => SesionOK(sesiones'[s])
    BY <1>2 DEF Abiertas
  <2>2. \A s \in Sesiones : sesiones'[s] # NoHay => SesionOK(sesiones[s])'
    BY <2>1 DEF SesionOK, Existe
  <2>3. \A w \in Usuarios : Existe(w)' => UsuarioOK(usuarios[w])'
    BY <1>1 DEF TypeOK, UsuarioOK, Existe
  <2>4. \A r \in Roles : roles'[r] # NoHay => RolOK(roles[r])'
    BY <1>1 DEF TypeOK, RolOK
  <2>5. QED
    BY <1>1, <2>2, <2>3, <2>4 DEF TypeOK, TablasOK
<1>4. TypeOK' /\ ProcesosOK'
  <2>1. \A w \in Usuarios : Existe(w) => Existe(w)' /\ Avanza(w, usuarios'[w])
    <3>1. ASSUME NEW w \in Usuarios, Existe(w) PROVE Avanza(w, usuarios'[w])
      <4>1. usuarios[w].version \in Nat
        BY <3>1, RolActivo, Numeros
      <4>2. QED
        BY <4>1 DEF Avanza
    <3>2. QED
      BY <3>1 DEF Existe
  <2>2. \A r \in Roles : roles[r] # NoHay => roles'[r] # NoHay /\ AvanzaRol(r, roles'[r])
    BY DEF AvanzaRol
  <2>3. QED
    BY <1>1, <1>3, <2>1, <2>2, ProcesosSiguen
<1>5. RolAsignadoActivo' /\ QuedaAdministrador'
  BY <1>1 DEF RolAsignadoActivo, QuedaAdministrador, De, Protege, Existe,
              canCompleteFirstAccess
<1>6. SesionesAlDia'
  BY <1>2 DEF SesionesAlDia, SesionAlDia, Acceso, canSignIn, canCompleteFirstAccess
<1>7. InvitacionAlDia'
  BY <1>1 DEF InvitacionAlDia, Existe
<1>8. QED
  BY <1>4, <1>5, <1>6, <1>7 DEF IInv

\* A step that writes the row of one role.
LEMMA EscribeRol ==
    ASSUME IInv, NEW p,
           proceso' = [proceso EXCEPT ![p] = NoHay] \/ proceso' = proceso,
           NEW r \in Roles, NEW f \in Rol, roles' = [roles EXCEPT ![r] = f],
           roles[r] # NoHay => AvanzaRol(r, f),
           De(r) # {} => f.activo,
           usuarios' = usuarios, tarde' = tarde, sinAdmin' = sinAdmin,
           correos' = correos,
           \/ revokeSessions(De(r))
           \/ sesiones' = sesiones /\ (De(r) # {} => f.permisos = roles[r].permisos)
    PROVE  IInv'
<1>1. /\ TypeOK /\ ProcesosOK /\ RolAsignadoActivo /\ QuedaAdministrador
      /\ SesionesAlDia /\ InvitacionAlDia
  BY DEF IInv
<1>2. /\ DOMAIN roles' = Roles /\ roles'[r] = f /\ f # NoHay
      /\ \A o \in Roles \ {r} : roles'[o] = roles[o]
  BY <1>1, NoHayAparte DEF TypeOK
<1> DEFINE Igual == sesiones' = sesiones /\ (De(r) # {} => f.permisos = roles[r].permisos)
<1>3. /\ DOMAIN sesiones' = Sesiones
      /\ \A s \in Sesiones : sesiones[s] = NoHay => sesiones'[s] = NoHay
      /\ \E us : us \subseteq De(r) /\ SesionesSiguen(us) /\ (us = De(r) \/ Igual)
  <2>1. CASE revokeSessions(De(r))
    BY <1>1, <2>1, RevocarSesiones
  <2>2. CASE Igual
    <3>1. SesionesSiguen({})
      BY <1>1, <2>2 DEF SesionesSiguen, TypeOK, SesionOK, Sesion
    <3>2. QED
      BY <1>1, <2>2, <3>1 DEF TypeOK
  <2>3. QED
    BY <2>1, <2>2
<1>4. PICK us : us \subseteq De(r) /\ SesionesSiguen(us) /\ (us = De(r) \/ Igual)
  BY <1>3
<1>5. TablasOK'
  <2>1. \A w \in Usuarios : Existe(w)' => UsuarioOK(usuarios[w])'
    <3>1. ASSUME NEW w \in Usuarios, Existe(w) PROVE UsuarioOK(usuarios[w])'
      <4>1. /\ usuarios[w] \in Usuario /\ usuarios[w].rol \in Roles
            /\ roles[usuarios[w].rol] # NoHay
            /\ usuarios[w].configurada <=> usuarios[w].vence = NoHay
        BY <3>1, RolActivo
      <4>2. roles'[usuarios[w].rol] # NoHay
        BY <1>2, <4>1
      <4>3. QED
        BY <4>1, <4>2 DEF UsuarioOK
    <3>2. QED
      BY <3>1 DEF Existe
  <2>2. \A s \in Sesiones : sesiones'[s] # NoHay => SesionOK(sesiones[s])'
    BY <1>1, <1>3, <1>4 DEF SesionesSiguen, TypeOK, SesionOK, Existe
  <2>3. \A o \in Roles : roles'[o] # NoHay => RolOK(roles[o])'
    BY <1>1, <1>2 DEF TypeOK, RolOK
  <2>4. QED
    BY <1>1, <1>2, <1>3, <2>1, <2>2, <2>3 DEF TypeOK, TablasOK
<1>6. TypeOK' /\ ProcesosOK'
  <2>1. \A w \in Usuarios : Existe(w) => Existe(w)' /\ Avanza(w, usuarios'[w])
    <3>1. ASSUME NEW w \in Usuarios, Existe(w) PROVE Avanza(w, usuarios'[w])
      <4>1. usuarios[w].version \in Nat
        BY <3>1, RolActivo, Numeros
      <4>2. QED
        BY <4>1 DEF Avanza
    <3>2. QED
      BY <3>1 DEF Existe
  <2>2. \A o \in Roles : roles[o] # NoHay => roles'[o] # NoHay /\ AvanzaRol(o, roles'[o])
    BY <1>2 DEF AvanzaRol
  <2>3. QED
    BY <1>1, <1>5, <2>1, <2>2, ProcesosSiguen
<1>7. RolAsignadoActivo'
  <2>1. ASSUME NEW o \in Roles, De(o) # {} PROVE roles'[o].activo
    BY <1>1, <1>2, <2>1 DEF RolAsignadoActivo
  <2>2. QED
    BY <2>1 DEF RolAsignadoActivo, De, Existe
<1>8. QuedaAdministrador'
  <2>1. CASE sinAdmin
    BY <2>1 DEF QuedaAdministrador
  <2>2. ASSUME NEW w \in Usuarios, Protege(w) PROVE QuedaAdministrador'
    <3>1. usuarios[w].rol \in Roles /\ w \in De(usuarios[w].rol)
      BY <2>2, RolActivo DEF Protege, De
    <3>2. roles'[usuarios[w].rol].activo
      BY <1>2, <2>2, <3>1 DEF Protege, canCompleteFirstAccess
    <3>3. Protege(w)'
      BY <2>2, <3>2 DEF Protege, Existe, canCompleteFirstAccess
    <3>4. QED
      BY <3>3 DEF QuedaAdministrador
  <2>3. QED
    BY <1>1, <2>1, <2>2 DEF QuedaAdministrador
<1>9. SesionesAlDia'
  <2>1. SUFFICES ASSUME NEW y \in Abiertas' PROVE SesionAlDia(y)'
    BY DEF SesionesAlDia
  <2>2. PICK s \in Sesiones : y = sesiones'[s] /\ y # NoHay
    BY DEF Abiertas
  <2>3. PICK z : z = sesiones[s] /\ z # NoHay
    BY <1>3, <2>2
  <2>4. /\ z \in Abiertas /\ z \in Sesion /\ Existe(z.usuario) /\ z.usuario \in Usuarios
        /\ y.usuario = z.usuario /\ y.acceso = z.acceso /\ y.tardia = z.tardia
        /\ y.revocada = (z.revocada \/ z.usuario \in us)
        /\ z.revocada \in BOOLEAN
    BY <1>1, <1>4, <2>2, <2>3 DEF Abiertas, SesionesSiguen, TypeOK, SesionOK, Sesion
  <2>5. SesionAlDia(z)
    BY <1>1, <2>4 DEF SesionesAlDia
  <2>6. CASE z.usuario \in us
    BY <2>4, <2>6 DEF SesionAlDia
  <2>7. CASE z.usuario \notin us
    <3> DEFINE o == usuarios[z.usuario].rol
    <3>1. o \in Roles /\ roles[o].activo /\ z.usuario \in De(o)
      BY <2>4, RolActivo DEF De
    <3>2. o = r => f.permisos = roles[r].permisos /\ f.activo
      BY <1>4, <2>7, <3>1
    <3>3. roles'[o].permisos = roles[o].permisos /\ roles'[o].activo
      BY <1>2, <3>1, <3>2
    <3> HIDE DEF o
    <3>4. QED
      BY <2>4, <2>5, <3>1, <3>3
         DEF SesionAlDia, canSignIn, canCompleteFirstAccess, Acceso, o
  <2>8. QED
    BY <2>6, <2>7
<1>10. InvitacionAlDia'
  BY <1>1 DEF InvitacionAlDia, Existe
<1>11. QED
  BY <1>6, <1>7, <1>8, <1>9, <1>10 DEF IInv


\* A request that only reads, and goes on as x; or that ends.
LEMMA Pide ==
    ASSUME IInv, NEW p, NEW x, x = NoHay \/ ProcesoOK(x),
           proceso' = [proceso EXCEPT ![p] = x],
           UNCHANGED <<usuarios, roles, sesiones, correos, tarde, sinAdmin>>
    PROVE  IInv'
<1>1. x = NoHay \/ ProcesoOK(x)'
  BY DEF ProcesoOK, CuentaOK, TrabajoOK, ClaveOK, CorreoOK, ResultadoOK, Espera,
         EnEspera, Existe
<1>2. DOMAIN sesiones' = Sesiones /\ Abiertas' = Abiertas
  BY DEF IInv, TypeOK, Abiertas
<1>3. QED
  BY <1>1, <1>2, SinCuentas

\* One session changes, and is not opened again.
LEMMA SesionCambia ==
    ASSUME IInv, NEW s \in Sesiones, sesiones[s] # NoHay, NEW y \in Sesion,
           sesiones' = [sesiones EXCEPT ![s] = y],
           y.usuario = sesiones[s].usuario, y.acceso = sesiones[s].acceso,
           y.tardia = sesiones[s].tardia, sesiones[s].revocada => y.revocada,
           UNCHANGED <<usuarios, roles, proceso, correos, tarde, sinAdmin>>
    PROVE  IInv'
<1>1. DOMAIN sesiones = Sesiones /\ DOMAIN sesiones' = Sesiones
  BY DEF IInv, TypeOK
<1>2. Abiertas' \subseteq Abiertas \cup {y}
  BY <1>1 DEF Abiertas
<1>3. PICK z : z = sesiones[s]
  OBVIOUS
<1>4. SesionOK(z) /\ SesionAlDia(z)
  BY <1>3 DEF IInv, TypeOK, SesionesAlDia, Abiertas
<1>5. SesionOK(y) /\ SesionAlDia(y)
  BY <1>3, <1>4 DEF SesionOK, SesionAlDia
<1>6. proceso' = proceso /\ NoHay = NoHay
  OBVIOUS
<1>7. \A w \in Abiertas' \ Abiertas : SesionOK(w) /\ SesionAlDia(w)
  BY <1>2, <1>5
<1>8. QED
  BY <1>1, <1>6, <1>7, SinCuentas

-------------------------------------------------------------------------------
(* Sessions *)

\* The request that goes on is one of those in flight.
LEMMA Atendida ==
    ASSUME IInv, NEW p \in Procesos, NEW paso, Sigue(p, paso)
    PROVE  ProcesoOK(proceso[p]) /\ proceso[p].paso = paso
BY DEF IInv, ProcesosOK, EnVuelo, Sigue, Libre

\* ... and one for an account is for one that exists, with an active role.
LEMMA AtendidaCuenta ==
    ASSUME IInv, NEW p \in Procesos, NEW paso, Sigue(p, paso),
           paso \notin {"rol", "estadoRol"}
    PROVE  /\ CuentaOK(proceso[p]) /\ proceso[p].paso = paso
           /\ proceso[p].de \in Usuarios /\ Existe(proceso[p].de)
           /\ usuarios[proceso[p].de] \in Usuario
           /\ roles[usuarios[proceso[p].de].rol] # NoHay
           /\ roles[usuarios[proceso[p].de].rol].activo
           /\ usuarios[proceso[p].de].configurada
                 <=> usuarios[proceso[p].de].vence = NoHay
<1>1. CuentaOK(proceso[p]) /\ proceso[p].paso = paso
  BY Atendida DEF ProcesoOK
<1>2. proceso[p].de \in Usuarios /\ Existe(proceso[p].de)
  BY <1>1 DEF CuentaOK
<1>3. QED
  BY <1>1, <1>2, RolActivo

\* What a session is opened with has its type.
LEMMA AccesoOK ==
    ASSUME IInv, NEW u \in Usuarios, Existe(u)
    PROVE  Acceso(usuarios[u]) \in [clave : Nat \ {0}, rol : Roles, permisos : Conjuntos]
<1>1. /\ usuarios[u] \in Usuario /\ usuarios[u].rol \in Roles
      /\ roles[usuarios[u].rol] # NoHay
  BY RolActivo
<1>2. roles[usuarios[u].rol] \in Rol
  BY <1>1 DEF IInv, TypeOK, RolOK
<1>3. QED
  BY <1>1, <1>2 DEF Acceso, Usuario, Rol

\* The password is checked: the request keeps what it read.
LEMMA LoginMantiene ==
    ASSUME IInv, NEW p \in Procesos, NEW u \in Usuarios, login(p, u)
    PROVE  IInv'
<1>1. PICK x : x = [paso |-> "login", de |-> u, leido |-> Acceso(usuarios[u])]
  OBVIOUS
<1>2. ProcesoOK(x)
  BY <1>1, AccesoOK DEF login, ProcesoOK, CuentaOK, Leido, Pasos
<1>3. QED
  BY <1>1, <1>2, Pide DEF login, En

\* The session is created with what the login read, late if the account changed.
LEMMA CreaSesionMantiene ==
    ASSUME IInv, NEW p \in Procesos, NEW s \in Sesiones, CreaSesion(p, s)
    PROVE  IInv'
<1>1. PICK u : u = proceso[p].de
  OBVIOUS
<1>2. PICK v : v = proceso[p].leido
  OBVIOUS
<1>3. /\ u \in Usuarios /\ Existe(u)
      /\ v \in [clave : Nat \ {0}, rol : Roles, permisos : Conjuntos]
  BY <1>1, <1>2, AtendidaCuenta DEF CreaSesion, CuentaOK, Leido
<1>4. PICK t \in BOOLEAN : t = (v # Acceso(usuarios[u]))
  OBVIOUS
<1>5. PICK y : y = [usuario |-> u, acceso |-> v, revocada |-> FALSE, ocio |-> 0,
                    tardia |-> t]
  OBVIOUS
<1>6. SesionOK(y) /\ SesionAlDia(y)
  <2>1. y \in Sesion
    BY <1>3, <1>5 DEF Sesion
  <2>2. QED
    BY <1>3, <1>4, <1>5, <2>1 DEF SesionOK, SesionAlDia
<1>7. sesiones' = [sesiones EXCEPT ![s] = y]
  BY <1>1, <1>2, <1>4, <1>5 DEF CreaSesion
<1>8. DOMAIN sesiones = Sesiones /\ DOMAIN sesiones' = Sesiones
  BY <1>7 DEF IInv, TypeOK
<1>9. \A w \in Abiertas' \ Abiertas : SesionOK(w) /\ SesionAlDia(w)
  BY <1>6, <1>7, <1>8 DEF Abiertas
<1>10. QED
  BY <1>8, <1>9, SinCuentas DEF CreaSesion, Termina

\* A request that keeps its session alive, a logout, a pause.
LEMMA SesionMantiene ==
    ASSUME IInv, NEW s \in Sesiones, validate(s) \/ logout(s) \/ Reposo(s)
    PROVE  IInv'
<1>1. PICK z : z = sesiones[s]
  OBVIOUS
<1>2. z \in Sesion /\ sesiones[s] # NoHay
  BY <1>1 DEF IInv, TypeOK, SesionOK, validate, logout, Reposo, Aceptada
<1>3. CASE validate(s)
  <2>1. PICK y : y = [z EXCEPT !.ocio = 0]
    OBVIOUS
  <2>2. /\ y \in Sesion /\ y.usuario = z.usuario /\ y.acceso = z.acceso
        /\ y.tardia = z.tardia /\ y.revocada = z.revocada
    BY <1>2, <2>1 DEF Sesion
  <2>3. sesiones' = [sesiones EXCEPT ![s] = y]
    BY <1>1, <1>3, <2>1 DEF validate
  <2>4. UNCHANGED <<usuarios, roles, proceso, correos, tarde, sinAdmin>>
    BY <1>3 DEF validate
  <2>5. QED
    BY <1>1, <1>2, <2>2, <2>3, <2>4, SesionCambia
<1>4. CASE logout(s)
  <2>1. PICK y : y = [z EXCEPT !.revocada = TRUE]
    OBVIOUS
  <2>2. /\ y \in Sesion /\ y.usuario = z.usuario /\ y.acceso = z.acceso
        /\ y.tardia = z.tardia /\ y.revocada = TRUE
    BY <1>2, <2>1 DEF Sesion
  <2>3. sesiones' = [sesiones EXCEPT ![s] = y]
    BY <1>1, <1>4, <2>1 DEF logout
  <2>4. QED
    BY <1>1, <1>2, <1>4, <2>2, <2>3, SesionCambia DEF logout
<1>5. CASE Reposo(s)
  <2>1. PICK y : y = [z EXCEPT !.ocio = @ + 1]
    OBVIOUS
  <2>2. z.ocio \in 0..1
    BY <1>1, <1>2, <1>5 DEF Reposo, Sesion
  <2>3. /\ y \in Sesion /\ y.usuario = z.usuario /\ y.acceso = z.acceso
        /\ y.tardia = z.tardia /\ y.revocada = z.revocada
    BY <1>2, <2>1, <2>2 DEF Sesion
  <2>4. sesiones' = [sesiones EXCEPT ![s] = y]
    BY <1>1, <1>5, <2>1 DEF Reposo
  <2>5. QED
    BY <1>1, <1>2, <1>5, <2>3, <2>4, SesionCambia DEF Reposo
<1>6. QED
  BY <1>3, <1>4, <1>5


-------------------------------------------------------------------------------
(* Requests that read *)

\* Who is signed in has a password of their own.
LEMMA ChangePasswordMantiene ==
    ASSUME IInv, NEW p \in Procesos, NEW s \in Sesiones, changePassword(p, s)
    PROVE  IInv'
<1>1. PICK u : u = sesiones[s].usuario
  OBVIOUS
<1>2. u \in Usuarios /\ Existe(u) /\ canSignIn(usuarios[u])
  BY <1>1 DEF changePassword, Aceptada, IInv, TypeOK, SesionOK, Sesion
<1>3. usuarios[u].clave \in Nat
  BY <1>2, RolActivo, Numeros
<1>4. PICK x : x = [paso |-> "clave", de |-> u, leido |-> usuarios[u].clave]
  OBVIOUS
<1>5. ClaveOK(u, usuarios[u].clave)
  BY <1>2, <1>3 DEF ClaveOK, canSignIn
<1>6. ProcesoOK(x)
  BY <1>2, <1>3, <1>4, <1>5 DEF ProcesoOK, CuentaOK, Leido, Pasos
<1>7. QED
  BY <1>1, <1>4, <1>6, Pide DEF changePassword, En

\* A first access reads the account, to expire it or to go on.
LEMMA ChangeTemporaryPasswordMantiene ==
    ASSUME IInv, NEW p \in Procesos, NEW u \in Usuarios, changeTemporaryPassword(p, u)
    PROVE  IInv'
<1>1. PICK paso \in {"vencida", "temporal"} :
         proceso' = [proceso EXCEPT ![p] = [paso |-> paso, de |-> u, leido |-> usuarios[u]]]
  BY DEF changeTemporaryPassword, En
<1>2. PICK x : x = [paso |-> paso, de |-> u, leido |-> usuarios[u]]
  OBVIOUS
<1>3. ProcesoOK(x)
  BY <1>2 DEF changeTemporaryPassword, ProcesoOK, CuentaOK, Leido, Pasos
<1>4. QED
  BY <1>1, <1>2, <1>3, Pide DEF changeTemporaryPassword

\* A public reset reads the version.
LEMMA RequestPasswordResetMantiene ==
    ASSUME IInv, NEW p \in Procesos, NEW u \in Usuarios, requestPasswordReset(p, u)
    PROVE  IInv'
<1>1. PICK x : x = [paso |-> "olvido", de |-> u, leido |-> usuarios[u].version]
  OBVIOUS
<1>2. ProcesoOK(x)
  BY <1>1 DEF requestPasswordReset, ProcesoOK, CuentaOK, Leido, Pasos
<1>3. QED
  BY <1>1, <1>2, Pide DEF requestPasswordReset, En

\* A repeated invitation keeps the role and scope asked for.
LEMMA RepiteMantiene ==
    ASSUME IInv, NEW p \in Procesos, NEW a \in Usuarios, NEW u \in Usuarios,
           NEW rol \in Roles, NEW global \in BOOLEAN, Repite(p, a, u, rol, global)
    PROVE  IInv'
<1>1. PICK x : x = [paso |-> "recupera", de |-> u,
                    leido |-> [rol |-> rol, global |-> global]]
  OBVIOUS
<1>2. ProcesoOK(x)
  BY <1>1 DEF Repite, ProcesoOK, CuentaOK, Leido, Pasos
<1>3. QED
  BY <1>1, <1>2, Pide DEF Repite, En

\* A change of access completes what it was not given with what it read.
LEMMA UpdateAccessMantiene ==
    ASSUME IInv, NEW p \in Procesos, NEW a \in Usuarios, NEW u \in Usuarios,
           NEW rol \in Roles \cup {NoHay}, NEW global \in BOOLEAN \cup {NoHay},
           NEW sucursal \in BOOLEAN, updateAccess(p, a, u, rol, global, sucursal)
    PROVE  IInv'
<1>1. Existe(u) /\ usuarios[u].rol \in Roles /\ usuarios[u] \in Usuario
  BY RolActivo DEF updateAccess
<1>2. PICK r \in Roles : r = IF rol = NoHay THEN usuarios[u].rol ELSE rol
  BY <1>1
<1>3. PICK g \in BOOLEAN :
         g = IF global = NoHay THEN usuarios[u].global /\ r = ADMINISTRADOR ELSE global
  BY DEF Usuario
<1>4. PICK v : v = [rol |-> r, global |-> g, activo |-> usuarios[u].activo,
                    configurada |-> usuarios[u].configurada,
                    otorga |-> usuarios[a].global]
  OBVIOUS
<1>5. PICK x : x = [paso |-> "acceso", de |-> u, leido |-> v]
  OBVIOUS
<1>6. ProcesoOK(x)
  BY <1>1, <1>4, <1>5 DEF ProcesoOK, CuentaOK, Leido, Pasos
<1>7. proceso' = [proceso EXCEPT ![p] = x]
  BY <1>2, <1>3, <1>4, <1>5 DEF updateAccess, En
<1>8. QED
  BY <1>6, <1>7, Pide DEF updateAccess

\* A change of status.
LEMMA UpdateStatusMantiene ==
    ASSUME IInv, NEW p \in Procesos, NEW a \in Usuarios, NEW u \in Usuarios,
           NEW activo \in BOOLEAN, updateStatus(p, a, u, activo)
    PROVE  IInv'
<1>1. PICK x : x = [paso |-> "estado", de |-> u,
                    leido |-> [rol |-> usuarios[u].rol, activo |-> activo,
                               configurada |-> usuarios[u].configurada]]
  OBVIOUS
<1>2. ProcesoOK(x)
  BY <1>1 DEF updateStatus, ProcesoOK, CuentaOK, Leido, Pasos
<1>3. QED
  BY <1>1, <1>2, Pide DEF updateStatus, En

\* A reset by an administrator.
LEMMA ResetTemporaryPasswordMantiene ==
    ASSUME IInv, NEW p \in Procesos, NEW a \in Usuarios, NEW u \in Usuarios,
           resetTemporaryPassword(p, a, u)
    PROVE  IInv'
<1>1. PICK x : x = [paso |-> "reinicio", de |-> u,
                    leido |-> [rol |-> usuarios[u].rol, activo |-> usuarios[u].activo]]
  OBVIOUS
<1>2. ProcesoOK(x)
  BY <1>1 DEF resetTemporaryPassword, ProcesoOK, CuentaOK, Leido, Pasos
<1>3. QED
  BY <1>1, <1>2, Pide DEF resetTemporaryPassword, En

\* A change of a role notes whether the permissions change at its version.
LEMMA UpdateRoleMantiene ==
    ASSUME IInv, NEW p \in Procesos, NEW a \in Usuarios, NEW r \in Roles,
           NEW permisos \in Conjuntos \cup {NoHay}, updateRole(p, a, r, permisos)
    PROVE  IInv'
<1>1. roles[r] # NoHay /\ roles[r] \in Rol
  BY DEF updateRole, IInv, TypeOK, RolOK
<1>2. roles[r].version \in Nat /\ roles[r].permisos \in Conjuntos
  BY <1>1 DEF Rol
<1>3. PICK nuevos \in Conjuntos :
         nuevos = IF permisos = NoHay THEN roles[r].permisos ELSE permisos
  BY <1>2
<1>4. PICK cambian \in BOOLEAN : cambian = (nuevos # roles[r].permisos)
  OBVIOUS
<1>5. PICK v : v = [version |-> roles[r].version, permisos |-> nuevos,
                    cambian |-> cambian]
  OBVIOUS
<1>6. PICK x : x = [paso |-> "rol", de |-> r, leido |-> v]
  OBVIOUS
<1>7. TrabajoOK(x)
  <2>1. /\ x.de = r /\ x.paso = "rol" /\ x.leido = v /\ v.version = roles[r].version
        /\ v.permisos = nuevos /\ v.cambian = cambian
    BY <1>5, <1>6
  <2>2. v.cambian <=> v.permisos # roles[r].permisos
    BY <1>4, <2>1, Zenon
  <2>3. v.version <= roles[r].version
    BY <1>2, <2>1
  <2>4. QED
    BY <1>1, <1>2, <2>1, <2>2, <2>3, Zenon DEF TrabajoOK
<1>8. ProcesoOK(x)
  BY <1>6, <1>7 DEF ProcesoOK, Pasos
<1>9. proceso' = [proceso EXCEPT ![p] = x]
  BY <1>3, <1>4, <1>5, <1>6 DEF updateRole, En
<1>10. QED
  BY <1>8, <1>9, Pide DEF updateRole

\* A change of a role's status.
LEMMA UpdateRoleStatusMantiene ==
    ASSUME IInv, NEW p \in Procesos, NEW a \in Usuarios, NEW r \in Roles,
           NEW activo \in BOOLEAN, updateRoleStatus(p, a, r, activo)
    PROVE  IInv'
<1>1. roles[r] # NoHay /\ roles[r].version \in Nat
  BY DEF updateRoleStatus, IInv, TypeOK, RolOK, Rol
<1>2. PICK x : x = [paso |-> "estadoRol", de |-> r,
                    leido |-> [version |-> roles[r].version, activo |-> activo]]
  OBVIOUS
<1>3. TrabajoOK(x)
  BY <1>1, <1>2 DEF TrabajoOK, updateRoleStatus
<1>4. ProcesoOK(x)
  BY <1>2, <1>3 DEF ProcesoOK, Pasos
<1>5. QED
  BY <1>2, <1>4, Pide DEF updateRoleStatus, En

\* A request that stops leaves everything as it was.
LEMMA CaidaMantiene ==
    ASSUME IInv, NEW p \in Procesos, Caida(p)
    PROVE  IInv'
BY Pide DEF Caida, Termina

-------------------------------------------------------------------------------
(* The mail of a temporary password *)

\* The sessions end after the password was replaced: the mail is still of it.
LEMMA RevocaPublicaMantiene ==
    ASSUME IInv, NEW p \in Procesos, RevocaPublica(p)
    PROVE  IInv'
<1>1. PICK u : u = proceso[p].de
  OBVIOUS
<1>2. PICK v : v = proceso[p].leido
  OBVIOUS
<1>3. /\ u \in Usuarios /\ Existe(u) /\ CorreoOK(u, v)
      /\ v.version \in Nat /\ v.clave \in Nat
  BY <1>1, <1>2, AtendidaCuenta DEF RevocaPublica, CuentaOK, Leido
<1>4. PICK w : w = [clave |-> v.clave, version |-> v.version, publico |-> TRUE]
  OBVIOUS
<1>5. PICK x : x = [paso |-> "correo", de |-> u, leido |-> w]
  OBVIOUS
<1>6. CorreoOK(u, w)' /\ Existe(u)'
  BY <1>3, <1>4 DEF RevocaPublica, CorreoOK, Espera, EnEspera, Existe
<1>7. ProcesoOK(x)'
  BY <1>3, <1>4, <1>5, <1>6 DEF ProcesoOK, CuentaOK, Leido, Pasos
<1>8. proceso' = [proceso EXCEPT ![p] = x]
  BY <1>1, <1>2, <1>4, <1>5 DEF RevocaPublica, En
<1>9. revokeSessions({u})
  BY <1>1 DEF RevocaPublica
<1>10. /\ DOMAIN sesiones' = Sesiones
       /\ \A s \in Sesiones : sesiones[s] = NoHay => sesiones'[s] = NoHay
       /\ SesionesSiguen({u})
  BY <1>9, RevocarSesiones DEF IInv
<1>11. ASSUME NEW y \in Abiertas' PROVE SesionOK(y) /\ SesionAlDia(y)
  <2>1. PICK s \in Sesiones : y = sesiones'[s] /\ y # NoHay
    BY <1>11 DEF Abiertas
  <2>2. PICK z : z = sesiones[s] /\ z # NoHay
    BY <1>10, <2>1
  <2>3. SesionOK(z) /\ SesionAlDia(z)
    BY <2>2 DEF IInv, TypeOK, SesionesAlDia, Abiertas
  <2>4. /\ y \in Sesion /\ y.usuario = z.usuario /\ y.acceso = z.acceso
        /\ y.tardia = z.tardia /\ y.revocada = (z.revocada \/ z.usuario \in {u})
    BY <1>10, <2>1, <2>2 DEF SesionesSiguen
  <2>5. QED
    BY <2>3, <2>4 DEF SesionOK, SesionAlDia
<1>12. QED
  BY <1>7, <1>8, <1>10, <1>11, SinCuentas DEF RevocaPublica

\* What the provider answered for was sent; what it did not, perhaps.
LEMMA EnviaCorreoMantiene ==
    ASSUME IInv, NEW p \in Procesos, EnviaCorreo(p)
    PROVE  IInv'
<1>1. PICK u : u = proceso[p].de
  OBVIOUS
<1>2. PICK v : v = proceso[p].leido
  OBVIOUS
<1>3. /\ u \in Usuarios /\ Existe(u) /\ CorreoOK(u, v) /\ v.publico \in BOOLEAN
      /\ v.version \in Nat /\ v.clave \in Nat
  BY <1>1, <1>2, AtendidaCuenta DEF EnviaCorreo, CuentaOK, Leido
<1>4. PICK llega \in BOOLEAN, responde \in BOOLEAN :
         /\ responde => llega
         /\ correos' = IF llega THEN correos \cup {<<u, v.clave>>} ELSE correos
         /\ proceso' = [proceso EXCEPT ![p] = [paso |-> "resultado", de |-> u,
                leido |-> [version |-> v.version, publico |-> v.publico,
                           responde |-> responde]]]
  BY <1>1, <1>2 DEF EnviaCorreo, En
<1>5. PICK w : w = [version |-> v.version, publico |-> v.publico, responde |-> responde]
  OBVIOUS
<1>6. PICK x : x = [paso |-> "resultado", de |-> u, leido |-> w]
  OBVIOUS
<1>7. UNCHANGED <<usuarios, roles, sesiones, tarde, sinAdmin>>
  BY DEF EnviaCorreo
<1>8. ResultadoOK(u, w)' /\ Existe(u)'
  BY <1>3, <1>4, <1>5, <1>7 DEF CorreoOK, Espera, EnEspera, ResultadoOK, Existe
<1>9. ProcesoOK(x)'
  BY <1>3, <1>5, <1>6, <1>8 DEF ProcesoOK, CuentaOK, Leido, Pasos
<1>10. correos \subseteq correos' /\ proceso' = [proceso EXCEPT ![p] = x]
  BY <1>4, <1>5, <1>6
<1>11. DOMAIN sesiones' = Sesiones /\ Abiertas' = Abiertas
  BY <1>7 DEF IInv, TypeOK, Abiertas
<1>12. QED
  BY <1>7, <1>9, <1>10, <1>11, SinCuentas


-------------------------------------------------------------------------------
(* Passwords *)

\* The row of an account with a new temporary password.
LEMMA ReemitidaEs ==
    ASSUME NEW c \in Usuario
    PROVE  /\ Reemitida(c) \in Usuario
           /\ Reemitida(c).clave = c.clave + 1 /\ Reemitida(c).version = c.version + 1
           /\ Reemitida(c).configurada = FALSE /\ Reemitida(c).vence = "futuro"
           /\ Reemitida(c).estado = "PENDING" /\ Reemitida(c).rol = c.rol
<1>1. c.clave \in Nat /\ c.version \in Nat /\ c.clave + 1 \in Nat \ {0} /\ c.version + 1 \in Nat \ {0}
  BY Numeros
<1>2. PICK r : r = Reemitida(c)
  OBVIOUS
<1>3. /\ r.clave = c.clave + 1 /\ r.version = c.version + 1 /\ r.configurada = FALSE
      /\ r.vence = "futuro" /\ r.estado = "PENDING" /\ r.rol = c.rol
  BY <1>2 DEF Reemitida, Usuario
<1>4. r \in Usuario
  BY <1>1, <1>2 DEF Reemitida, Usuario
<1>5. QED
  BY <1>2, <1>3, <1>4

\* The row of an account whose owner chose the password.
LEMMA ElegidaEs ==
    ASSUME NEW c \in Usuario
    PROVE  /\ Elegida(c) \in Usuario
           /\ Elegida(c).clave = c.clave + 1 /\ Elegida(c).version = c.version
           /\ Elegida(c).configurada = TRUE /\ Elegida(c).vence = NoHay
           /\ Elegida(c).estado = "ACCEPTED" /\ Elegida(c).rol = c.rol
           /\ Elegida(c).activo = c.activo
<1>1. c.clave \in Nat /\ c.clave + 1 \in Nat \ {0}
  BY Numeros
<1>2. PICK r : r = Elegida(c)
  OBVIOUS
<1>3. /\ r.clave = c.clave + 1 /\ r.version = c.version /\ r.configurada = TRUE
      /\ r.vence = NoHay /\ r.estado = "ACCEPTED" /\ r.rol = c.rol
      /\ r.activo = c.activo
  BY <1>2 DEF Elegida, Usuario
<1>4. r \in Usuario
  BY <1>1, <1>2 DEF Elegida, Usuario
<1>5. QED
  BY <1>2, <1>3, <1>4

\* The mail of the password an account has just got.
LEMMA CorreoDe ==
    ASSUME NEW u \in Usuarios, NEW c \in Usuario, usuarios'[u] = c,
           ~ c.configurada, NEW paso \in {"revoca", "correo"}, NEW w,
           w.clave = c.clave, w.version = c.version,
           paso = "correo" => w.publico \in BOOLEAN,
           NEW x, x = [paso |-> paso, de |-> u, leido |-> w]
    PROVE  ProcesoOK(x)'
<1>1. c # NoHay /\ c.version \in Nat /\ c.clave \in Nat
  BY Numeros, NoHayAparte
<1>2. CorreoOK(u, w)' /\ Existe(u)'
  BY <1>1 DEF CorreoOK, Espera, EnEspera, Existe
<1>3. QED
  BY <1>1, <1>2 DEF ProcesoOK, CuentaOK, Leido, Pasos

\* The password that expires is temporary.
LEMMA VenceMantiene ==
    ASSUME IInv, NEW u \in Usuarios, Vence(u)
    PROVE  IInv'
<1>1. PICK a \in Usuario : a = usuarios[u] /\ Existe(u)
  BY RolActivo DEF Vence
<1>2. /\ roles[a.rol] # NoHay /\ roles[a.rol].activo /\ a.vence = "futuro"
      /\ a.configurada <=> a.vence = NoHay
      /\ a.version \in Nat /\ a.clave \in Nat /\ a.configurada \in BOOLEAN
  BY <1>1, RolActivo, Numeros DEF Vence
<1>3. ~ a.configurada
  BY <1>2, NoHayAparte
<1>4. PICK c : c = [a EXCEPT !.vence = "pasado"]
  OBVIOUS
<1>5. /\ c \in Usuario /\ c.vence = "pasado" /\ c.rol = a.rol /\ c.clave = a.clave
      /\ c.version = a.version /\ c.configurada = a.configurada /\ c.estado = a.estado
  BY <1>4 DEF Usuario
<1>6. Avanza(u, c)
  BY <1>1, <1>2, <1>5 DEF Avanza
<1>7. c.configurada <=> c.vence = NoHay
  BY <1>3, <1>5, NoHayAparte
<1>8. ~ Protege(u) /\ ~ canSignIn(c)
  BY <1>1, <1>3, <1>5 DEF Protege, canSignIn
<1>9. \/ u \in tarde
      \/ /\ c.configurada <=> c.estado = "ACCEPTED"
         /\ c.estado = "DELIVERED" => <<u, c.clave>> \in correos
  BY <1>1, <1>5 DEF IInv, InvitacionAlDia
<1>10. /\ usuarios' = [usuarios EXCEPT ![u] = c] /\ roles' = roles
       /\ sesiones' = sesiones /\ proceso' = proceso /\ correos' = correos
       /\ tarde' = tarde /\ sinAdmin' = sinAdmin /\ sinAdmin \in BOOLEAN
  BY <1>1, <1>4 DEF Vence, IInv, TypeOK
<1>11. roles[c.rol] # NoHay /\ roles[c.rol].activo
  BY <1>2, <1>5
<1> HIDE DEF IInv
<1>12. QED
  BY <1>5, <1>6, <1>7, <1>8, <1>9, <1>10, <1>11, EscribeUsuario

\* A new password over one that changed meanwhile is out of date.
LEMMA CambiaClaveMantiene ==
    ASSUME IInv, NEW p \in Procesos, CambiaClave(p)
    PROVE  IInv'
<1>1. PICK u : u = proceso[p].de
  OBVIOUS
<1>2. PICK v : v = proceso[p].leido
  OBVIOUS
<1>3. /\ u \in Usuarios /\ Existe(u) /\ usuarios[u] \in Usuario
      /\ roles[usuarios[u].rol] # NoHay /\ roles[usuarios[u].rol].activo
      /\ v = usuarios[u].clave => usuarios[u].configurada
  BY <1>1, <1>2, AtendidaCuenta DEF CambiaClave, CuentaOK, ClaveOK
<1>4. PICK a \in Usuario : a = usuarios[u]
  BY <1>3
<1>5. a.clave \in Nat /\ a.version \in Nat
  BY Numeros
<1>6. PICK c \in Usuario : c = Elegida(a)
  BY ElegidaEs
<1>7. /\ c.clave = a.clave + 1 /\ c.version = a.version /\ c.configurada = TRUE
      /\ c.vence = NoHay /\ c.estado = "ACCEPTED" /\ c.rol = a.rol /\ c.activo = a.activo
  BY <1>6, ElegidaEs
<1>8. /\ usuarios' = [usuarios EXCEPT ![u] = c] /\ roles' = roles
      /\ revokeSessions({u}) /\ proceso' = [proceso EXCEPT ![p] = NoHay]
      /\ tarde' = IF a.clave = v THEN tarde ELSE tarde \cup {u}
      /\ correos' = correos /\ sinAdmin' = sinAdmin /\ sinAdmin \in BOOLEAN
  BY <1>1, <1>2, <1>4, <1>6 DEF CambiaClave, Termina, IInv, TypeOK
<1>9. Avanza(u, c)
  BY <1>3, <1>4, <1>5, <1>7, <1>8 DEF Avanza
<1>10. Protege(u) => c.rol = ADMINISTRADOR /\ c.activo /\ c.configurada
  BY <1>4, <1>7 DEF Protege, canCompleteFirstAccess
<1>11. roles[c.rol] # NoHay /\ roles[c.rol].activo
  BY <1>3, <1>4, <1>7
<1>12. QED
  BY <1>3, <1>7, <1>8, <1>9, <1>10, <1>11, EscribeUsuario

\* The invitation marked is the one read.
LEMMA MarcaVencidaMantiene ==
    ASSUME IInv, NEW p \in Procesos, MarcaVencida(p)
    PROVE  IInv'
<1>1. PICK u : u = proceso[p].de
  OBVIOUS
<1>2. /\ u \in Usuarios /\ Existe(u) /\ usuarios[u] \in Usuario
      /\ roles[usuarios[u].rol] # NoHay /\ roles[usuarios[u].rol].activo
      /\ usuarios[u].configurada <=> usuarios[u].vence = NoHay
  BY <1>1, AtendidaCuenta DEF MarcaVencida
<1>3. PICK a \in Usuario : a = usuarios[u]
  BY <1>2
<1>4. a.clave \in Nat /\ a.version \in Nat /\ ~ a.configurada
  BY <1>1, <1>3, Numeros DEF MarcaVencida
<1>5. PICK c : c = [a EXCEPT !.estado = "EXPIRED"]
  OBVIOUS
<1>6. /\ c \in Usuario /\ c.estado = "EXPIRED" /\ c.rol = a.rol /\ c.clave = a.clave
      /\ c.version = a.version /\ c.configurada = a.configurada /\ c.vence = a.vence
  BY <1>5 DEF Usuario
<1>7. /\ usuarios' = [usuarios EXCEPT ![u] = c] /\ roles' = roles
      /\ sesiones' = sesiones /\ proceso' = [proceso EXCEPT ![p] = NoHay]
      /\ tarde' = tarde /\ correos' = correos
      /\ sinAdmin' = sinAdmin /\ sinAdmin \in BOOLEAN
  BY <1>1, <1>3, <1>5 DEF MarcaVencida, Termina, IInv, TypeOK
<1>8. Avanza(u, c)
  BY <1>3, <1>4, <1>6 DEF Avanza
<1>9. ~ Protege(u) /\ ~ canSignIn(c)
  BY <1>3, <1>4, <1>6 DEF Protege, canSignIn
<1>10. c.configurada <=> c.vence = NoHay
  BY <1>2, <1>3, <1>6
<1>11. roles[c.rol] # NoHay /\ roles[c.rol].activo
  BY <1>2, <1>3, <1>6
<1>12. c.configurada <=> c.estado = "ACCEPTED"
  BY <1>4, <1>6
<1>13. QED
  BY <1>2, <1>6, <1>7, <1>8, <1>9, <1>10, <1>11, <1>12, EscribeUsuario

\* The first access chooses a password.
LEMMA ConfiguraMantiene ==
    ASSUME IInv, NEW p \in Procesos, Configura(p)
    PROVE  IInv'
<1>1. PICK u : u = proceso[p].de
  OBVIOUS
<1>2. /\ u \in Usuarios /\ Existe(u) /\ usuarios[u] \in Usuario
      /\ roles[usuarios[u].rol] # NoHay /\ roles[usuarios[u].rol].activo
  BY <1>1, AtendidaCuenta DEF Configura
<1>3. PICK a \in Usuario : a = usuarios[u]
  BY <1>2
<1>4. a.clave \in Nat /\ a.version \in Nat
  BY Numeros
<1>5. PICK c : c = [Elegida(a) EXCEPT !.version = @ + 1]
  OBVIOUS
<1>6. /\ c \in Usuario /\ c.clave = a.clave + 1 /\ c.version = a.version + 1
      /\ c.configurada = TRUE /\ c.vence = NoHay /\ c.estado = "ACCEPTED"
      /\ c.rol = a.rol /\ c.activo = a.activo
  <2>1. PICK b \in Usuario : b = Elegida(a)
    BY ElegidaEs
  <2>2. /\ c \in Usuario /\ c.clave = b.clave /\ c.version = b.version + 1
        /\ c.configurada = b.configurada /\ c.vence = b.vence /\ c.estado = b.estado
        /\ c.rol = b.rol /\ c.activo = b.activo
    BY <1>5, <2>1 DEF Usuario
  <2>3. QED
    BY <2>1, <2>2, ElegidaEs
<1>7. /\ usuarios' = [usuarios EXCEPT ![u] = c] /\ roles' = roles
      /\ revokeSessions({u}) /\ proceso' = [proceso EXCEPT ![p] = NoHay]
      /\ tarde' = tarde /\ correos' = correos
      /\ sinAdmin' = sinAdmin /\ sinAdmin \in BOOLEAN
  BY <1>1, <1>3, <1>5 DEF Configura, Termina, IInv, TypeOK
<1>8. Avanza(u, c)
  BY <1>3, <1>4, <1>6 DEF Avanza
<1>9. Protege(u) => c.rol = ADMINISTRADOR /\ c.activo /\ c.configurada
  BY <1>3, <1>6 DEF Protege, canCompleteFirstAccess
<1>10. roles[c.rol] # NoHay /\ roles[c.rol].activo
  BY <1>2, <1>3, <1>6
<1>11. QED
  BY <1>2, <1>6, <1>7, <1>8, <1>9, <1>10, EscribeUsuario

\* The public reset replaces the password, whoever the account is.
LEMMA ReemitePublicaMantiene ==
    ASSUME IInv, NEW p \in Procesos, ReemitePublica(p)
    PROVE  IInv'
<1>1. PICK u : u = proceso[p].de
  OBVIOUS
<1>2. /\ u \in Usuarios /\ Existe(u) /\ usuarios[u] \in Usuario
      /\ roles[usuarios[u].rol] # NoHay /\ roles[usuarios[u].rol].activo
  BY <1>1, AtendidaCuenta DEF ReemitePublica
<1>3. PICK a \in Usuario : a = usuarios[u]
  BY <1>2
<1>4. a.clave \in Nat /\ a.version \in Nat
  BY Numeros
<1>5. PICK c \in Usuario : c = Reemitida(a)
  BY ReemitidaEs
<1>6. /\ c.clave = a.clave + 1 /\ c.version = a.version + 1
      /\ c.configurada = FALSE /\ c.vence = "futuro" /\ c.estado = "PENDING"
      /\ c.rol = a.rol
  BY <1>5, ReemitidaEs
<1>7. PICK x : x = [paso |-> "revoca", de |-> u, leido |-> c]
  OBVIOUS
<1>8. /\ usuarios' = [usuarios EXCEPT ![u] = c] /\ roles' = roles
      /\ sesiones' = sesiones /\ proceso' = [proceso EXCEPT ![p] = x]
      /\ tarde' = tarde /\ correos' = correos
      /\ sinAdmin' = (sinAdmin \/ Protege(u)) /\ DOMAIN usuarios = Usuarios
  BY <1>1, <1>3, <1>5, <1>7 DEF ReemitePublica, En, IInv, TypeOK
<1>9. ProcesoOK(x)'
  <2>1. usuarios'[u] = c
    BY <1>2, <1>8
  <2>2. QED
    BY <1>2, <1>6, <1>7, <2>1, CorreoDe
<1>10. Avanza(u, c)
  BY <1>3, <1>4, <1>6 DEF Avanza
<1>11. ~ canSignIn(c) /\ (c.configurada <=> c.estado = "ACCEPTED")
  BY <1>6 DEF canSignIn
<1>12. sinAdmin' \in BOOLEAN
  BY <1>8
<1>13. (c.configurada <=> c.vence = NoHay) /\ roles[c.rol] # NoHay /\ roles[c.rol].activo
  BY <1>2, <1>3, <1>6, NoHayAparte
<1>14. QED
  BY <1>2, <1>6, <1>8, <1>9, <1>10, <1>11, <1>12, <1>13, EscribeUsuario


\* The result of a mail: of the current password, or out of date.
LEMMA RegistraEnvioMantiene ==
    ASSUME IInv, NEW p \in Procesos, RegistraEnvio(p)
    PROVE  IInv'
<1>1. PICK u : u = proceso[p].de
  OBVIOUS
<1>2. PICK v : v = proceso[p].leido
  OBVIOUS
<1>3. /\ u \in Usuarios /\ Existe(u) /\ usuarios[u] \in Usuario
      /\ roles[usuarios[u].rol] # NoHay /\ roles[usuarios[u].rol].activo
      /\ usuarios[u].configurada <=> usuarios[u].vence = NoHay
      /\ ResultadoOK(u, v) /\ v.responde \in BOOLEAN /\ v.publico \in BOOLEAN
      /\ v.version \in Nat
  BY <1>1, <1>2, AtendidaCuenta DEF RegistraEnvio, CuentaOK, Leido
<1>4. PICK a \in Usuario : a = usuarios[u]
  BY <1>3
<1>5. a.clave \in Nat /\ a.version \in Nat
  BY Numeros
<1>6. PICK estado \in {"DELIVERED", "FAILED"} :
         estado = IF v.responde THEN "DELIVERED" ELSE "FAILED"
  BY <1>3
<1>7. PICK c : c = [a EXCEPT !.estado = estado]
  OBVIOUS
<1>8. /\ c \in Usuario /\ c.estado = estado /\ c.rol = a.rol /\ c.clave = a.clave
      /\ c.version = a.version /\ c.configurada = a.configurada /\ c.vence = a.vence
      /\ c.activo = a.activo
  BY <1>7 DEF Usuario
<1>9. /\ usuarios' = [usuarios EXCEPT ![u] = c] /\ roles' = roles
      /\ sesiones' = sesiones /\ proceso' = [proceso EXCEPT ![p] = NoHay]
      /\ tarde' = IF v.publico /\ a.version # v.version THEN tarde \cup {u} ELSE tarde
      /\ correos' = correos /\ sinAdmin' = sinAdmin /\ sinAdmin \in BOOLEAN
      /\ v.publico \/ a.version = v.version
  BY <1>1, <1>2, <1>4, <1>6, <1>7 DEF RegistraEnvio, Vigente, FueraDeFecha, Termina, IInv, TypeOK
<1>10. Avanza(u, c)
  BY <1>4, <1>5, <1>8 DEF Avanza
<1>11. ~ canSignIn(c)
  BY <1>8 DEF canSignIn
<1>12. Protege(u) => c.rol = ADMINISTRADOR /\ c.activo /\ c.configurada
  BY <1>4, <1>8 DEF Protege, canCompleteFirstAccess
<1>13. \/ u \in tarde'
       \/ /\ c.configurada <=> c.estado = "ACCEPTED"
          /\ c.estado = "DELIVERED" => <<u, c.clave>> \in correos'
  <2>1. CASE v.publico /\ a.version # v.version
    BY <1>9, <2>1
  <2>2. CASE a.version = v.version /\ u \notin tarde
    <3>1. ~ a.configurada
      BY <1>3, <1>4, <1>5, <2>2 DEF ResultadoOK, EnEspera
    <3>2. estado = "DELIVERED" => v.responde = TRUE
      BY <1>3, <1>6
    <3>3. estado = "DELIVERED" => <<u, a.clave>> \in correos
      BY <1>3, <1>4, <2>2, <3>2 DEF ResultadoOK
    <3>4. QED
      BY <1>6, <1>8, <1>9, <3>1, <3>3
  <2>3. CASE u \in tarde
    BY <1>9, <2>3
  <2>4. QED
    BY <1>9, <2>1, <2>2, <2>3
<1>14. (c.configurada <=> c.vence = NoHay) /\ roles[c.rol] # NoHay /\ roles[c.rol].activo
  BY <1>3, <1>4, <1>8
<1>15. tarde \subseteq tarde' /\ tarde' \subseteq tarde \cup {u}
  BY <1>9
<1>16. QED
  BY <1>3, <1>8, <1>9, <1>10, <1>11, <1>12, <1>13, <1>14, <1>15, EscribeUsuario

-------------------------------------------------------------------------------
(* Administration of users *)

\* A new account waits for the mail of its password.
LEMMA CreateMantiene ==
    ASSUME IInv, NEW p \in Procesos, NEW a \in Usuarios, NEW u \in Usuarios,
           NEW rol \in Roles, NEW global \in BOOLEAN, create(p, a, u, rol, global)
    PROVE  IInv'
<1>1. PICK c : c = [rol |-> rol, global |-> global, activo |-> TRUE, clave |-> 1,
                    configurada |-> FALSE, vence |-> "futuro",
                    estado |-> "PENDING", version |-> 1]
  OBVIOUS
<1>2. /\ c \in Usuario /\ c.rol = rol /\ c.configurada = FALSE /\ c.vence = "futuro"
      /\ c.estado = "PENDING"
  BY <1>1 DEF Usuario
<1>3. PICK w : w = [clave |-> c.clave, version |-> c.version, publico |-> FALSE]
  OBVIOUS
<1>4. PICK x : x = [paso |-> "correo", de |-> u, leido |-> w]
  OBVIOUS
<1>5. /\ usuarios' = [usuarios EXCEPT ![u] = c] /\ roles' = roles
      /\ sesiones' = sesiones /\ proceso' = [proceso EXCEPT ![p] = x]
      /\ tarde' = tarde /\ correos' = correos /\ sinAdmin' = sinAdmin
      /\ sinAdmin \in BOOLEAN /\ DOMAIN usuarios = Usuarios
      /\ ~ Existe(u) /\ roles[rol] # NoHay /\ roles[rol].activo
  BY <1>1, <1>3, <1>4 DEF create, Invita, En, RolAsignable, IInv, TypeOK
<1>6. ProcesoOK(x)'
  <2>1. usuarios'[u] = c
    BY <1>5
  <2>2. QED
    BY <1>2, <1>3, <1>4, <2>1, CorreoDe
<1>7. ~ Protege(u)
  BY <1>5 DEF Protege
<1>8. (c.configurada <=> c.vence = NoHay) /\ roles[c.rol] # NoHay /\ roles[c.rol].activo
  BY <1>2, <1>5, NoHayAparte
<1>9. QED
  BY <1>2, <1>5, <1>6, <1>7, <1>8, EscribeUsuario

\* An abandoned invitation gets a new password, whatever it is by now.
LEMMA RecoverMantiene ==
    ASSUME IInv, NEW p \in Procesos, recoverAbandonedInvitation(p)
    PROVE  IInv'
<1>1. PICK u : u = proceso[p].de
  OBVIOUS
<1>2. PICK v : v = proceso[p].leido
  OBVIOUS
<1>3. /\ u \in Usuarios /\ Existe(u) /\ usuarios[u] \in Usuario
      /\ v.rol \in Roles /\ v.global \in BOOLEAN
  BY <1>1, <1>2, AtendidaCuenta DEF recoverAbandonedInvitation, CuentaOK, Leido
<1>4. PICK a \in Usuario : a = usuarios[u]
  BY <1>3
<1>5. a.clave \in Nat /\ a.version \in Nat
  BY Numeros
<1>6. PICK b \in Usuario : b = Reemitida(a)
  BY ReemitidaEs
<1>7. PICK c : c = [b EXCEPT !.rol = v.rol, !.global = v.global, !.activo = TRUE]
  OBVIOUS
<1>8. /\ c \in Usuario /\ c.rol = v.rol /\ c.clave = b.clave /\ c.version = b.version
      /\ c.configurada = b.configurada /\ c.vence = b.vence /\ c.estado = b.estado
  BY <1>3, <1>7 DEF Usuario
<1>9. /\ c.clave = a.clave + 1 /\ c.version = a.version + 1
      /\ c.configurada = FALSE /\ c.vence = "futuro" /\ c.estado = "PENDING"
  BY <1>6, <1>8, ReemitidaEs
<1>10. PICK w : w = [clave |-> c.clave, version |-> c.version, publico |-> FALSE]
  OBVIOUS
<1>11. PICK x : x = [paso |-> "correo", de |-> u, leido |-> w]
  OBVIOUS
<1>12. /\ usuarios' = [usuarios EXCEPT ![u] = c] /\ roles' = roles
       /\ revokeSessions({u}) /\ proceso' = [proceso EXCEPT ![p] = x]
       /\ tarde' = tarde /\ correos' = correos
       /\ sinAdmin' = (sinAdmin \/ Protege(u)) /\ DOMAIN usuarios = Usuarios
       /\ roles[v.rol] # NoHay /\ roles[v.rol].activo
  BY <1>1, <1>2, <1>4, <1>6, <1>7, <1>10, <1>11
     DEF recoverAbandonedInvitation, Invita, En, RolAsignable, IInv, TypeOK
<1>13. ProcesoOK(x)'
  <2>1. usuarios'[u] = c
    BY <1>3, <1>12
  <2>2. QED
    BY <1>3, <1>8, <1>9, <1>10, <1>11, <2>1, CorreoDe
<1>14. Avanza(u, c)
  BY <1>4, <1>5, <1>9 DEF Avanza
<1>15. sinAdmin' \in BOOLEAN
  BY <1>12
<1>16. (c.configurada <=> c.vence = NoHay) /\ roles[c.rol] # NoHay /\ roles[c.rol].activo
  BY <1>8, <1>9, <1>12, NoHayAparte
<1>17. QED
  BY <1>3, <1>8, <1>9, <1>12, <1>13, <1>14, <1>15, <1>16, EscribeUsuario

\* The check under the lock holds of the row written: it keeps the rest of it.
LEMMA GuardaAccesoMantiene ==
    ASSUME IInv, NEW p \in Procesos, GuardaAcceso(p)
    PROVE  IInv'
<1>1. PICK u : u = proceso[p].de
  OBVIOUS
<1>2. PICK v : v = proceso[p].leido
  OBVIOUS
<1>3. /\ u \in Usuarios /\ Existe(u) /\ usuarios[u] \in Usuario
      /\ usuarios[u].configurada <=> usuarios[u].vence = NoHay
      /\ v.rol \in Roles /\ v.global \in BOOLEAN
  BY <1>1, <1>2, AtendidaCuenta DEF GuardaAcceso, CuentaOK, Leido
<1>4. PICK a \in Usuario : a = usuarios[u]
  BY <1>3
<1>5. a.clave \in Nat /\ a.version \in Nat
  BY Numeros
<1>6. PICK c : c = [a EXCEPT !.rol = v.rol, !.global = v.global]
  OBVIOUS
<1>7. /\ c \in Usuario /\ c.rol = v.rol /\ c.clave = a.clave /\ c.version = a.version
      /\ c.configurada = a.configurada /\ c.vence = a.vence /\ c.estado = a.estado
      /\ c.activo = a.activo
  BY <1>3, <1>6 DEF Usuario
<1>8. /\ usuarios' = [usuarios EXCEPT ![u] = c] /\ roles' = roles
      /\ revokeSessions({u}) /\ proceso' = [proceso EXCEPT ![p] = NoHay]
      /\ tarde' = tarde /\ correos' = correos
      /\ sinAdmin' = sinAdmin /\ sinAdmin \in BOOLEAN
      /\ roles[v.rol] # NoHay /\ roles[v.rol].activo
      /\ assertLastGlobalAdministrator(u, v.rol, v.activo, v.configurada)
  BY <1>1, <1>2, <1>4, <1>6 DEF GuardaAcceso, RolAsignable, Termina, IInv, TypeOK
<1>9. Avanza(u, c)
  BY <1>4, <1>5, <1>7 DEF Avanza
<1>10. Protege(u) => \/ c.rol = ADMINISTRADOR /\ c.activo /\ c.configurada
                     \/ \E w \in Usuarios \ {u} : Protege(w)
  <2>1. Protege(u) => c.activo /\ c.configurada
    BY <1>4, <1>7 DEF Protege, canCompleteFirstAccess
  <2>2. Protege(u) => v.rol = ADMINISTRADOR \/ \E w \in Usuarios \ {u} : Protege(w)
    BY <1>8 DEF assertLastGlobalAdministrator
  <2>3. QED
    BY <1>7, <2>1, <2>2
<1>11. \/ u \in tarde
       \/ /\ c.configurada <=> c.estado = "ACCEPTED"
          /\ c.estado = "DELIVERED" => <<u, c.clave>> \in correos
  BY <1>3, <1>4, <1>7 DEF IInv, InvitacionAlDia
<1>12. (c.configurada <=> c.vence = NoHay) /\ roles[c.rol] # NoHay /\ roles[c.rol].activo
  BY <1>3, <1>4, <1>7, <1>8
<1>13. QED
  BY <1>3, <1>7, <1>8, <1>9, <1>10, <1>11, <1>12, EscribeUsuario

\* An administrator deactivated leaves another one.
LEMMA GuardaEstadoMantiene ==
    ASSUME IInv, NEW p \in Procesos, GuardaEstado(p)
    PROVE  IInv'
<1>1. PICK u : u = proceso[p].de
  OBVIOUS
<1>2. PICK v : v = proceso[p].leido
  OBVIOUS
<1>3. /\ u \in Usuarios /\ Existe(u) /\ usuarios[u] \in Usuario
      /\ roles[usuarios[u].rol] # NoHay /\ roles[usuarios[u].rol].activo
      /\ usuarios[u].configurada <=> usuarios[u].vence = NoHay
      /\ v.activo \in BOOLEAN
  BY <1>1, <1>2, AtendidaCuenta DEF GuardaEstado, CuentaOK, Leido
<1>4. PICK a \in Usuario : a = usuarios[u]
  BY <1>3
<1>5. a.clave \in Nat /\ a.version \in Nat
  BY Numeros
<1>6. PICK c : c = [a EXCEPT !.activo = v.activo]
  OBVIOUS
<1>7. /\ c \in Usuario /\ c.activo = v.activo /\ c.clave = a.clave
      /\ c.version = a.version /\ c.configurada = a.configurada /\ c.vence = a.vence
      /\ c.estado = a.estado /\ c.rol = a.rol
  BY <1>3, <1>6 DEF Usuario
<1>8. /\ usuarios' = [usuarios EXCEPT ![u] = c] /\ roles' = roles
      /\ revokeSessions({u}) /\ proceso' = [proceso EXCEPT ![p] = NoHay]
      /\ tarde' = tarde /\ correos' = correos
      /\ sinAdmin' = sinAdmin /\ sinAdmin \in BOOLEAN
      /\ assertLastGlobalAdministrator(u, v.rol, v.activo, v.configurada)
  BY <1>1, <1>2, <1>4, <1>6 DEF GuardaEstado, Termina, IInv, TypeOK
<1>9. Avanza(u, c)
  BY <1>4, <1>5, <1>7 DEF Avanza
<1>10. Protege(u) => \/ c.rol = ADMINISTRADOR /\ c.activo /\ c.configurada
                     \/ \E w \in Usuarios \ {u} : Protege(w)
  <2>1. Protege(u) => c.rol = ADMINISTRADOR /\ c.configurada
    BY <1>4, <1>7 DEF Protege
  <2>2. Protege(u) => v.activo \/ \E w \in Usuarios \ {u} : Protege(w)
    BY <1>8 DEF assertLastGlobalAdministrator
  <2>3. QED
    BY <1>7, <2>1, <2>2
<1>11. \/ u \in tarde
       \/ /\ c.configurada <=> c.estado = "ACCEPTED"
          /\ c.estado = "DELIVERED" => <<u, c.clave>> \in correos
  BY <1>3, <1>4, <1>7 DEF IInv, InvitacionAlDia
<1>12. (c.configurada <=> c.vence = NoHay) /\ roles[c.rol] # NoHay /\ roles[c.rol].activo
  BY <1>3, <1>4, <1>7
<1>13. QED
  BY <1>3, <1>7, <1>8, <1>9, <1>10, <1>11, <1>12, EscribeUsuario

\* An administrator that gets a temporary password leaves another one.
LEMMA GuardaReinicioMantiene ==
    ASSUME IInv, NEW p \in Procesos, GuardaReinicio(p)
    PROVE  IInv'
<1>1. PICK u : u = proceso[p].de
  OBVIOUS
<1>2. PICK v : v = proceso[p].leido
  OBVIOUS
<1>3. /\ u \in Usuarios /\ Existe(u) /\ usuarios[u] \in Usuario
      /\ roles[usuarios[u].rol] # NoHay /\ roles[usuarios[u].rol].activo
  BY <1>1, AtendidaCuenta DEF GuardaReinicio
<1>4. PICK a \in Usuario : a = usuarios[u]
  BY <1>3
<1>5. a.clave \in Nat /\ a.version \in Nat
  BY Numeros
<1>6. PICK c \in Usuario : c = Reemitida(a)
  BY ReemitidaEs
<1>7. /\ c.clave = a.clave + 1 /\ c.version = a.version + 1
      /\ c.configurada = FALSE /\ c.vence = "futuro" /\ c.estado = "PENDING"
      /\ c.rol = a.rol
  BY <1>6, ReemitidaEs
<1>8. PICK w : w = [clave |-> c.clave, version |-> c.version, publico |-> FALSE]
  OBVIOUS
<1>9. PICK x : x = [paso |-> "correo", de |-> u, leido |-> w]
  OBVIOUS
<1>10. /\ usuarios' = [usuarios EXCEPT ![u] = c] /\ roles' = roles
       /\ revokeSessions({u}) /\ proceso' = [proceso EXCEPT ![p] = x]
       /\ tarde' = tarde /\ correos' = correos
       /\ sinAdmin' = sinAdmin /\ sinAdmin \in BOOLEAN
       /\ DOMAIN usuarios = Usuarios
       /\ assertLastGlobalAdministrator(u, v.rol, v.activo, FALSE)
  BY <1>1, <1>2, <1>4, <1>6, <1>8, <1>9 DEF GuardaReinicio, Invita, En, IInv, TypeOK
<1>11. ProcesoOK(x)'
  <2>1. usuarios'[u] = c
    BY <1>3, <1>10
  <2>2. QED
    BY <1>3, <1>7, <1>8, <1>9, <2>1, CorreoDe
<1>12. Avanza(u, c)
  BY <1>4, <1>5, <1>7 DEF Avanza
<1>13. Protege(u) => \E q \in Usuarios \ {u} : Protege(q)
  BY <1>10 DEF assertLastGlobalAdministrator
<1>14. (c.configurada <=> c.vence = NoHay) /\ roles[c.rol] # NoHay /\ roles[c.rol].activo
  BY <1>3, <1>4, <1>7, NoHayAparte
<1>15. QED
  BY <1>3, <1>7, <1>10, <1>11, <1>12, <1>13, <1>14, EscribeUsuario


-------------------------------------------------------------------------------
(* Administration of roles *)

\* A new role has no users.
LEMMA CreateRoleMantiene ==
    ASSUME IInv, NEW a \in Usuarios, NEW r \in Roles, NEW permisos \in Conjuntos,
           createRole(a, r, permisos)
    PROVE  IInv'
<1>1. PICK f : f = NuevoRol(permisos)
  OBVIOUS
<1>2. f \in Rol
  BY <1>1 DEF NuevoRol, Rol
<1>3. De(r) = {}
  <2>1. ASSUME NEW u \in Usuarios, Existe(u) PROVE usuarios[u].rol # r
    BY <2>1, RolActivo DEF createRole
  <2>2. QED
    BY <2>1 DEF De
<1>4. /\ roles' = [roles EXCEPT ![r] = f] /\ roles[r] = NoHay
      /\ sesiones' = sesiones /\ usuarios' = usuarios /\ proceso' = proceso
      /\ tarde' = tarde /\ correos' = correos /\ sinAdmin' = sinAdmin
  BY <1>1 DEF createRole
<1>5. QED
  BY <1>2, <1>3, <1>4, EscribeRol

\* A cloned role is a new role.
LEMMA CloneMantiene ==
    ASSUME IInv, NEW a \in Usuarios, NEW r \in Roles, NEW origen \in Roles,
           clone(a, r, origen)
    PROVE  IInv'
<1>1. roles[origen].permisos \in Conjuntos
  BY DEF clone, IInv, TypeOK, RolOK, Rol
<1>2. QED
  BY <1>1, CreateRoleMantiene DEF clone

\* The permissions of a role change with its version, and end its sessions.
LEMMA GuardaRolMantiene ==
    ASSUME IInv, NEW p \in Procesos, GuardaRol(p)
    PROVE  IInv'
<1>1. PICK r : r = proceso[p].de
  OBVIOUS
<1>2. PICK v : v = proceso[p].leido
  OBVIOUS
<1>3. /\ r \in Roles /\ roles[r] # NoHay /\ v.permisos \in Conjuntos
      /\ v.cambian <=> v.permisos # roles[r].permisos
  BY <1>1, <1>2, Atendida DEF GuardaRol, ProcesoOK, TrabajoOK
<1>4. PICK d \in Rol : d = roles[r]
  BY <1>3 DEF IInv, TypeOK, RolOK
<1>5. PICK f : f = [d EXCEPT !.permisos = v.permisos, !.version = @ + 1]
  OBVIOUS
<1> DEFINE n == d.version + 1
<1>6. n \in Nat \ {0} /\ n > d.version
  BY DEF Rol
<1>7. f = [d EXCEPT !.permisos = v.permisos, !.version = n]
  BY <1>5
<1> HIDE DEF n
<1>8. /\ f \in Rol /\ f.permisos = v.permisos /\ f.version > d.version
      /\ f.activo = d.activo
  BY <1>3, <1>6, <1>7 DEF Rol
<1>9. /\ roles' = [roles EXCEPT ![r] = f] /\ usuarios' = usuarios
      /\ proceso' = [proceso EXCEPT ![p] = NoHay]
      /\ tarde' = tarde /\ correos' = correos /\ sinAdmin' = sinAdmin
  BY <1>1, <1>2, <1>4, <1>5 DEF GuardaRol, Termina, IInv, TypeOK
<1>10. \/ revokeSessions(De(r))
       \/ sesiones' = sesiones /\ f.permisos = roles[r].permisos
  BY <1>1, <1>2, <1>3, <1>8 DEF GuardaRol
<1>11. De(r) # {} => f.activo
  BY <1>3, <1>4, <1>8 DEF IInv, RolAsignadoActivo
<1>12. AvanzaRol(r, f)
  BY <1>4, <1>8 DEF AvanzaRol
<1>13. QED
  BY <1>3, <1>8, <1>9, <1>10, <1>11, <1>12, EscribeRol

\* A role with users stays active.
LEMMA GuardaEstadoRolMantiene ==
    ASSUME IInv, NEW p \in Procesos, GuardaEstadoRol(p)
    PROVE  IInv'
<1>1. PICK r : r = proceso[p].de
  OBVIOUS
<1>2. PICK v : v = proceso[p].leido
  OBVIOUS
<1>3. r \in Roles /\ roles[r] # NoHay /\ v.activo \in BOOLEAN
  BY <1>1, <1>2, Atendida DEF GuardaEstadoRol, ProcesoOK, TrabajoOK
<1>4. PICK d \in Rol : d = roles[r]
  BY <1>3 DEF IInv, TypeOK, RolOK
<1>5. PICK f : f = [d EXCEPT !.activo = v.activo, !.version = @ + 1]
  OBVIOUS
<1> DEFINE n == d.version + 1
<1>6. n \in Nat \ {0} /\ n > d.version
  BY DEF Rol
<1>7. f = [d EXCEPT !.activo = v.activo, !.version = n]
  BY <1>5
<1> HIDE DEF n
<1>8. /\ f \in Rol /\ f.permisos = d.permisos /\ f.version > d.version
      /\ f.activo = v.activo
  BY <1>3, <1>6, <1>7 DEF Rol
<1>9. /\ roles' = [roles EXCEPT ![r] = f] /\ usuarios' = usuarios
      /\ proceso' = [proceso EXCEPT ![p] = NoHay] /\ sesiones' = sesiones
      /\ tarde' = tarde /\ correos' = correos /\ sinAdmin' = sinAdmin
      /\ ~ v.activo => De(r) = {}
  BY <1>1, <1>2, <1>4, <1>5
     DEF GuardaEstadoRol, luma_proteger_identidad_rol, Termina, IInv, TypeOK
<1>10. AvanzaRol(r, f)
  BY <1>4, <1>8 DEF AvanzaRol
<1>11. De(r) # {} => f.activo
  BY <1>8, <1>9
<1>12. QED
  BY <1>3, <1>4, <1>8, <1>9, <1>10, <1>11, EscribeRol

-------------------------------------------------------------------------------
(* The theorems *)

\* An organization begins with the invariant.
LEMMA IInvInicial == Init => IInv
<1>1. SUFFICES ASSUME Init PROVE IInv
  OBVIOUS
<1>2. PICK e \in Escenarios :
        /\ usuarios = e.usuarios /\ roles = e.roles
        /\ sesiones = [s \in Sesiones |->
              IF s > Len(e.sesiones) THEN NoHay
              ELSE LET c == e.usuarios[e.sesiones[s]]
                   IN  [usuario |-> e.sesiones[s], revocada |-> FALSE,
                        acceso |-> [clave |-> c.clave, rol |-> c.rol,
                                    permisos |-> e.roles[c.rol].permisos],
                        ocio |-> 0, tardia |-> FALSE]]
        /\ proceso = [p \in Procesos |-> NoHay]
        /\ correos = {<<u, usuarios[u].clave>> :
                         u \in {w \in Usuarios : Existe(w) /\ ~ usuarios[w].configurada}}
        /\ tarde = {} /\ sinAdmin = FALSE
  BY <1>1 DEF Init
<1>3. /\ usuarios \in [Usuarios -> Usuario \cup {NoHay}]
      /\ roles \in [Roles -> Rol \cup {NoHay}]
      /\ \A u \in Usuarios : Existe(u) => CuentaInicial(usuarios[u], roles)
      /\ \E u \in Usuarios :
            /\ Existe(u) /\ usuarios[u].rol = ADMINISTRADOR
            /\ usuarios[u].activo /\ usuarios[u].configurada
      /\ e.sesiones \in Seq({u \in Usuarios : Existe(u)})
  BY <1>2, EscenariosPosibles DEF Existe
<1>4. ASSUME NEW u \in Usuarios, Existe(u)
      PROVE  /\ usuarios[u] \in Usuario /\ usuarios[u].rol \in Roles
             /\ roles[usuarios[u].rol] # NoHay /\ roles[usuarios[u].rol].activo
             /\ roles[usuarios[u].rol] \in Rol
             /\ usuarios[u].configurada <=> usuarios[u].vence = NoHay
             /\ usuarios[u].configurada <=> usuarios[u].estado = "ACCEPTED"
  <2>1. usuarios[u] \in Usuario /\ usuarios[u].rol \in Roles
    BY <1>3, <1>4, Numeros DEF Existe
  <2>2. QED
    BY <1>3, <1>4, <2>1 DEF CuentaInicial
<1>5. ASSUME NEW s \in Sesiones, sesiones[s] # NoHay
      PROVE  SesionOK(sesiones[s]) /\ SesionAlDia(sesiones[s])
  <2> DEFINE c == e.usuarios[e.sesiones[s]]
             fila == [usuario |-> e.sesiones[s], revocada |-> FALSE,
                      acceso |-> [clave |-> c.clave, rol |-> c.rol,
                                  permisos |-> e.roles[c.rol].permisos],
                      ocio |-> 0, tardia |-> FALSE]
  <2>1. sesiones[s] = IF s > Len(e.sesiones) THEN NoHay ELSE fila
    BY <1>2
  <2>2. Len(e.sesiones) \in Nat /\ s \in Nat \ {0}
    BY <1>3, NumerosDeSesion
  <2>3. s \in 1..Len(e.sesiones) /\ sesiones[s] = fila
    <3> HIDE DEF fila
    <3>1. QED
      BY <1>5, <2>1, <2>2
  <2>4. PICK u : u = e.sesiones[s]
    OBVIOUS
  <2>5. u \in Usuarios /\ Existe(u)
    BY <1>3, <2>3, <2>4
  <2>6. PICK y : y = sesiones[s]
    OBVIOUS
  <2>7. y = [usuario |-> u, revocada |-> FALSE, acceso |-> Acceso(usuarios[u]),
             ocio |-> 0, tardia |-> FALSE]
    BY <1>2, <2>3, <2>4, <2>6 DEF Acceso
  <2> HIDE DEF fila
  <2>8. Acceso(usuarios[u]) \in [clave : Nat \ {0}, rol : Roles, permisos : Conjuntos]
    BY <1>4, <2>5 DEF Acceso, Usuario, Rol
  <2>9. y \in Sesion
    BY <2>5, <2>7, <2>8 DEF Sesion
  <2>10. QED
    BY <2>5, <2>6, <2>7, <2>9 DEF SesionOK, SesionAlDia
<1>6. TypeOK
  <2>1. \A u \in Usuarios : Existe(u) => UsuarioOK(usuarios[u])
    BY <1>4 DEF UsuarioOK
  <2>2. \A r \in Roles : roles[r] # NoHay => RolOK(roles[r])
    BY <1>3 DEF RolOK
  <2>3. QED
    BY <1>2, <1>3, <1>5, <2>1, <2>2 DEF TypeOK, Libre
<1>7. ProcesosOK
  BY <1>2 DEF ProcesosOK, EnVuelo
<1>8. RolAsignadoActivo
  BY <1>4 DEF RolAsignadoActivo, De
<1>9. QuedaAdministrador
  BY <1>3, <1>4 DEF QuedaAdministrador, Protege, canCompleteFirstAccess
<1>10. SesionesAlDia
  BY <1>5 DEF SesionesAlDia, Abiertas
<1>11. InvitacionAlDia
  BY <1>2, <1>4 DEF InvitacionAlDia
<1>12. QED
  BY <1>6, <1>7, <1>8, <1>9, <1>10, <1>11 DEF IInv

\* Every step keeps it.
LEMMA IInvPaso == IInv /\ [Next]_vars => IInv'
<1>1. SUFFICES ASSUME IInv, [Next]_vars PROVE IInv'
  OBVIOUS
<1>2. ASSUME NEW p \in Procesos, NEW u \in Usuarios, login(p, u) PROVE IInv'
  BY <1>1, <1>2, LoginMantiene
<1>3. ASSUME NEW p \in Procesos, NEW s \in Sesiones, CreaSesion(p, s) PROVE IInv'
  BY <1>1, <1>3, CreaSesionMantiene
<1>4. ASSUME NEW s \in Sesiones, validate(s) \/ logout(s) \/ Reposo(s) PROVE IInv'
  BY <1>1, <1>4, SesionMantiene
<1>5. ASSUME NEW u \in Usuarios, Vence(u) PROVE IInv'
  BY <1>1, <1>5, VenceMantiene
<1>6. ASSUME NEW p \in Procesos, NEW s \in Sesiones, changePassword(p, s) PROVE IInv'
  BY <1>1, <1>6, ChangePasswordMantiene
<1>7. ASSUME NEW p \in Procesos, NEW u \in Usuarios, changeTemporaryPassword(p, u)
      PROVE  IInv'
  BY <1>1, <1>7, ChangeTemporaryPasswordMantiene
<1>8. ASSUME NEW p \in Procesos, NEW u \in Usuarios, requestPasswordReset(p, u)
      PROVE  IInv'
  BY <1>1, <1>8, RequestPasswordResetMantiene
<1>9. ASSUME NEW p \in Procesos,
             \/ CambiaClave(p) \/ MarcaVencida(p) \/ Configura(p)
             \/ ReemitePublica(p) \/ RevocaPublica(p) \/ EnviaCorreo(p)
             \/ RegistraEnvio(p) \/ recoverAbandonedInvitation(p)
      PROVE  IInv'
  BY <1>1, <1>9, CambiaClaveMantiene, MarcaVencidaMantiene, ConfiguraMantiene,
     ReemitePublicaMantiene, RevocaPublicaMantiene, EnviaCorreoMantiene,
     RegistraEnvioMantiene, RecoverMantiene
<1>10. ASSUME NEW p \in Procesos,
              \/ GuardaAcceso(p) \/ GuardaEstado(p) \/ GuardaReinicio(p)
              \/ GuardaRol(p) \/ GuardaEstadoRol(p) \/ Caida(p)
       PROVE  IInv'
  BY <1>1, <1>10, GuardaAccesoMantiene, GuardaEstadoMantiene, GuardaReinicioMantiene,
     GuardaRolMantiene, GuardaEstadoRolMantiene, CaidaMantiene
<1>11. ASSUME NEW p \in Procesos, NEW a \in Usuarios, NEW u \in Usuarios,
              NEW r \in Roles, NEW g \in BOOLEAN,
              create(p, a, u, r, g) \/ Repite(p, a, u, r, g)
       PROVE  IInv'
  BY <1>1, <1>11, CreateMantiene, RepiteMantiene
<1>12. ASSUME NEW p \in Procesos, NEW a \in Usuarios, NEW u \in Usuarios,
              NEW r \in Roles \cup {NoHay}, NEW g \in BOOLEAN \cup {NoHay},
              NEW s \in BOOLEAN, updateAccess(p, a, u, r, g, s)
       PROVE  IInv'
  BY <1>1, <1>12, UpdateAccessMantiene
<1>13. ASSUME NEW p \in Procesos, NEW a \in Usuarios, NEW u \in Usuarios,
              NEW b \in BOOLEAN, updateStatus(p, a, u, b)
       PROVE  IInv'
  BY <1>1, <1>13, UpdateStatusMantiene
<1>14. ASSUME NEW p \in Procesos, NEW a \in Usuarios, NEW u \in Usuarios,
              resetTemporaryPassword(p, a, u)
       PROVE  IInv'
  BY <1>1, <1>14, ResetTemporaryPasswordMantiene
<1>15. ASSUME NEW a \in Usuarios, NEW r \in Roles, NEW o \in Roles, clone(a, r, o)
       PROVE  IInv'
  BY <1>1, <1>15, CloneMantiene
<1>16. ASSUME NEW a \in Usuarios, NEW r \in Roles, NEW c \in Conjuntos, createRole(a, r, c)
       PROVE  IInv'
  BY <1>1, <1>16, CreateRoleMantiene
<1>17. ASSUME NEW p \in Procesos, NEW a \in Usuarios, NEW r \in Roles,
              NEW c \in Conjuntos \cup {NoHay}, updateRole(p, a, r, c)
       PROVE  IInv'
  BY <1>1, <1>17, UpdateRoleMantiene
<1>18. ASSUME NEW p \in Procesos, NEW a \in Usuarios, NEW r \in Roles,
              NEW b \in BOOLEAN, updateRoleStatus(p, a, r, b)
       PROVE  IInv'
  BY <1>1, <1>18, UpdateRoleStatusMantiene
<1>19. CASE UNCHANGED vars
  BY <1>1, <1>19
     DEF vars, IInv, TypeOK, ProcesosOK, EnVuelo, ProcesoOK, TrabajoOK, CuentaOK,
         ClaveOK, CorreoOK, ResultadoOK, Espera, EnEspera, RolAsignadoActivo, De,
         QuedaAdministrador, Protege, canCompleteFirstAccess, canSignIn,
         SesionesAlDia, Abiertas, SesionAlDia, Acceso, InvitacionAlDia, UsuarioOK,
         RolOK, SesionOK, Existe, Libre
<1>20. QED
  BY <1>1, <1>2, <1>3, <1>4, <1>5, <1>6, <1>7, <1>8, <1>9, <1>10, <1>11, <1>12,
     <1>13, <1>14, <1>15, <1>16, <1>17, <1>18, <1>19 DEF Next

\* In every state what each request in flight read compares with the rows as
\* IInv says, whatever requests interleave, stop or have their mails lost.
THEOREM Inductive == Spec => []IInv
<1>1. Init => IInv
  BY IInvInicial
<1>2. IInv /\ [Next]_vars => IInv'
  BY IInvPaso
<1>3. QED
  BY <1>1, <1>2, PTL DEF Spec

\* The rows have the shape of their tables, an account has a role, and a
\* password has an expiry if and only if it is temporary.
THEOREM TypeCorrect == Spec => []TypeOK
<1>1. IInv => TypeOK
  BY DEF IInv
<1>2. QED
  BY <1>1, Inductive, PTL

\* However administrators and role changes interleave, no account keeps a role
\* that was deactivated, and the organization keeps an administrator, unless
\* one lost the password outside the lock.
THEOREM AdministrableSiempre == Spec => []Administrable
<1>1. IInv => Administrable
  BY DEF IInv, Administrable
<1>2. QED
  BY <1>1, Inductive, PTL

\* A session that JwtStrategy accepts was opened with the password, role and
\* permissions its user has now, unless its login was in flight at the change.
THEOREM SesionCorrecta == Spec => []SesionDeSuClave
<1>1. IInv => SesionDeSuClave
  <2>1. SUFFICES ASSUME IInv, NEW s \in Sesiones, Aceptada(s), ~ sesiones[s].tardia
                 PROVE  sesiones[s].acceso = Acceso(usuarios[sesiones[s].usuario])
    BY DEF SesionDeSuClave
  <2>2. SesionAlDia(sesiones[s])
    BY <2>1 DEF IInv, SesionesAlDia, Abiertas, Aceptada
  <2>3. QED
    BY <2>1, <2>2 DEF SesionAlDia, Aceptada
<1>2. QED
  BY <1>1, Inductive, PTL

\* However mails, resets and first accesses cross, the state of an invitation
\* says how its password got there, unless an answer out of date wrote over it.
THEOREM InvitacionCorrecta == Spec => []InvitacionAlDia
<1>1. IInv => InvitacionAlDia
  BY DEF IInv
<1>2. QED
  BY <1>1, Inductive, PTL

===============================================================================
