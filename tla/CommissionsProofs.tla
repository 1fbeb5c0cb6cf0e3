--------------------------- MODULE CommissionsProofs ---------------------------
(***************************************************************************)
(* Theorems about Commissions, for any number of months, branches, sales,  *)
(* policies and payment requests, and for months of any length.            *)
(*                                                                         *)
(* The settlements agree with the calendar because of what an agreement in *)
(* flight has read: under the shared lock the months do not change, and    *)
(* what it counted stays in its month.  What is paid stays because the     *)
(* table holds a payment if and only if it is in the state of one, and a   *)
(* request for payment holds the amount of the version it read.  IInv adds *)
(* these facts.                                                            *)
(***************************************************************************)
EXTENDS Commissions, Sums

-------------------------------------------------------------------------------

\* An agreement in flight.
Acuerdo == [nueva : BOOLEAN, desde : Int, hasta : Int, ops : SUBSET Operaciones,
            politica : Politicas \cup {NoHay}, importe : Nat]

Pago == [fase : {"no", "pedido", "leido", "si", "rechazado"},
         llave : Llaves \cup {NoHay}, version : Nat, importe : Nat]

Venta == [dia : Int \cup {NoHay}, estado : {"BORRADOR", "APROBADA", "CANCELADA"}]

\* A cut falls on one of the days its month allows.
CorteValido(cs, m) == cs[m] # NoHay => cs[m] \in cutBounds(m)

CortesValidos(cs) == \A m \in Meses : CorteValido(cs, m)

Largo(cs, m) == cs[m] # NoHay => rangeDays(range(cs, m)) >= MinDias

\* The rows and the requests have their shape.
Tipos ==
    /\ CortesValidos(cortes) /\ \A m \in Meses : Largo(cortes, m)
    /\ cortes \in [Meses -> Int \cup {NoHay}]
    /\ ventas \in [Operaciones -> Venta]
    /\ movidas \subseteq Operaciones
    /\ politicas \in [Politicas -> Politica \cup {NoHay}]
    /\ config # NoHay => config \in Configuracion /\ ConMonto(config, politicas)
    /\ liq \in [Llaves -> Fila \cup {NoHay}]
    /\ gastos \in [Llaves -> Seq(Nat)]
    /\ acuerdo \in [Llaves -> Acuerdo \cup {NoHay}]
    /\ pago \in [Pedidos -> Pago]

\* The sales of a settlement are of its branch and, unless they were corrected
\* afterwards, of the days of its month.
Cuenta(k, ops) ==
    \A o \in ops :
        /\ ~ DeGerente(k) => SucursalDe[o] = k[1]
        /\ o \notin movidas =>
              /\ ventas[o].dia # NoHay
              /\ range(cortes, k[2]).from <= ventas[o].dia
              /\ ventas[o].dia <= range(cortes, k[2]).to

\* A settlement is of its month as it is today, is paid if and only if there is
\* a payment, and only the payment of a seller is an expense.
Liquidada(k) ==
    /\ liq[k] # NoHay =>
          /\ liq[k].desde = range(cortes, k[2]).from
          /\ liq[k].hasta = range(cortes, k[2]).to
          /\ Cuenta(k, liq[k].ops)
          /\ PagoCompleto(liq[k])
    /\ Len(gastos[k]) =
          IF liq[k] # NoHay /\ ~ DeGerente(k) /\ liq[k].estado = "PAGADA"
          THEN 1 ELSE 0

\* An agreement in flight knows if the settlement exists, and counted the sales
\* of the month as it still is.
EnVuelo(k) ==
    acuerdo[k] # NoHay =>
        /\ acuerdo[k].nueva <=> liq[k] = NoHay
        /\ acuerdo[k].desde = range(cortes, k[2]).from
        /\ acuerdo[k].hasta = range(cortes, k[2]).to
        /\ Cuenta(k, acuerdo[k].ops)

\* A request for payment is of a settlement that exists; if the version it read
\* is the present one, so is the amount; what a payment of a manager has checked
\* still holds.
Visto(p) ==
    pago[p].fase # "no" =>
        /\ pago[p].llave \in Llaves
        /\ liq[pago[p].llave] # NoHay
        /\ pago[p].version <= liq[pago[p].llave].version
        /\ pago[p].version = liq[pago[p].llave].version =>
              pago[p].importe = liq[pago[p].llave].importe
        /\ pago[p].fase = "leido" =>
              DeGerente(pago[p].llave) /\ liq[pago[p].llave].estado = "ACORDADA"

\* One payment of a manager at a time, by the lock of its key.
UnLeido ==
    \A p, q \in Pedidos :
        (p # q /\ pago[p].fase = "leido" /\ pago[q].fase = "leido")
            => pago[p].llave # pago[q].llave

IInv ==
    /\ Tipos
    /\ UnaPoliticaPorDia
    /\ \A k \in Llaves : Liquidada(k) /\ EnVuelo(k)
    /\ \A p \in Pedidos : Visto(p)
    /\ UnLeido

-------------------------------------------------------------------------------
(* The calendar *)

\* The first days of two consecutive months are a month apart.
LEMMA MesSiguiente ==
    ASSUME NEW m \in Int
    PROVE  /\ PrimerDia(m) \in Int
           /\ PrimerDia(m + 1) = PrimerDia(m) + DiasMes
           /\ calendarMonthRange(m).to = PrimerDia(m + 1) - 1
<1>1. DiasMes \in Int
  BY Calendario
<1>2. QED
  BY <1>1 DEF PrimerDia, calendarMonthRange

\* The quotient of a number between two multiples.
LEMMA Cociente ==
    ASSUME NEW q \in Int, NEW x \in Int,
           q * DiasMes <= x, x < (q + 1) * DiasMes
    PROVE  x \div DiasMes = q
<1> DEFINE d == x \div DiasMes
           r == x % DiasMes
<1>1. DiasMes \in Nat \ {0}
  BY Calendario
<1>2. d \in Int /\ r \in Int /\ 0 <= r /\ r < DiasMes /\ x = DiasMes * d + r
  BY <1>1
<1> HIDE DEF d, r
<1>3. DiasMes * d < (q + 1) * DiasMes /\ q * DiasMes < (d + 1) * DiasMes
  <2>1. DiasMes * d <= x
    BY <1>1, <1>2
  <2>2. x < DiasMes * d + DiasMes
    BY <1>1, <1>2
  <2>3. DiasMes * d + DiasMes = (d + 1) * DiasMes
    BY <1>1, <1>2
  <2>4. /\ DiasMes * d \in Int /\ q * DiasMes \in Int
        /\ (q + 1) * DiasMes \in Int /\ (d + 1) * DiasMes \in Int
    BY <1>1, <1>2
  <2>5. QED
    BY <2>1, <2>2, <2>3, <2>4
<1>4. \A a, b \in Int : a * DiasMes < b * DiasMes => a < b
  BY <1>1
<1>5. d < q + 1 /\ q < d + 1
  <2>1. DiasMes * d = d * DiasMes /\ q + 1 \in Int /\ d + 1 \in Int
    BY <1>1, <1>2
  <2>2. QED
    BY <1>2, <1>3, <1>4, <2>1
<1>6. QED
  BY <1>2, <1>5 DEF d

\* The month a day is in.
LEMMA MesDe ==
    ASSUME NEW m \in Int, NEW d \in Int, PrimerDia(m) <= d, d < PrimerDia(m + 1)
    PROVE  periodKeyOf(d) = m
<1>1. DiasMes \in Int
  BY Calendario
<1>2. (m - 1) * DiasMes <= d - 1 /\ d - 1 < (m - 1 + 1) * DiasMes
  BY <1>1 DEF PrimerDia
<1>3. (d - 1) \div DiasMes = m - 1
  BY <1>2, Cociente
<1>4. QED
  BY <1>3 DEF periodKeyOf

\* Where a month may end, with a cut or without.
LEMMA FinDeMes ==
    ASSUME NEW cs, CortesValidos(cs), NEW m \in Int
    PROVE  /\ endOf(cs, m) \in Int
           /\ PrimerDia(m) + Medio <= endOf(cs, m)
           /\ endOf(cs, m) < PrimerDia(m + 1) + Medio
<1>1. /\ DiasMes \in Int /\ Medio \in Int /\ 0 < Medio /\ Medio < DiasMes
  BY Calendario
<1>2. CASE m \in Meses /\ cs[m] # NoHay
  <2>1. cs[m] \in (PrimerDia(m) + Medio) .. (PrimerDia(m + 1) + Medio - 1)
    BY <1>2 DEF CortesValidos, CorteValido, cutBounds
  <2>2. PrimerDia(m) \in Int /\ PrimerDia(m + 1) \in Int
    BY MesSiguiente
  <2>3. QED
    BY <1>1, <1>2, <2>1, <2>2 DEF endOf
<1>3. CASE ~ (m \in Meses /\ cs[m] # NoHay)
  <2>1. endOf(cs, m) = PrimerDia(m + 1) - 1
    BY <1>3, MesSiguiente DEF endOf
  <2>2. PrimerDia(m) \in Int /\ PrimerDia(m + 1) = PrimerDia(m) + DiasMes
    BY MesSiguiente
  <2>3. QED
    BY <1>1, <2>1, <2>2
<1>4. QED
  BY <1>2, <1>3

\* Months have days, and each one starts after the one before.
LEMMA MesConDias ==
    ASSUME NEW cs, CortesValidos(cs), NEW m \in Int
    PROVE  /\ range(cs, m).from \in Int /\ range(cs, m).to \in Int
           /\ range(cs, m).from <= range(cs, m).to
           /\ range(cs, m + 1).from = range(cs, m).to + 1
           /\ PrimerDia(m) <= range(cs, m).from + DiasMes - Medio - 1
           /\ range(cs, m).to < PrimerDia(m + 1) + Medio
<1>1. /\ endOf(cs, m) \in Int /\ endOf(cs, m - 1) \in Int
      /\ PrimerDia(m) + Medio <= endOf(cs, m)
      /\ endOf(cs, m) < PrimerDia(m + 1) + Medio
      /\ PrimerDia(m - 1) + Medio <= endOf(cs, m - 1)
      /\ endOf(cs, m - 1) < PrimerDia(m - 1 + 1) + Medio
  BY FinDeMes
<1>2. /\ m - 1 + 1 = m /\ m + 1 - 1 = m
      /\ PrimerDia(m) \in Int /\ PrimerDia(m - 1) \in Int
      /\ PrimerDia(m) = PrimerDia(m - 1) + DiasMes
  BY MesSiguiente
<1>3. Medio \in Int /\ DiasMes \in Int
  BY Calendario
<1>4. QED
  BY <1>1, <1>2, <1>3 DEF range

\* A range that is stored is that of its month.
LEMMA MesDelRango ==
    ASSUME NEW cs, CortesValidos(cs), NEW m \in Int
    PROVE  periodOfRange(range(cs, m).to) = m
<1>1. /\ endOf(cs, m) \in Int
      /\ PrimerDia(m) + Medio <= endOf(cs, m)
      /\ endOf(cs, m) < PrimerDia(m + 1) + Medio
  BY FinDeMes
<1>2. Medio \in Int /\ PrimerDia(m) \in Int /\ PrimerDia(m + 1) \in Int
  BY Calendario, MesSiguiente
<1>3. periodKeyOf(endOf(cs, m) - Medio) = m
  BY <1>1, <1>2, MesDe
<1>4. QED
  BY <1>3 DEF periodOfRange, range

\* A day of a month is of that month only, wherever the cuts fall.
LEMMA DiaDeSuMes ==
    ASSUME NEW cs, CortesValidos(cs), NEW m \in Int, NEW d \in Int,
           range(cs, m).from <= d, d <= range(cs, m).to
    PROVE  periodOf(cs, d) = m
<1>1. /\ Medio \in Int /\ DiasMes \in Int /\ 0 < Medio /\ Medio < DiasMes
  BY Calendario
<1>2. /\ PrimerDia(m) \in Int /\ PrimerDia(m - 1) \in Int
      /\ PrimerDia(m + 1) \in Int /\ PrimerDia(m + 2) \in Int
      /\ PrimerDia(m) = PrimerDia(m - 1) + DiasMes
      /\ PrimerDia(m + 1) = PrimerDia(m) + DiasMes
      /\ PrimerDia(m + 2) = PrimerDia(m + 1) + DiasMes
  <2>1. m - 1 + 1 = m /\ m + 1 + 1 = m + 2 /\ m - 1 \in Int /\ m + 1 \in Int
    OBVIOUS
  <2>2. PrimerDia(m) \in Int /\ PrimerDia(m + 1) = PrimerDia(m) + DiasMes
    BY MesSiguiente
  <2>3. PrimerDia(m - 1) \in Int /\ PrimerDia(m) = PrimerDia(m - 1) + DiasMes
    BY <2>1, MesSiguiente
  <2>4. PrimerDia(m + 1) \in Int /\ PrimerDia(m + 2) = PrimerDia(m + 1) + DiasMes
    BY <2>1, MesSiguiente
  <2>5. PrimerDia(m + 2) \in Int
    BY <1>1, <2>4
  <2>6. QED
    BY <2>2, <2>3, <2>4, <2>5
<1>3. /\ range(cs, m).from \in Int /\ range(cs, m).to \in Int
      /\ range(cs, m + 1).from = range(cs, m).to + 1
      /\ PrimerDia(m) <= range(cs, m).from + DiasMes - Medio - 1
      /\ range(cs, m).to < PrimerDia(m + 1) + Medio
  BY MesConDias
<1>4. CASE PrimerDia(m) <= d /\ d < PrimerDia(m + 1)
  <2>1. periodKeyOf(d) = m
    BY <1>4, MesDe
  <2>2. QED
    BY <1>3, <2>1 DEF periodOf
<1>5. CASE d >= PrimerDia(m + 1)
  <2>1. d < PrimerDia(m + 2)
    BY <1>1, <1>2, <1>3
  <2>2. periodKeyOf(d) = m + 1
    <3>1. m + 1 + 1 = m + 2 /\ m + 1 \in Int
      OBVIOUS
    <3>2. QED
      BY <1>5, <2>1, <3>1, MesDe
  <2>3. d < range(cs, m + 1).from
    BY <1>3
  <2>4. QED
    BY <2>2, <2>3 DEF periodOf
<1>6. CASE d < PrimerDia(m)
  <2>1. PrimerDia(m - 1) <= d
    BY <1>1, <1>2, <1>3
  <2>2. periodKeyOf(d) = m - 1
    <3>1. m - 1 + 1 = m /\ m - 1 \in Int
      OBVIOUS
    <3>2. QED
      BY <1>6, <2>1, <3>1, MesDe
  <2>3. /\ range(cs, m - 1).from \in Int /\ range(cs, m - 1).to \in Int
        /\ range(cs, m - 1).from <= range(cs, m - 1).to
        /\ range(cs, m).from = range(cs, m - 1).to + 1
    <3>1. m - 1 + 1 = m /\ m - 1 \in Int
      OBVIOUS
    <3>2. QED
      BY <3>1, MesConDias
  <2>4. d > range(cs, m - 1).to /\ ~ (d < range(cs, m - 1).from)
    BY <1>3, <2>3
  <2>5. QED
    BY <2>2, <2>4 DEF periodOf
<1>7. QED
  BY <1>2, <1>4, <1>5, <1>6

-------------------------------------------------------------------------------
(* Policies and configurations *)

\* Nothing of the settlements changes with the policies.
LEMMA ConPoliticas ==
    ASSUME IInv, UNCHANGED <<cortes, ventas, movidas, config, liq, gastos, acuerdo, pago>>,
           politicas' \in [Politicas -> Politica \cup {NoHay}],
           SinSolape(politicas'),
           config # NoHay => ConMonto(config, politicas')
    PROVE  IInv'
<1>1. Tipos'
  BY DEF IInv, Tipos, CortesValidos, CorteValido, Largo
<1>2. \A k \in Llaves : Liquidada(k)' /\ EnVuelo(k)'
  BY DEF IInv, Liquidada, EnVuelo, Cuenta
<1>3. (\A p \in Pedidos : Visto(p)') /\ UnLeido'
  BY DEF IInv, Visto, UnLeido
<1>4. QED
  BY <1>1, <1>2, <1>3 DEF IInv, UnaPoliticaPorDia

\* The policies a request may write.
LEMMA PedidaEsPolitica == PoliticasPedidas \subseteq Politica
  BY Entradas, Calendario, FilasPosibles DEF PoliticasPedidas, Politica

\* Saving a policy closes the versions it replaces before it takes their days.
LEMMA GuardaPoliticaMantiene ==
    ASSUME IInv, NEW id \in Politicas, NEW f \in Politica, NEW ambito,
           GuardaPolitica(id, f, ambito)
    PROVE  IInv'
<1> DEFINE ps == IF f.estado = "ACTIVA" THEN closePreviousPolicies(id, f) ELSE politicas
<1>1. /\ politicas \in [Politicas -> Politica \cup {NoHay}]
      /\ SinSolape(politicas)
      /\ config # NoHay => ConMonto(config, politicas)
  BY DEF IInv, Tipos, UnaPoliticaPorDia
<1>2. /\ politicas' = [ps EXCEPT ![id] = f]
      /\ f.estado = "ACTIVA" => \A p \in Previas(id, f) : politicas[p].desde <= f.desde
      /\ UNCHANGED <<cortes, ventas, movidas, config, liq, gastos, acuerdo, pago>>
  BY DEF GuardaPolitica
<1>3. f \in Politica /\ f # NoHay
  BY FilasPosibles
<1>4. \A p \in Politicas : p \in Previas(id, f) =>
          politicas[p] \in Politica /\ p # id
  BY <1>1 DEF Previas, Rigen
\* What closing a version leaves.
<1>5. ASSUME NEW p \in Politicas \ {id}
      PROVE  \/ ps[p] = politicas[p] /\ (p \in Previas(id, f) => f.estado # "ACTIVA")
             \/ /\ p \in Previas(id, f) /\ politicas[p] \in Politica
                /\ ps[p] \in Politica /\ f.estado = "ACTIVA"
                /\ ps[p].estado = "INACTIVA"
             \/ /\ p \in Previas(id, f) /\ politicas[p] \in Politica
                /\ ps[p] \in Politica /\ f.estado = "ACTIVA"
                /\ ps[p].ambito = politicas[p].ambito
                /\ ps[p].desde = politicas[p].desde
                /\ ps[p].hasta = f.desde - 1
                /\ politicas[p].desde < f.desde
  <2>1. CASE p \notin Previas(id, f) \/ f.estado # "ACTIVA"
    BY <1>1, <2>1 DEF closePreviousPolicies
  <2>2. CASE p \in Previas(id, f) /\ f.estado = "ACTIVA"
    <3>1. /\ politicas[p] \in Politica
          /\ politicas[p].desde <= f.desde
      BY <1>2, <1>4, <2>2
    <3>2. ps[p] = IF politicas[p].desde = f.desde
                  THEN [politicas[p] EXCEPT !.estado = "INACTIVA"]
                  ELSE [politicas[p] EXCEPT !.hasta = f.desde - 1]
      BY <2>2 DEF closePreviousPolicies
    <3>3. politicas[p].desde \in Nat /\ f.desde \in Nat
      BY <1>3, <3>1 DEF Politica
    <3> DEFINE h == f.desde - 1
    <3>4. politicas[p].desde # f.desde => h \in Nat
      BY <3>1, <3>3
    <3>5. CASE politicas[p].desde = f.desde
      BY <2>2, <3>1, <3>2, <3>5 DEF Politica
    <3>6. CASE politicas[p].desde # f.desde
      <4>1. h \in Nat /\ politicas[p].desde < f.desde
        BY <3>1, <3>3, <3>4, <3>6
      <4>2. ps[p] = [politicas[p] EXCEPT !.hasta = h]
        BY <3>2, <3>6
      <4> HIDE DEF h, ps
      <4>3. /\ ps[p] \in Politica /\ ps[p].hasta = h
            /\ ps[p].ambito = politicas[p].ambito
            /\ ps[p].desde = politicas[p].desde
        BY <3>1, <4>1, <4>2 DEF Politica
      <4>4. QED
        BY <2>2, <3>1, <4>1, <4>3 DEF h
    <3>7. QED
      BY <3>5, <3>6
  <2>3. QED
    BY <2>1, <2>2
<1>6. \A p \in Politicas : politicas'[p] = IF p = id THEN f ELSE ps[p]
  <2>1. DOMAIN ps = Politicas
    BY <1>1 DEF closePreviousPolicies
  <2>2. QED
    BY <1>2, <2>1
<1>7. DOMAIN politicas' = Politicas /\ politicas' = [p \in Politicas |-> politicas'[p]]
  <2>1. ps = [p \in Politicas |-> ps[p]]
    BY <1>1 DEF closePreviousPolicies
  <2>2. QED
    BY <1>2, <2>1
<1> HIDE DEF ps
<1>8. politicas' \in [Politicas -> Politica \cup {NoHay}]
  <2>1. \A p \in Politicas : politicas'[p] \in Politica \cup {NoHay}
    BY <1>1, <1>3, <1>5, <1>6
  <2>2. QED
    BY <1>7, <2>1
<1>9. \A p \in Politicas : politicas[p] # NoHay => politicas'[p] # NoHay
  BY <1>3, <1>5, <1>6, FilasPosibles
\* The new version has its days for itself.
<1>10. ASSUME NEW p \in Politicas \ {id}, politicas'[p] # NoHay, f.estado = "ACTIVA",
              politicas'[p].estado = "ACTIVA", politicas'[p].ambito = f.ambito
       PROVE  ~ Solapan(politicas'[p], f) /\ ~ Solapan(f, politicas'[p])
  <2>1. CASE p \in Previas(id, f)
    <3>1. politicas'[p].hasta = f.desde - 1 /\ f.desde \in Nat
      BY <1>3, <1>5, <1>6, <1>10, <2>1 DEF Politica
    <3>2. QED
      BY <3>1 DEF Solapan
  <2>2. CASE p \notin Previas(id, f)
    <3>1. politicas'[p] = politicas[p]
      BY <1>5, <1>6, <2>2
    <3>2. ~ Solapan(politicas[p], f)
      BY <1>10, <2>2, <3>1 DEF Previas, Rigen
    <3>3. QED
      BY <3>1, <3>2 DEF Solapan
  <2>3. QED
    BY <2>1, <2>2
\* The others only lose days.
<1>11. ASSUME NEW p \in Politicas \ {id}, politicas'[p] # NoHay,
              politicas'[p].estado = "ACTIVA"
       PROVE  /\ politicas[p] # NoHay /\ politicas[p].estado = "ACTIVA"
              /\ politicas[p] \in Politica /\ politicas'[p] \in Politica
              /\ politicas'[p].ambito = politicas[p].ambito
              /\ politicas'[p].desde = politicas[p].desde
              /\ politicas'[p].hasta <= politicas[p].hasta
  <2>1. CASE politicas'[p] = politicas[p]
    BY <1>1, <1>11, <2>1 DEF Politica
  <2>2. CASE politicas'[p] # politicas[p]
    <3>1. /\ p \in Previas(id, f) /\ politicas[p] \in Politica /\ politicas'[p] \in Politica
          /\ politicas'[p].ambito = politicas[p].ambito
          /\ politicas'[p].desde = politicas[p].desde
          /\ politicas'[p].hasta = f.desde - 1
      BY <1>5, <1>6, <1>11, <2>2
    <3>2. politicas[p] # NoHay /\ politicas[p].estado = "ACTIVA" /\ Solapan(politicas[p], f)
      BY <3>1 DEF Previas, Rigen
    <3>3. f.desde - 1 <= politicas[p].hasta
      BY <1>3, <3>1, <3>2 DEF Solapan, Politica
    <3>4. QED
      BY <3>1, <3>2, <3>3
  <2>3. QED
    BY <2>1, <2>2
<1>12. SinSolape(politicas')
  <2> SUFFICES ASSUME NEW p \in Politicas, NEW q \in Politicas, p # q,
                      politicas'[p] # NoHay, politicas'[q] # NoHay,
                      politicas'[p].estado = "ACTIVA", politicas'[q].estado = "ACTIVA",
                      politicas'[p].ambito = politicas'[q].ambito
               PROVE  ~ Solapan(politicas'[p], politicas'[q])
    BY DEF SinSolape
  <2>1. CASE p = id
    BY <1>6, <1>10, <2>1
  <2>2. CASE q = id
    BY <1>6, <1>10, <2>2
  <2>3. CASE p # id /\ q # id
    <3>1. /\ politicas[p] # NoHay /\ politicas[p].estado = "ACTIVA"
          /\ politicas[p] \in Politica /\ politicas'[p] \in Politica
          /\ politicas'[p].ambito = politicas[p].ambito
          /\ politicas'[p].desde = politicas[p].desde
          /\ politicas'[p].hasta <= politicas[p].hasta
      BY <1>11, <2>3
    <3>2. /\ politicas[q] # NoHay /\ politicas[q].estado = "ACTIVA"
          /\ politicas[q] \in Politica /\ politicas'[q] \in Politica
          /\ politicas'[q].ambito = politicas[q].ambito
          /\ politicas'[q].desde = politicas[q].desde
          /\ politicas'[q].hasta <= politicas[q].hasta
      BY <1>11, <2>3
    <3>3. ~ Solapan(politicas[p], politicas[q])
      BY <1>1, <3>1, <3>2 DEF SinSolape
    <3>4. /\ politicas[p].desde \in Nat /\ politicas[p].hasta \in Nat
          /\ politicas[q].desde \in Nat /\ politicas[q].hasta \in Nat
          /\ politicas'[p].hasta \in Nat /\ politicas'[q].hasta \in Nat
      BY <3>1, <3>2 DEF Politica
    <3>5. QED
      BY <3>1, <3>2, <3>3, <3>4 DEF Solapan
  <2>4. QED
    BY <2>1, <2>2, <2>3
<1>13. config # NoHay => ConMonto(config, politicas')
  BY <1>1, <1>9 DEF ConMonto
<1>14. QED
  BY <1>2, <1>8, <1>12, <1>13, ConPoliticas

\* Every handler of policies and of the configuration.
LEMMA PoliticaMantiene ==
    ASSUME IInv, NEW id \in Politicas,
           \/ activatePolicy(id) \/ deactivatePolicy(id) \/ deletePolicy(id)
           \/ \E f \in PoliticasPedidas : createPolicy(id, f) \/ updatePolicy(id, f)
    PROVE  IInv'
<1>1. /\ politicas \in [Politicas -> Politica \cup {NoHay}]
      /\ SinSolape(politicas)
      /\ config # NoHay => ConMonto(config, politicas)
  BY DEF IInv, Tipos, UnaPoliticaPorDia
<1>2. CASE activatePolicy(id)
  <2>1. [politicas[id] EXCEPT !.estado = "ACTIVA"] \in Politica
    BY <1>1, <1>2 DEF activatePolicy, EsBorrador, Politica
  <2>2. QED
    BY <1>2, <2>1, GuardaPoliticaMantiene DEF activatePolicy
<1>3. ASSUME NEW f \in PoliticasPedidas, createPolicy(id, f) \/ updatePolicy(id, f)
      PROVE  IInv'
  BY <1>3, PedidaEsPolitica, GuardaPoliticaMantiene DEF createPolicy, updatePolicy
<1>4. CASE deactivatePolicy(id)
  <2> DEFINE f == [politicas[id] EXCEPT !.estado = "INACTIVA"]
  <2>1. /\ f \in Politica /\ f.estado = "INACTIVA"
        /\ politicas' = [politicas EXCEPT ![id] = f]
        /\ UNCHANGED <<cortes, ventas, movidas, config, liq, gastos, acuerdo, pago>>
    BY <1>1, <1>4 DEF deactivatePolicy, Politica
  <2> HIDE DEF f
  <2>2. politicas' \in [Politicas -> Politica \cup {NoHay}]
    BY <1>1, <2>1
  <2>3. \A p \in Politicas : politicas'[p] = IF p = id THEN f ELSE politicas[p]
    BY <1>1, <2>1
  <2>4. SinSolape(politicas')
    BY <1>1, <2>1, <2>3 DEF SinSolape
  <2>5. config # NoHay => ConMonto(config, politicas')
    BY <1>1, <2>1, <2>3, FilasPosibles DEF ConMonto
  <2>6. QED
    BY <2>1, <2>2, <2>4, <2>5, ConPoliticas
<1>5. CASE deletePolicy(id)
  <2>1. /\ politicas' = [politicas EXCEPT ![id] = NoHay]
        /\ config # NoHay => config.politica # id
        /\ UNCHANGED <<cortes, ventas, movidas, config, liq, gastos, acuerdo, pago>>
    BY <1>5 DEF deletePolicy
  <2>2. politicas' \in [Politicas -> Politica \cup {NoHay}]
    BY <1>1, <2>1
  <2>3. \A p \in Politicas : politicas'[p] = IF p = id THEN NoHay ELSE politicas[p]
    BY <1>1, <2>1
  <2>4. SinSolape(politicas')
    BY <1>1, <2>3 DEF SinSolape
  <2>5. config # NoHay => ConMonto(config, politicas')
    BY <1>1, <2>1, <2>3 DEF ConMonto
  <2>6. QED
    BY <2>1, <2>2, <2>4, <2>5, ConPoliticas
<1>6. QED
  BY <1>2, <1>3, <1>4, <1>5

\* A configuration is saved with its percentage, or with a scale that exists.
LEMMA ConfigMantiene ==
    ASSUME IInv, NEW c \in Configuraciones, saveManagerCommissionConfig(c)
    PROVE  IInv'
<1>1. c \in Configuracion /\ ConMonto(c, politicas)
  <2>1. CASE c.modo = "PORCENTAJE"
    <3>1. /\ c \in [modo : {"PORCENTAJE"}, porcentaje : Porcentajes, politica : {NoHay},
                    alcance : {"SU_SUCURSAL", "TODAS_LAS_SUCURSALES"}, activo : BOOLEAN]
      BY <2>1 DEF Configuraciones
    <3>2. Porcentajes \subseteq Nat
      BY Entradas
    <3>3. QED
      BY <3>1, <3>2 DEF Configuracion, ConMonto
  <2>2. CASE c.modo # "PORCENTAJE"
    <3>1. c \in [modo : {"ESCALA"}, porcentaje : {NoHay},
                 politica : {p \in Politicas : /\ politicas[p] # NoHay
                                               /\ politicas[p].ambito = "GERENCIA"},
                 alcance : {"SU_SUCURSAL", "TODAS_LAS_SUCURSALES"}, activo : BOOLEAN]
      BY <2>2 DEF Configuraciones
    <3>2. QED
      BY <3>1 DEF Configuracion, ConMonto
  <2>3. QED
    BY <2>1, <2>2
<1>2. /\ config' = c
      /\ UNCHANGED <<cortes, ventas, movidas, politicas, liq, gastos, acuerdo, pago>>
  BY DEF saveManagerCommissionConfig
<1>3. Tipos'
  BY <1>1, <1>2 DEF IInv, Tipos, CortesValidos, CorteValido, Largo
<1>4. \A k \in Llaves : Liquidada(k)' /\ EnVuelo(k)'
  BY <1>2 DEF IInv, Liquidada, EnVuelo, Cuenta
<1>5. (\A p \in Pedidos : Visto(p)') /\ UnLeido' /\ UnaPoliticaPorDia'
  BY <1>2 DEF IInv, Visto, UnLeido, UnaPoliticaPorDia
<1>6. QED
  BY <1>3, <1>4, <1>5 DEF IInv


-------------------------------------------------------------------------------
(* Cuts *)

\* A month ends where it did unless its cut moves, and starts where it did
\* unless the one before does.
LEMMA OtrosMeses ==
    ASSUME NEW cs, NEW ds, NEW m \in Int, NEW a \in Int, a # m, a # m + 1,
           \A n \in Meses : n # m => ds[n] = cs[n]
    PROVE  range(ds, a) = range(cs, a)
<1>1. a - 1 # m
  OBVIOUS
<1>2. endOf(ds, a) = endOf(cs, a) /\ endOf(ds, a - 1) = endOf(cs, a - 1)
  BY <1>1 DEF endOf
<1>3. QED
  BY <1>2 DEF range

\* A cut moves only if neither month it touches has a settlement, and under the
\* exclusive lock nothing is in flight.
LEMMA CorteMantiene ==
    ASSUME IInv, NEW m \in Meses, NEW corte \in cutBounds(m) \cup {NoHay},
           change(m, corte)
    PROVE  IInv'
<1> DEFINE cs == [cortes EXCEPT ![m] = corte]
<1>1. /\ m \in Int /\ Meses \subseteq Int
      /\ cutBounds(m) \subseteq Int /\ corte \in Int \cup {NoHay}
  BY DEF Meses, cutBounds
<1>2. /\ cortes \in [Meses -> Int \cup {NoHay}]
      /\ CortesValidos(cortes) /\ \A a \in Meses : Largo(cortes, a)
      /\ liq \in [Llaves -> Fila \cup {NoHay}]
      /\ \A k \in Llaves : acuerdo[k] = NoHay
  BY DEF IInv, Tipos, change, lockWorkCalendar
<1>3. /\ ~ settledWindows(m)
      /\ \A a \in {m, m + 1} :
            (a \in Meses /\ cs[a] # NoHay) => rangeDays(range(cs, a)) >= MinDias
      /\ cortes' = cs
      /\ UNCHANGED <<ventas, movidas, politicas, config, liq, gastos, acuerdo, pago>>
  BY DEF change, Afectados
<1>4. /\ cs \in [Meses -> Int \cup {NoHay}]
      /\ cs[m] = corte
      /\ \A n \in Meses : n # m => cs[n] = cortes[n]
  BY <1>1, <1>2
<1> HIDE DEF cs
<1>5. CortesValidos(cs)
  BY <1>2, <1>4 DEF CortesValidos, CorteValido
<1>6. \A a \in Meses : (a # m /\ a # m + 1) => range(cs, a) = range(cortes, a)
  BY <1>1, <1>4, OtrosMeses
<1>7. ASSUME NEW a \in Meses PROVE Largo(cs, a)
  <2>1. CASE a \in {m, m + 1}
    BY <1>3, <2>1 DEF Largo
  <2>2. CASE a \notin {m, m + 1}
    BY <1>2, <1>4, <1>6, <2>2 DEF Largo
  <2>3. QED
    BY <2>1, <2>2
<1>8. Tipos'
  BY <1>3, <1>4, <1>5, <1>7 DEF IInv, Tipos
\* The settlements are of other months.
<1>9. ASSUME NEW k \in Llaves, liq[k] # NoHay
      PROVE  range(cs, k[2]) = range(cortes, k[2])
  <2>1. k[2] \in Meses
    BY DEF Llaves
  <2>2. /\ liq[k].desde = range(cortes, k[2]).from
        /\ liq[k].hasta = range(cortes, k[2]).to
    BY <1>9 DEF IInv, Liquidada
  <2>3. /\ range(cortes, m).from \in Int /\ range(cortes, m).to \in Int
        /\ range(cortes, m).from <= range(cortes, m).to
        /\ range(cortes, m + 1).from = range(cortes, m).to + 1
    BY <1>1, <1>2, MesConDias
  <2>4. /\ range(cortes, m + 1).to \in Int
        /\ range(cortes, m + 1).from <= range(cortes, m + 1).to
    <3>1. m + 1 \in Int
      BY <1>1
    <3>2. QED
      BY <3>1, <1>2, MesConDias
  <2>5. ~ (/\ liq[k].hasta >= range(cortes, m).from
           /\ liq[k].desde <= range(cortes, m + 1).to)
    BY <1>3, <1>9 DEF settledWindows
  <2>6. k[2] # m
    BY <2>2, <2>3, <2>4, <2>5
  <2>7. k[2] # m + 1
    BY <2>2, <2>3, <2>4, <2>5
  <2>8. QED
    BY <1>6, <2>1, <2>6, <2>7
<1>10. ASSUME NEW k \in Llaves PROVE Liquidada(k)' /\ EnVuelo(k)'
  <2>1. liq[k] # NoHay => range(cs, k[2]) = range(cortes, k[2])
    BY <1>9
  <2>2. Liquidada(k)
    BY DEF IInv
  <2>3. Liquidada(k)'
    BY <1>3, <2>1, <2>2 DEF Liquidada, Cuenta
  <2>4. EnVuelo(k)'
    BY <1>2, <1>3 DEF EnVuelo
  <2>5. QED
    BY <2>3, <2>4
<1>11. (\A p \in Pedidos : Visto(p)') /\ UnLeido' /\ UnaPoliticaPorDia'
  BY <1>3 DEF IInv, Visto, UnLeido, UnaPoliticaPorDia
<1>12. QED
  BY <1>8, <1>10, <1>11 DEF IInv

-------------------------------------------------------------------------------
(* Sales *)

\* A sale keeps its day, or is one whose date was corrected.
LEMMA VentasMantienen ==
    ASSUME IInv,
           UNCHANGED <<cortes, politicas, config, liq, gastos, acuerdo, pago>>,
           ventas' \in [Operaciones -> Venta],
           movidas \subseteq movidas', movidas' \subseteq Operaciones,
           \A o \in Operaciones \ movidas' :
              ventas[o].dia # NoHay => ventas'[o].dia = ventas[o].dia
    PROVE  IInv'
<1>1. Tipos'
  BY DEF IInv, Tipos, CortesValidos, CorteValido, Largo
<1>2. ASSUME NEW k, NEW ops \in SUBSET Operaciones, Cuenta(k, ops)
      PROVE  Cuenta(k, ops)'
  BY <1>2 DEF Cuenta
<1>3. ASSUME NEW k \in Llaves PROVE Liquidada(k)' /\ EnVuelo(k)'
  <2>1. Liquidada(k) /\ EnVuelo(k)
    BY DEF IInv
  <2>2. /\ liq[k] # NoHay => liq[k].ops \in SUBSET Operaciones
        /\ acuerdo[k] # NoHay => acuerdo[k].ops \in SUBSET Operaciones
    BY DEF IInv, Tipos, Fila, Acuerdo
  <2>3. liq[k] # NoHay => Cuenta(k, liq[k].ops)'
    BY <1>2, <2>1, <2>2 DEF Liquidada
  <2>4. acuerdo[k] # NoHay => Cuenta(k, acuerdo[k].ops)'
    BY <1>2, <2>1, <2>2 DEF EnVuelo
  <2>5. QED
    BY <2>1, <2>3, <2>4 DEF Liquidada, EnVuelo, Cuenta
<1>4. (\A p \in Pedidos : Visto(p)') /\ UnLeido' /\ UnaPoliticaPorDia'
  BY DEF IInv, Visto, UnLeido, UnaPoliticaPorDia
<1>5. QED
  BY <1>1, <1>3, <1>4 DEF IInv

\* Every step of the sales.
LEMMA VentaMantiene ==
    ASSUME IInv, NEW o \in Operaciones,
           \/ \E d \in DiasVenta : Vender(o, d) \/ CorregirFecha(o, d)
           \/ CancelarVenta(o)
    PROVE  IInv'
<1>1. /\ ventas \in [Operaciones -> Venta] /\ movidas \subseteq Operaciones
      /\ DiasVenta \subseteq Int
  BY Entradas DEF IInv, Tipos
<1>2. ASSUME NEW d \in DiasVenta, Vender(o, d)
      PROVE  IInv'
  <2>1. /\ ventas[o].dia = NoHay
        /\ ventas' = [ventas EXCEPT ![o] = [dia |-> d, estado |-> "APROBADA"]]
        /\ UNCHANGED <<cortes, movidas, politicas, config, liq, gastos, acuerdo, pago>>
    BY <1>2 DEF Vender
  <2>2. [dia |-> d, estado |-> "APROBADA"] \in Venta
    BY <1>1 DEF Venta
  <2>3. /\ ventas' \in [Operaciones -> Venta]
        /\ \A x \in Operaciones : ventas[x].dia # NoHay => ventas'[x].dia = ventas[x].dia
    BY <1>1, <2>1, <2>2
  <2>4. QED
    BY <1>1, <2>1, <2>3, VentasMantienen
<1>3. ASSUME NEW d \in DiasVenta, CorregirFecha(o, d)
      PROVE  IInv'
  <2>1. /\ ventas' = [ventas EXCEPT ![o].dia = d]
        /\ movidas' = movidas \cup {o}
        /\ UNCHANGED <<cortes, politicas, config, liq, gastos, acuerdo, pago>>
    BY <1>3 DEF CorregirFecha
  <2>2. /\ ventas' \in [Operaciones -> Venta]
        /\ \A x \in Operaciones : x # o => ventas'[x] = ventas[x]
    BY <1>1, <2>1 DEF Venta
  <2>3. QED
    BY <1>1, <2>1, <2>2, VentasMantienen
<1>4. CASE CancelarVenta(o)
  <2>1. /\ ventas' = [ventas EXCEPT ![o].estado = "CANCELADA"]
        /\ UNCHANGED <<cortes, movidas, politicas, config, liq, gastos, acuerdo, pago>>
    BY <1>4 DEF CancelarVenta
  <2>2. /\ ventas' \in [Operaciones -> Venta]
        /\ \A x \in Operaciones : ventas'[x].dia = ventas[x].dia
    BY <1>1, <2>1 DEF Venta
  <2>3. QED
    BY <1>1, <2>1, <2>2, VentasMantienen
<1>5. QED
  BY <1>2, <1>3, <1>4

-------------------------------------------------------------------------------
(* Agreements *)

\* What an agreement has counted and read goes with it to its commit.
LEMMA AcordarMantiene ==
    ASSUME IInv, NEW k \in Llaves, NEW d, NEW importe \in Nat,
           d.rango = range(cortes, k[2]),
           d.ops \in SUBSET Operaciones, Cuenta(k, d.ops),
           d.politica \in Politicas \cup {NoHay},
           Acordar(k, d, importe)
    PROVE  IInv'
<1>a. PICK a : a = [nueva |-> liq[k] = NoHay, desde |-> d.rango.from,
                    hasta |-> d.rango.to, ops |-> d.ops, politica |-> d.politica,
                    importe |-> importe]
  OBVIOUS
<1>1. /\ acuerdo' = [acuerdo EXCEPT ![k] = a]
      /\ UNCHANGED <<cortes, ventas, movidas, politicas, config, liq, gastos, pago>>
  BY <1>a DEF Acordar
<1>2. /\ CortesValidos(cortes)
      /\ acuerdo \in [Llaves -> Acuerdo \cup {NoHay}]
      /\ k[2] \in Int
  BY DEF IInv, Tipos, Llaves, Meses
<1>3. d.rango.from \in Int /\ d.rango.to \in Int
  BY <1>2, MesConDias
<1>4. a \in Acuerdo
  BY <1>a, <1>3 DEF Acuerdo
<1>5. /\ a.nueva <=> (liq[k] = NoHay)
      /\ a.desde = range(cortes, k[2]).from /\ a.hasta = range(cortes, k[2]).to
      /\ a.ops = d.ops
  BY <1>a
<1>6. /\ acuerdo' \in [Llaves -> Acuerdo \cup {NoHay}]
      /\ acuerdo'[k] = a
      /\ \A j \in Llaves : j # k => acuerdo'[j] = acuerdo[j]
  BY <1>1, <1>2, <1>4
<1>7. Tipos'
  BY <1>1, <1>6 DEF IInv, Tipos, CortesValidos, CorteValido, Largo
<1>8. ASSUME NEW j, NEW ops, Cuenta(j, ops) PROVE Cuenta(j, ops)'
  BY <1>1, <1>8 DEF Cuenta
<1>9. ASSUME NEW j \in Llaves PROVE Liquidada(j)' /\ EnVuelo(j)'
  <2>1. Liquidada(j) /\ EnVuelo(j)
    BY DEF IInv
  <2>2. Liquidada(j)'
    BY <1>1, <2>1 DEF Liquidada, Cuenta
  <2>3. CASE j = k
    <3>1. Cuenta(k, a.ops)'
      BY <1>5, <1>8
    <3>2. QED
      BY <1>1, <1>5, <1>6, <2>2, <2>3, <3>1 DEF EnVuelo, Cuenta
  <2>4. CASE j # k
    BY <1>1, <1>6, <2>1, <2>2, <2>4 DEF EnVuelo, Cuenta
  <2>5. QED
    BY <2>3, <2>4
<1>10. (\A p \in Pedidos : Visto(p)') /\ UnLeido' /\ UnaPoliticaPorDia'
  BY <1>1 DEF IInv, Visto, UnLeido, UnaPoliticaPorDia
<1>11. QED
  BY <1>7, <1>9, <1>10 DEF IInv

\* The policy of a day is one that exists: active policies share no day, so the
\* one that started last is the only one.
LEMMA PoliticaDelDia ==
    ASSUME politicas \in [Politicas -> Politica \cup {NoHay}], SinSolape(politicas),
           NEW ambito, NEW dia \in Int
    PROVE  activePolicyId(ambito, dia) \in Politicas \cup {NoHay}
<1> DEFINE V == {p \in Politicas :
                   /\ politicas[p] # NoHay
                   /\ politicas[p].ambito = ambito
                   /\ politicas[p].estado = "ACTIVA"
                   /\ politicas[p].desde <= dia /\ dia <= politicas[p].hasta}
<1>1. CASE V = {}
  BY <1>1 DEF activePolicyId
<1>2. CASE V # {}
  <2>1. PICK p \in V : TRUE
    BY <1>2
  <2>2. ASSUME NEW q \in V PROVE q = p
    <3>1. /\ politicas[p] \in Politica /\ politicas[q] \in Politica
      OBVIOUS
    <3>2. /\ politicas[p].desde \in Nat /\ politicas[p].hasta \in Nat
          /\ politicas[q].desde \in Nat /\ politicas[q].hasta \in Nat
      BY <3>1 DEF Politica
    <3>3. Solapan(politicas[p], politicas[q])
      BY <3>2 DEF Solapan
    <3>4. QED
      BY <3>3 DEF SinSolape
  <2>3. politicas[p].desde <= politicas[p].desde
    <3>1. politicas[p] \in Politica
      OBVIOUS
    <3>2. QED
      BY <3>1 DEF Politica
  <2>4. \A q \in V : politicas[q].desde <= politicas[p].desde
    BY <2>2, <2>3
  <2>5. activePolicyId(ambito, dia) =
          CHOOSE x \in V : \A q \in V : politicas[q].desde <= politicas[x].desde
    BY <1>2 DEF activePolicyId
  <2> HIDE DEF V
  <2>6. (CHOOSE x \in V : \A q \in V : politicas[q].desde <= politicas[x].desde) \in V
    BY <2>1, <2>4
  <2>7. activePolicyId(ambito, dia) \in V
    BY <2>5, <2>6
  <2>8. QED
    BY <2>7 DEF V
<1>3. QED
  BY <1>1, <1>2

\* The sales a settlement counts are those of its branch and of its month.
LEMMA SeCuentan ==
    ASSUME NEW k \in Llaves, NEW sucs, ~ DeGerente(k) => sucs = {k[1]}
    PROVE  /\ ComputablesEn(sucs, range(cortes, k[2])) \in SUBSET Operaciones
           /\ Cuenta(k, ComputablesEn(sucs, range(cortes, k[2])))
BY DEF ComputablesEn, EnRango, Cuenta

\* An agreement with a seller.
LEMMA AcuerdoMantiene ==
    ASSUME IInv, NEW k \in Llaves, NEW importe \in Importes, agree(k, importe)
    PROVE  IInv'
<1> DEFINE d == suggestionData(k)
<1>1. ~ DeGerente(k) /\ Acordar(k, d, importe)
  BY DEF agree
<1>2. /\ CortesValidos(cortes) /\ k[2] \in Int
      /\ politicas \in [Politicas -> Politica \cup {NoHay}]
      /\ SinSolape(politicas)
  BY DEF IInv, Tipos, Llaves, Meses, UnaPoliticaPorDia
<1>3. range(cortes, k[2]).to \in Int
  BY <1>2, MesConDias
<1>4. /\ d.rango = range(cortes, k[2])
      /\ d.ops = ComputablesEn({k[1]}, range(cortes, k[2]))
      /\ d.politica = activePolicyId("VENDEDOR", range(cortes, k[2]).to)
  BY DEF suggestionData
<1> HIDE DEF d
<1>5. d.politica \in Politicas \cup {NoHay}
  BY <1>2, <1>3, <1>4, PoliticaDelDia
<1>6. d.ops \in SUBSET Operaciones /\ Cuenta(k, d.ops)
  BY <1>1, <1>4, SeCuentan
<1>7. importe \in Nat
  BY Entradas
<1>8. QED
  BY <1>1, <1>4, <1>5, <1>6, <1>7, AcordarMantiene

\* A scale pays a natural amount.
LEMMA MontoFijo ==
    ASSUME NEW tiers \in Seq(Escalon), NEW n \in Nat
    PROVE  calculateFixedCommission(tiers, n) \in Nat
<1> DEFINE C == {i \in DOMAIN tiers :
                   tiers[i].minUnits <= n /\ n <= tiers[i].maxUnits}
<1>1. CASE C = {}
  BY <1>1 DEF calculateFixedCommission
<1>2. CASE C # {}
  <2>1. C \subseteq Nat /\ C \subseteq DOMAIN tiers
    OBVIOUS
  <2>2. calculateFixedCommission(tiers, n) = tiers[Min(C)].fixedAmount
    BY <1>2 DEF calculateFixedCommission
  <2> HIDE DEF C
  <2>3. Min(C) \in C
    <3>1. \E x \in C : \A y \in C : x <= y
      BY <1>2, <2>1, HayMenor
    <3>2. QED
      BY <3>1 DEF Min
  <2>4. tiers[Min(C)] \in Escalon
    <3>1. Min(C) \in DOMAIN tiers
      BY <2>1, <2>3
    <3>2. \A i \in DOMAIN tiers : tiers[i] \in Escalon
      OBVIOUS
    <3>3. QED
      BY <3>1, <3>2
  <2>5. QED
    BY <2>2, <2>4 DEF Escalon
<1>3. QED
  BY <1>1, <1>2

\* So does the configuration of a manager, by percentage or by scale.
LEMMA MontoDelGerente ==
    ASSUME politicas \in [Politicas -> Politica \cup {NoHay}],
           NEW c \in Configuracion, ConMonto(c, politicas),
           NEW ops \in SUBSET Operaciones
    PROVE  calculateManagerCommission(c, ops) \in Nat
<1>1. IsFiniteSet(ops) /\ Cardinality(ops) \in Nat
  BY Entradas, FS_Subset, FS_CardinalityType
<1>2. CASE c.modo = "PORCENTAJE"
  <2>1. MapThenSumSet(PrecioDe, ops) = Suma(Precio, ops)
    BY DEF Suma, MapThenSumSet, MapThenFoldSet, PrecioDe
  <2>2. Naturales(Precio, ops)
    BY Entradas DEF Naturales
  <2>3. Suma(Precio, ops) \in Nat
    BY <1>1, <2>2, SumaParte
  <2>4. c.porcentaje \in Nat
    BY <1>2 DEF ConMonto
  <2>5. calculateManagerCommission(c, ops) = (Suma(Precio, ops) * c.porcentaje) \div 100
    BY <1>2, <2>1 DEF calculateManagerCommission
  <2>6. \A x, y \in Nat : (x * y) \div 100 \in Nat
    <3>1. \A x, y \in Nat : x * y \in Nat
      OBVIOUS
    <3>2. \A z \in Nat : z \div 100 \in Nat
      OBVIOUS
    <3>3. QED
      BY <3>1, <3>2
  <2>7. QED
    BY <2>3, <2>4, <2>5, <2>6
<1>3. CASE c.modo # "PORCENTAJE"
  <2>1. politicas[c.politica] \in Politica
    BY <1>3 DEF ConMonto
  <2>2. politicas[c.politica].escala \in Seq(Escalon)
    BY <2>1 DEF Politica
  <2>3. QED
    BY <1>1, <1>3, <2>2, MontoFijo DEF calculateManagerCommission
<1>4. QED
  BY <1>2, <1>3

\* An agreement with a manager, by the configuration in force.
LEMMA AcuerdoGerenteMantiene ==
    ASSUME IInv, NEW k \in Llaves, agreeManagerCommission(k)
    PROVE  IInv'
<1> DEFINE d == managerCommissionForActor(k)
           r == range(cortes, k[2])
           ops == ComputablesEn(managerScopeBranchIds, r)
           vale == /\ config # NoHay /\ config.activo
                   /\ config.modo = "ESCALA"
                         => politicas[config.politica].ambito = "GERENCIA"
<1>1. DeGerente(k) /\ d.monto # NoHay /\ Acordar(k, d, d.monto)
  BY DEF agreeManagerCommission
<1>2. /\ politicas \in [Politicas -> Politica \cup {NoHay}]
      /\ config # NoHay => config \in Configuracion /\ ConMonto(config, politicas)
  BY DEF IInv, Tipos
<1>3. d = [rango |-> r, ops |-> IF vale THEN ops ELSE {},
           politica |-> IF vale THEN config.politica ELSE NoHay,
           monto |-> IF vale THEN calculateManagerCommission(config, ops) ELSE NoHay]
  BY DEF managerCommissionForActor
<1> HIDE DEF d, ops
<1>4. vale
  BY <1>1, <1>3
<1>5. config \in Configuracion /\ ConMonto(config, politicas)
  BY <1>2, <1>4
<1>6. ops \in SUBSET Operaciones /\ Cuenta(k, ops)
  BY <1>1, SeCuentan DEF ops
<1>7. /\ d.rango = r /\ d.ops = ops /\ d.politica = config.politica
      /\ d.monto = calculateManagerCommission(config, ops)
  BY <1>3, <1>4
<1>8. d.monto \in Nat
  BY <1>2, <1>5, <1>6, <1>7, MontoDelGerente
<1>9. d.politica \in Politicas \cup {NoHay}
  BY <1>5, <1>7 DEF Configuracion
<1>10. QED
  BY <1>1, <1>6, <1>7, <1>8, <1>9, AcordarMantiene

\* The days of a month are natural numbers.
LEMMA DiasNaturales ==
    ASSUME NEW cs, CortesValidos(cs), NEW m \in Meses
    PROVE  range(cs, m).from \in Nat /\ range(cs, m).to \in Nat
<1>1. /\ m \in Int /\ m >= 1 /\ m - 1 \in Int
      /\ Medio \in Nat /\ DiasMes \in Nat
  BY Calendario DEF Meses
<1>2. /\ range(cs, m).from \in Int /\ range(cs, m).to \in Int
      /\ range(cs, m).from <= range(cs, m).to
  BY <1>1, MesConDias
<1>3. range(cs, m).from >= 0
  <2>1. CASE m = 1
    <3>1. endOf(cs, 0) = 0
      BY <1>1 DEF endOf, Meses, calendarMonthRange
    <3>2. QED
      BY <2>1, <3>1 DEF range
  <2>2. CASE m > 1
    <3>1. m - 2 \in Nat
      BY <1>1, <2>2
    <3>2. (m - 2) * DiasMes \in Nat
      BY <1>1, <3>1
    <3>3. m - 1 - 1 = m - 2
      BY <1>1
    <3>4. PrimerDia(m - 1) >= 0 /\ PrimerDia(m - 1) \in Int
      BY <3>2, <3>3 DEF PrimerDia
    <3>5. /\ endOf(cs, m - 1) \in Int
          /\ PrimerDia(m - 1) + Medio <= endOf(cs, m - 1)
      BY <1>1, FinDeMes
    <3>6. QED
      BY <1>1, <3>4, <3>5 DEF range
  <2>3. QED
    BY <1>1, <2>1, <2>2
<1>4. QED
  BY <1>2, <1>3

\* The row an agreement in flight would leave: of the same month, with sales of
\* that month, of a later version, and paid only if a manager's already was.
LEMMA LoAcordado ==
    ASSUME IInv, NEW k \in Llaves, acuerdo[k] # NoHay,
           PagoCompleto(Acordada(k, acuerdo[k]))
    PROVE  LET f == Acordada(k, acuerdo[k])
           IN  /\ f \in Fila
               /\ f.desde = range(cortes, k[2]).from
               /\ f.hasta = range(cortes, k[2]).to
               /\ Cuenta(k, f.ops)
               /\ f.estado = "PAGADA" =>
                     liq[k] # NoHay /\ DeGerente(k) /\ liq[k].estado = "PAGADA"
               /\ liq[k] # NoHay =>
                     /\ f.version = liq[k].version + 1
                     /\ DeGerente(k) => f.estado = liq[k].estado
                     /\ ~ DeGerente(k) => liq[k].estado # "PAGADA"
<1>1. PICK a : a = acuerdo[k]
  OBVIOUS
<1>2. PICK g : g = liq[k]
  OBVIOUS
<1>3. PICK f : f = Acordada(k, acuerdo[k])
  OBVIOUS
<1>4. /\ a \in Acuerdo
      /\ a.nueva <=> g = NoHay
      /\ a.desde = range(cortes, k[2]).from
      /\ a.hasta = range(cortes, k[2]).to
      /\ Cuenta(k, a.ops)
  BY <1>1, <1>2 DEF IInv, Tipos, EnVuelo
<1>5. g # NoHay => /\ g \in Fila
                   /\ g.desde = range(cortes, k[2]).from
                   /\ g.hasta = range(cortes, k[2]).to
                   /\ Cuenta(k, g.ops)
                   /\ PagoCompleto(g)
  BY <1>2 DEF IInv, Tipos, Liquidada
<1>6. a.desde \in Nat /\ a.hasta \in Nat
  <2>1. CortesValidos(cortes) /\ k[2] \in Meses
    BY DEF IInv, Tipos, Llaves
  <2>2. QED
    BY <1>4, <2>1, DiasNaturales
<1>7. CASE a.nueva
  <2>1. f = [desde |-> a.desde, hasta |-> a.hasta, ops |-> a.ops,
             politica |-> a.politica, importe |-> a.importe,
             estado |-> "ACORDADA", version |-> 0, clave |-> NoHay]
    BY <1>1, <1>3, <1>7 DEF Acordada
  <2>2. /\ f \in Fila /\ f.desde = a.desde /\ f.hasta = a.hasta
        /\ f.ops = a.ops /\ f.estado = "ACORDADA"
    BY <1>4, <1>6, <2>1 DEF Fila, Acuerdo
  <2>3. g = NoHay
    BY <1>4, <1>7
  <2>4. QED
    BY <1>2, <1>3, <1>4, <2>2, <2>3
<1>8. CASE ~ a.nueva
  <2> DEFINE v == g.version + 1
  <2>1. g \in Fila /\ g # NoHay
    BY <1>4, <1>5, <1>8, <1>2 DEF IInv, Tipos
  <2>2. v \in Nat
    BY <2>1 DEF Fila
  <2>3. f = IF DeGerente(k)
            THEN [g EXCEPT !.ops = a.ops, !.politica = a.politica,
                           !.importe = a.importe, !.version = v]
            ELSE [g EXCEPT !.importe = a.importe, !.estado = "ACORDADA",
                           !.version = v]
    BY <1>1, <1>2, <1>3, <1>8 DEF Acordada
  <2>4. f.version = v => f.version = g.version + 1
    OBVIOUS
  <2> HIDE DEF v
  <2>5. CASE DeGerente(k)
    <3>1. /\ f \in Fila /\ f.desde = g.desde /\ f.hasta = g.hasta
          /\ f.ops = a.ops /\ f.estado = g.estado /\ f.version = v
      BY <1>4, <2>1, <2>2, <2>3, <2>5 DEF Fila, Acuerdo
    <3>2. QED
      BY <1>2, <1>3, <1>4, <1>5, <2>1, <2>4, <2>5, <3>1
  <2>6. CASE ~ DeGerente(k)
    <3>1. /\ f \in Fila /\ f.desde = g.desde /\ f.hasta = g.hasta
          /\ f.ops = g.ops /\ f.estado = "ACORDADA" /\ f.version = v
          /\ f.clave = g.clave
      BY <1>4, <2>1, <2>2, <2>3, <2>6 DEF Fila, Acuerdo
    <3>2. g.estado # "PAGADA"
      BY <1>3, <1>5, <2>1, <3>1 DEF PagoCompleto
    <3>3. QED
      BY <1>2, <1>3, <1>4, <1>5, <2>1, <2>4, <2>6, <3>1, <3>2
  <2>7. QED
    BY <2>5, <2>6
<1>9. QED
  BY <1>4, <1>7, <1>8 DEF Acuerdo

\* The commit of an agreement.
LEMMA ConfirmarMantiene ==
    ASSUME IInv, NEW k \in Llaves, Confirmar(k)
    PROVE  IInv'
<1>1. PICK f : f = Acordada(k, acuerdo[k])
  OBVIOUS
<1>2. /\ acuerdo[k] # NoHay
      /\ PagoCompleto(f)
      /\ liq' = [liq EXCEPT ![k] = f]
      /\ acuerdo' = [acuerdo EXCEPT ![k] = NoHay]
      /\ UNCHANGED <<cortes, ventas, movidas, politicas, config, gastos, pago, quedan>>
  BY <1>1 DEF Confirmar
<1>3. /\ f \in Fila
      /\ f.desde = range(cortes, k[2]).from
      /\ f.hasta = range(cortes, k[2]).to
      /\ Cuenta(k, f.ops)
      /\ f.estado = "PAGADA" =>
            liq[k] # NoHay /\ DeGerente(k) /\ liq[k].estado = "PAGADA"
      /\ liq[k] # NoHay =>
            /\ f.version = liq[k].version + 1
            /\ DeGerente(k) => f.estado = liq[k].estado
            /\ ~ DeGerente(k) => liq[k].estado # "PAGADA"
  BY <1>1, <1>2, LoAcordado
<1>4. /\ liq \in [Llaves -> Fila \cup {NoHay}]
      /\ acuerdo \in [Llaves -> Acuerdo \cup {NoHay}]
  BY DEF IInv, Tipos
<1>5. /\ liq' \in [Llaves -> Fila \cup {NoHay}]
      /\ liq'[k] = f /\ f # NoHay
      /\ \A j \in Llaves : j # k => liq'[j] = liq[j]
      /\ acuerdo' \in [Llaves -> Acuerdo \cup {NoHay}]
      /\ acuerdo'[k] = NoHay
      /\ \A j \in Llaves : j # k => acuerdo'[j] = acuerdo[j]
  BY <1>2, <1>3, <1>4, FilasPosibles
<1>6. Tipos'
  BY <1>2, <1>5 DEF IInv, Tipos, CortesValidos, CorteValido, Largo
<1>7. ASSUME NEW j, NEW ops, Cuenta(j, ops) PROVE Cuenta(j, ops)'
  BY <1>2, <1>7 DEF Cuenta
<1>8. ASSUME NEW j \in Llaves PROVE Liquidada(j)' /\ EnVuelo(j)'
  <2>1. Liquidada(j) /\ EnVuelo(j)
    BY DEF IInv
  <2>2. CASE j = k
    <3>1. Cuenta(k, f.ops)'
      BY <1>3, <1>7
    <3>2. Len(gastos[k]) = 0
      BY <1>3, <2>1, <2>2 DEF Liquidada
    <3>3. ~ (~ DeGerente(k) /\ f.estado = "PAGADA")
      BY <1>3
    <3>4. Liquidada(j)'
      BY <1>2, <1>3, <1>5, <2>2, <3>1, <3>2, <3>3 DEF Liquidada, Cuenta, PagoCompleto
    <3>5. QED
      BY <1>5, <2>2, <3>4 DEF EnVuelo
  <2>3. CASE j # k
    <3>1. Liquidada(j)'
      BY <1>2, <1>5, <2>1, <2>3 DEF Liquidada, Cuenta, PagoCompleto
    <3>2. EnVuelo(j)'
      BY <1>2, <1>5, <2>1, <2>3 DEF EnVuelo, Cuenta
    <3>3. QED
      BY <3>1, <3>2
  <2>4. QED
    BY <2>2, <2>3
<1>9. ASSUME NEW p \in Pedidos PROVE Visto(p)'
  <2>1. Visto(p) /\ pago' = pago
    BY <1>2 DEF IInv
  <2>2. CASE pago[p].fase # "no" /\ pago[p].llave = k
    <3>1. /\ liq[k] # NoHay /\ pago[p].version <= liq[k].version
          /\ pago[p].fase = "leido" => DeGerente(k) /\ liq[k].estado = "ACORDADA"
      BY <2>1, <2>2 DEF Visto
    <3>2. pago[p].version \in Nat /\ liq[k].version \in Nat
      BY <1>4, <3>1 DEF IInv, Tipos, Pago, Fila
    <3>3. pago[p].version <= f.version /\ pago[p].version # f.version
      BY <1>3, <3>1, <3>2
    <3>4. QED
      BY <1>3, <1>5, <2>1, <2>2, <3>1, <3>3 DEF Visto
  <2>3. CASE ~ (pago[p].fase # "no" /\ pago[p].llave = k)
    BY <1>5, <2>1, <2>3 DEF Visto
  <2>4. QED
    BY <2>2, <2>3
<1>10. UnLeido' /\ UnaPoliticaPorDia'
  BY <1>2 DEF IInv, UnLeido, UnaPoliticaPorDia
<1>11. QED
  BY <1>6, <1>8, <1>9, <1>10 DEF IInv

\* The rollback of an agreement.
LEMMA DeshacerMantiene ==
    ASSUME IInv, NEW k \in Llaves, Deshacer(k)
    PROVE  IInv'
<1>1. /\ acuerdo' = [acuerdo EXCEPT ![k] = NoHay]
      /\ UNCHANGED <<cortes, ventas, movidas, politicas, config, liq, gastos, pago>>
  BY DEF Deshacer
<1>2. /\ acuerdo \in [Llaves -> Acuerdo \cup {NoHay}]
      /\ acuerdo' \in [Llaves -> Acuerdo \cup {NoHay}]
      /\ acuerdo'[k] = NoHay
      /\ \A j \in Llaves : j # k => acuerdo'[j] = acuerdo[j]
  BY <1>1 DEF IInv, Tipos
<1>3. Tipos'
  BY <1>1, <1>2 DEF IInv, Tipos, CortesValidos, CorteValido, Largo
<1>4. ASSUME NEW j \in Llaves PROVE Liquidada(j)' /\ EnVuelo(j)'
  <2>1. Liquidada(j) /\ EnVuelo(j)
    BY DEF IInv
  <2>2. Liquidada(j)'
    BY <1>1, <2>1 DEF Liquidada, Cuenta
  <2>3. EnVuelo(j)'
    BY <1>1, <1>2, <2>1 DEF EnVuelo, Cuenta
  <2>4. QED
    BY <2>2, <2>3
<1>5. (\A p \in Pedidos : Visto(p)') /\ UnLeido' /\ UnaPoliticaPorDia'
  BY <1>1 DEF IInv, Visto, UnLeido, UnaPoliticaPorDia
<1>6. QED
  BY <1>3, <1>4, <1>5 DEF IInv

-------------------------------------------------------------------------------
(* Payments *)

\* What a request asked does not change with the answer.
LEMMA MismoPedido ==
    ASSUME pago \in [Pedidos -> Pago], NEW p \in Pedidos,
           NEW fase \in {"no", "pedido", "leido", "si", "rechazado"},
           \/ pago' = [pago EXCEPT ![p].fase = fase]
           \/ UNCHANGED pago
    PROVE  /\ pago' \in [Pedidos -> Pago]
           /\ \A q \in Pedidos :
                 /\ pago'[q].llave = pago[q].llave
                 /\ pago'[q].version = pago[q].version
                 /\ pago'[q].importe = pago[q].importe
                 /\ pago'[q].fase = pago[q].fase \/ (q = p /\ pago'[q].fase = fase)
<1>1. CASE pago' = [pago EXCEPT ![p].fase = fase]
  BY <1>1 DEF Pago
<1>2. CASE UNCHANGED pago
  BY <1>2
<1>3. QED
  BY <1>1, <1>2

\* A client asks for the payment of what it read.
LEMMA PedirMantiene ==
    ASSUME IInv, NEW p \in Pedidos, NEW k \in Llaves, PedirPago(p, k)
    PROVE  IInv'
<1>1. /\ liq[k] # NoHay
      /\ pago' = [pago EXCEPT ![p] =
            [fase |-> "pedido", llave |-> k, version |-> liq[k].version,
             importe |-> liq[k].importe]]
      /\ UNCHANGED <<cortes, ventas, movidas, politicas, config, liq, gastos, acuerdo>>
  BY DEF PedirPago
<1>2. /\ liq[k] \in Fila /\ pago \in [Pedidos -> Pago]
  BY <1>1 DEF IInv, Tipos
<1>3. liq[k].version \in Nat /\ liq[k].importe \in Nat
  BY <1>2 DEF Fila
<1>4. /\ pago' \in [Pedidos -> Pago]
      /\ pago'[p].fase = "pedido" /\ pago'[p].llave = k
      /\ pago'[p].version = liq[k].version /\ pago'[p].importe = liq[k].importe
      /\ \A q \in Pedidos : q # p => pago'[q] = pago[q]
  BY <1>1, <1>2, <1>3 DEF Pago
<1>5. Tipos'
  BY <1>1, <1>4 DEF IInv, Tipos, CortesValidos, CorteValido, Largo
<1>6. \A j \in Llaves : Liquidada(j)' /\ EnVuelo(j)'
  BY <1>1 DEF IInv, Liquidada, EnVuelo, Cuenta
<1>7. ASSUME NEW q \in Pedidos PROVE Visto(q)'
  <2>1. CASE q = p
    BY <1>1, <1>3, <1>4, <2>1 DEF Visto
  <2>2. CASE q # p
    BY <1>1, <1>4, <2>2 DEF IInv, Visto
  <2>3. QED
    BY <2>1, <2>2
<1>8. UnLeido' /\ UnaPoliticaPorDia'
  BY <1>1, <1>4 DEF IInv, UnLeido, UnaPoliticaPorDia
<1>9. QED
  BY <1>5, <1>6, <1>7, <1>8 DEF IInv

\* An answer, or the check of a manager's payment, that writes no settlement.
LEMMA SinPagoMantiene ==
    ASSUME IInv, NEW p \in Pedidos, pago[p].fase # "no",
           NEW fase \in {"pedido", "leido", "si", "rechazado"},
           \/ pago' = [pago EXCEPT ![p].fase = fase]
           \/ UNCHANGED pago,
           fase = "leido" =>
              /\ DeGerente(pago[p].llave) /\ liq[pago[p].llave].estado = "ACORDADA"
              /\ \A q \in Pedidos :
                    pago[q].fase = "leido" => pago[q].llave # pago[p].llave,
           UNCHANGED <<cortes, ventas, movidas, politicas, config, liq, gastos, acuerdo>>
    PROVE  IInv'
<1>1. /\ pago' \in [Pedidos -> Pago]
      /\ \A q \in Pedidos :
            /\ pago'[q].llave = pago[q].llave
            /\ pago'[q].version = pago[q].version
            /\ pago'[q].importe = pago[q].importe
            /\ pago'[q].fase = pago[q].fase \/ (q = p /\ pago'[q].fase = fase)
  BY MismoPedido DEF IInv, Tipos
<1>2. Tipos'
  BY <1>1 DEF IInv, Tipos, CortesValidos, CorteValido, Largo
<1>3. \A j \in Llaves : Liquidada(j)' /\ EnVuelo(j)'
  BY DEF IInv, Liquidada, EnVuelo, Cuenta
<1>4. ASSUME NEW q \in Pedidos PROVE Visto(q)'
  <2>1. Visto(q)
    BY DEF IInv
  <2>2. CASE pago'[q].fase = pago[q].fase
    BY <1>1, <2>1, <2>2 DEF Visto
  <2>3. CASE q = p /\ pago'[q].fase = fase
    BY <1>1, <2>1, <2>3 DEF Visto
  <2>4. QED
    BY <1>1, <2>2, <2>3
<1>5. UnLeido'
  BY <1>1 DEF IInv, UnLeido
<1>6. UnaPoliticaPorDia'
  BY DEF IInv, UnaPoliticaPorDia
<1>7. QED
  BY <1>2, <1>3, <1>4, <1>5, <1>6 DEF IInv

\* The payment of an agreed settlement: of a seller with its expense, of a
\* manager after its check.
LEMMA PagadaMantiene ==
    ASSUME IInv, NEW p \in Pedidos, pago[p].fase \in {"pedido", "leido"},
           NEW fase \in {"pedido", "si"},
           \/ pago' = [pago EXCEPT ![p].fase = fase]
           \/ pago[p].fase = "pedido" /\ UNCHANGED pago,
           liq[pago[p].llave].estado = "ACORDADA",
           liq' = Pagada(p),
           \/ DeGerente(pago[p].llave) /\ pago[p].fase = "leido" /\ UNCHANGED gastos
           \/ /\ ~ DeGerente(pago[p].llave)
              /\ gastos' = [gastos EXCEPT ![pago[p].llave] =
                                Append(@, liq[pago[p].llave].importe)],
           UNCHANGED <<cortes, ventas, movidas, politicas, config, acuerdo>>
    PROVE  IInv'
<1>1. PICK k : k = pago[p].llave
  OBVIOUS
<1>2. PICK g : g = liq[k]
  OBVIOUS
<1>3. /\ k \in Llaves /\ g # NoHay
      /\ liq \in [Llaves -> Fila \cup {NoHay}]
      /\ gastos \in [Llaves -> Seq(Nat)]
      /\ pago \in [Pedidos -> Pago]
  BY <1>1, <1>2 DEF IInv, Tipos, Visto
<1>4. g \in Fila /\ g.estado = "ACORDADA"
  BY <1>1, <1>2, <1>3
<1>5. PICK v : v = g.version + 1
  OBVIOUS
<1>6. g.version \in Nat /\ v \in Nat /\ v > g.version
  BY <1>4, <1>5 DEF Fila
<1>7. PICK f : f = [g EXCEPT !.estado = "PAGADA", !.clave = p, !.version = v]
  OBVIOUS
<1>8. liq' = [liq EXCEPT ![k] = f]
  BY <1>1, <1>2, <1>3, <1>5, <1>7 DEF Pagada
<1>9. /\ f \in Fila /\ f.estado = "PAGADA" /\ f.clave = p /\ f.version = v
      /\ f.desde = g.desde /\ f.hasta = g.hasta /\ f.ops = g.ops
      /\ f.importe = g.importe
  BY <1>4, <1>6, <1>7 DEF Fila
<1>10. /\ liq' \in [Llaves -> Fila \cup {NoHay}]
       /\ liq'[k] = f /\ f # NoHay
       /\ \A j \in Llaves : j # k => liq'[j] = liq[j]
  BY <1>3, <1>8, <1>9, FilasPosibles
<1>11. /\ pago' \in [Pedidos -> Pago]
       /\ \A q \in Pedidos :
             /\ pago'[q].llave = pago[q].llave
             /\ pago'[q].version = pago[q].version
             /\ pago'[q].importe = pago[q].importe
             /\ pago'[q].fase = pago[q].fase \/ (q = p /\ pago'[q].fase = fase)
  BY <1>3, MismoPedido
<1>12. pago'[p].fase # "leido"
  BY <1>3 DEF Pago
<1>13. /\ gastos' \in [Llaves -> Seq(Nat)]
       /\ DeGerente(k) => gastos' = gastos
       /\ ~ DeGerente(k) => Len(gastos'[k]) = Len(gastos[k]) + 1
       /\ \A j \in Llaves : j # k => gastos'[j] = gastos[j]
  <2>1. CASE DeGerente(k)
    BY <1>1, <1>3, <2>1
  <2>2. CASE ~ DeGerente(k)
    <3>1. gastos' = [gastos EXCEPT ![k] = Append(@, g.importe)]
      BY <1>1, <1>2, <2>2
    <3>2. gastos[k] \in Seq(Nat) /\ g.importe \in Nat
      BY <1>3, <1>4 DEF Fila
    <3>3. /\ Append(gastos[k], g.importe) \in Seq(Nat)
          /\ Len(Append(gastos[k], g.importe)) = Len(gastos[k]) + 1
      BY <3>2
    <3>4. QED
      BY <1>3, <2>2, <3>1, <3>3
  <2>3. QED
    BY <2>1, <2>2
<1>14. Tipos'
  BY <1>10, <1>11, <1>13 DEF IInv, Tipos, CortesValidos, CorteValido, Largo
<1>15. ASSUME NEW j, NEW ops, Cuenta(j, ops) PROVE Cuenta(j, ops)'
  BY <1>15 DEF Cuenta
<1>16. ASSUME NEW j \in Llaves PROVE Liquidada(j)' /\ EnVuelo(j)'
  <2>1. Liquidada(j) /\ EnVuelo(j)
    BY DEF IInv
  <2>2. CASE j = k
    <3>1. /\ g.desde = range(cortes, k[2]).from /\ g.hasta = range(cortes, k[2]).to
          /\ Cuenta(k, g.ops) /\ Len(gastos[k]) = 0
      BY <1>2, <1>3, <1>4, <2>1, <2>2 DEF Liquidada
    <3>2. Cuenta(k, f.ops)'
      BY <1>9, <1>15, <3>1
    <3>3. PagoCompleto(f)
      BY <1>9, Entradas DEF PagoCompleto
    <3>4. Len(gastos'[k]) = IF ~ DeGerente(k) THEN 1 ELSE 0
      <4>1. CASE DeGerente(k)
        BY <1>13, <3>1, <4>1
      <4>2. CASE ~ DeGerente(k)
        <5>1. Len(gastos'[k]) = Len(gastos[k]) + 1
          BY <1>13, <4>2
        <5>2. QED
          BY <3>1, <4>2, <5>1
      <4>3. QED
        BY <4>1, <4>2
    <3>5. Liquidada(j)'
      BY <1>9, <1>10, <2>2, <3>1, <3>2, <3>3, <3>4 DEF Liquidada, Cuenta, PagoCompleto
    <3>6. EnVuelo(j)'
      BY <1>2, <1>3, <1>10, <2>1, <2>2 DEF EnVuelo, Cuenta
    <3>7. QED
      BY <3>5, <3>6
  <2>3. CASE j # k
    <3>1. Liquidada(j)'
      BY <1>10, <1>13, <2>1, <2>3 DEF Liquidada, Cuenta, PagoCompleto
    <3>2. EnVuelo(j)'
      BY <1>10, <2>1, <2>3 DEF EnVuelo, Cuenta
    <3>3. QED
      BY <3>1, <3>2
  <2>4. QED
    BY <2>2, <2>3
<1>17. ASSUME NEW q \in Pedidos PROVE Visto(q)'
  <2>1. Visto(q) /\ pago[q] \in Pago
    BY <1>3 DEF IInv
  <2>2. CASE pago'[q].fase # "no" /\ pago[q].llave = k
    <3>1. pago[q].fase # "no"
      BY <1>11, <2>2
    <3>2. pago[q].version \in Nat /\ pago[q].version <= g.version
      BY <1>2, <2>1, <2>2, <3>1 DEF Visto, Pago
    <3>3. pago[q].version <= v /\ pago[q].version # v
      BY <1>6, <3>2
    <3>4. pago'[q].fase # "leido"
      <4>1. CASE q = p
        BY <1>12, <4>1
      <4>2. CASE q # p
        <5>1. pago'[q].fase = pago[q].fase
          BY <1>11, <4>2
        <5>2. pago[q].fase = "leido" => DeGerente(k)
          BY <2>1, <2>2 DEF Visto
        <5>3. pago[q].fase = "leido" => pago[p].fase # "leido"
          BY <1>1, <2>2, <4>2 DEF IInv, UnLeido
        <5>4. QED
          BY <1>1, <5>1, <5>2, <5>3
      <4>3. QED
        BY <4>1, <4>2
    <3>5. QED
      BY <1>3, <1>9, <1>10, <1>11, <2>2, <3>3, <3>4 DEF Visto
  <2>3. CASE pago'[q].fase # "no" /\ pago[q].llave # k
    <3>1. pago[q].fase # "no" /\ pago'[q].fase = "leido" => pago[q].fase = "leido"
      BY <1>11, <1>12, <2>3
    <3>2. pago[q].fase # "no"
      BY <1>11, <2>3
    <3>3. QED
      BY <1>10, <1>11, <2>1, <2>3, <3>1, <3>2 DEF Visto
  <2>4. QED
    BY <2>2, <2>3 DEF Visto
<1>18. UnLeido'
  BY <1>11, <1>12 DEF IInv, UnLeido
<1>19. UnaPoliticaPorDia'
  BY DEF IInv, UnaPoliticaPorDia
<1>20. QED
  BY <1>14, <1>16, <1>17, <1>18, <1>19 DEF IInv

\* Every step of a payment.
LEMMA PagoMantiene ==
    ASSUME IInv, NEW p \in Pedidos,
           pay(p) \/ payManagerCommission(p) \/ ConfirmarPago(p)
    PROVE  IInv'
<1>1. CASE pay(p)
  <2>1. /\ pago[p].fase = "pedido" /\ ~ DeGerente(pago[p].llave)
        /\ UNCHANGED <<cortes, ventas, movidas, politicas, config, acuerdo>>
    BY <1>1 DEF pay
  <2>2. CASE /\ Pagable(p) /\ liq' = Pagada(p)
             /\ gastos' = [gastos EXCEPT ![pago[p].llave] =
                              Append(@, liq[pago[p].llave].importe)]
             /\ Responde(p, "si")
    <3>1. liq[pago[p].llave].estado = "ACORDADA"
      BY <2>2 DEF Pagable
    <3>2. pago' = [pago EXCEPT ![p].fase = "si"] \/ UNCHANGED pago
      BY <2>2 DEF Responde
    <3>3. QED
      BY <2>1, <2>2, <3>1, <3>2, PagadaMantiene
  <2>3. CASE (Responde(p, "si") \/ Responde(p, "rechazado")) /\ UNCHANGED <<liq, gastos>>
    <3>1. \/ pago' = [pago EXCEPT ![p].fase = "si"]
          \/ pago' = [pago EXCEPT ![p].fase = "rechazado"]
          \/ UNCHANGED pago
      BY <2>3 DEF Responde
    <3>2. QED
      BY <2>1, <2>3, <3>1, SinPagoMantiene
  <2>4. QED
    BY <1>1, <2>2, <2>3 DEF pay
<1>2. CASE payManagerCommission(p)
  <2>1. /\ pago[p].fase = "pedido" /\ DeGerente(pago[p].llave)
        /\ \A q \in Pedidos : pago[q].fase = "leido" => pago[q].llave # pago[p].llave
        /\ UNCHANGED <<cortes, ventas, movidas, politicas, config, liq, gastos, acuerdo>>
    BY <1>2 DEF payManagerCommission
  <2>2. CASE Pagable(p) /\ pago' = [pago EXCEPT ![p].fase = "leido"]
    <3>1. liq[pago[p].llave].estado = "ACORDADA"
      BY <2>2 DEF Pagable
    <3>2. QED
      BY <2>1, <2>2, <3>1, SinPagoMantiene
  <2>3. CASE Responde(p, "rechazado")
    <3>1. pago' = [pago EXCEPT ![p].fase = "rechazado"] \/ UNCHANGED pago
      BY <2>3 DEF Responde
    <3>2. QED
      BY <2>1, <3>1, SinPagoMantiene
  <2>4. QED
    BY <1>2, <2>2, <2>3 DEF payManagerCommission
<1>3. CASE ConfirmarPago(p)
  <2>1. /\ pago[p].fase = "leido" /\ liq' = Pagada(p)
        /\ \/ pago' = [pago EXCEPT ![p].fase = "si"]
           \/ pago' = [pago EXCEPT ![p].fase = "pedido"]
        /\ UNCHANGED <<cortes, ventas, movidas, politicas, config, gastos, acuerdo>>
    BY <1>3 DEF ConfirmarPago
  <2>2. DeGerente(pago[p].llave) /\ liq[pago[p].llave].estado = "ACORDADA"
    BY <2>1 DEF IInv, Visto
  <2>3. QED
    BY <2>1, <2>2, PagadaMantiene
<1>4. QED
  BY <1>1, <1>2, <1>3

-------------------------------------------------------------------------------
(* The invariant *)

LEMMA IInvInicial == ASSUME Init PROVE IInv
<1>1. PICK e \in Escenarios :
        /\ cortes = [m \in Meses |-> NoHay]
        /\ ventas = [o \in Operaciones |-> [dia |-> NoHay, estado |-> "BORRADOR"]]
        /\ movidas = {}
        /\ politicas = e.politicas
        /\ config = e.config
        /\ liq = [k \in Llaves |-> NoHay]
        /\ gastos = [k \in Llaves |-> <<>>]
        /\ acuerdo = [k \in Llaves |-> NoHay]
        /\ pago = [p \in Pedidos |->
                     [fase |-> "no", llave |-> NoHay, version |-> 0, importe |-> 0]]
        /\ quedan = e.quedan
  BY DEF Init
<1>2. /\ politicas \in [Politicas -> Politica \cup {NoHay}]
      /\ SinSolape(politicas)
      /\ config # NoHay => config \in Configuracion /\ ConMonto(config, politicas)
  BY <1>1, EscenariosPosibles
<1>3. CortesValidos(cortes) /\ \A m \in Meses : Largo(cortes, m)
  BY <1>1 DEF CortesValidos, CorteValido, Largo
<1>4. /\ cortes \in [Meses -> Int \cup {NoHay}]
      /\ ventas \in [Operaciones -> Venta]
      /\ pago \in [Pedidos -> Pago]
  BY <1>1 DEF Venta, Pago
<1>5. /\ liq \in [Llaves -> Fila \cup {NoHay}]
      /\ gastos \in [Llaves -> Seq(Nat)]
      /\ acuerdo \in [Llaves -> Acuerdo \cup {NoHay}]
  BY <1>1
<1>6. Tipos
  BY <1>1, <1>2, <1>3, <1>4, <1>5 DEF Tipos
<1>7. \A k \in Llaves : Liquidada(k) /\ EnVuelo(k)
  BY <1>1 DEF Liquidada, EnVuelo
<1>8. (\A p \in Pedidos : Visto(p)) /\ UnLeido
  BY <1>1 DEF Visto, UnLeido
<1>9. QED
  BY <1>2, <1>6, <1>7, <1>8 DEF IInv, UnaPoliticaPorDia

LEMMA IInvPaso == ASSUME IInv, [Next]_vars PROVE IInv'
<1>1. CASE UNCHANGED vars
  <2>1. UNCHANGED <<cortes, ventas, movidas, politicas, config, liq, gastos, acuerdo, pago>>
    BY <1>1 DEF vars
  <2>2. Tipos'
    BY <2>1 DEF IInv, Tipos, CortesValidos, CorteValido, Largo
  <2>3. \A k \in Llaves : Liquidada(k)' /\ EnVuelo(k)'
    BY <2>1 DEF IInv, Liquidada, EnVuelo, Cuenta
  <2>4. (\A p \in Pedidos : Visto(p)') /\ UnLeido' /\ UnaPoliticaPorDia'
    BY <2>1 DEF IInv, Visto, UnLeido, UnaPoliticaPorDia
  <2>5. QED
    BY <2>2, <2>3, <2>4 DEF IInv
<1>2. ASSUME NEW m \in Meses, removeCut(m) \/ \E d \in cutBounds(m) : setCut(m, d)
      PROVE  IInv'
  BY <1>2, CorteMantiene DEF removeCut, setCut
<1>3. ASSUME NEW id \in Politicas,
             \/ activatePolicy(id) \/ deactivatePolicy(id) \/ deletePolicy(id)
             \/ \E f \in PoliticasPedidas : createPolicy(id, f) \/ updatePolicy(id, f)
      PROVE  IInv'
  BY <1>3, PoliticaMantiene
<1>4. ASSUME NEW c \in Configuraciones, saveManagerCommissionConfig(c)
      PROVE  IInv'
  BY <1>4, ConfigMantiene
<1>5. ASSUME NEW o \in Operaciones,
             \/ \E d \in DiasVenta : Vender(o, d) \/ CorregirFecha(o, d)
             \/ CancelarVenta(o)
      PROVE  IInv'
  BY <1>5, VentaMantiene
<1>6. ASSUME NEW k \in Llaves,
             \/ \E i \in Importes : agree(k, i)
             \/ agreeManagerCommission(k) \/ Confirmar(k) \/ Deshacer(k)
             \/ \E p \in Pedidos : PedirPago(p, k)
      PROVE  IInv'
  BY <1>6, AcuerdoMantiene, AcuerdoGerenteMantiene, ConfirmarMantiene,
     DeshacerMantiene, PedirMantiene
<1>7. ASSUME NEW p \in Pedidos, pay(p) \/ payManagerCommission(p) \/ ConfirmarPago(p)
      PROVE  IInv'
  BY <1>7, PagoMantiene
<1>8. QED
  BY <1>1, <1>2, <1>3, <1>4, <1>5, <1>6, <1>7 DEF Next

\* The invariant from which the properties follow.
THEOREM Inductive == Spec => []IInv
<1>1. Init => IInv
  BY IInvInicial
<1>2. IInv /\ [Next]_vars => IInv'
  BY IInvPaso
<1>3. QED
  BY <1>1, <1>2, PTL DEF Spec

-------------------------------------------------------------------------------
(* What follows from it *)

\* Every row has its shape, cuts fall where their month allows and leave no
\* month too short, and a paid settlement of a seller has one expense.
THEOREM TypeCorrect == Spec => []TypeOK
<1>1. IInv => TypeOK
  <2> SUFFICES ASSUME IInv PROVE TypeOK
    OBVIOUS
  <2>1. ASSUME NEW m \in Meses, cortes[m] # NoHay
        PROVE  cortes[m] \in cutBounds(m) /\ rangeDays(range(cortes, m)) >= MinDias
    BY <2>1 DEF IInv, Tipos, CortesValidos, CorteValido, Largo
  <2>2. ASSUME NEW k \in Llaves
        PROVE  /\ liq[k] # NoHay => liq[k] \in Fila
               /\ Len(gastos[k]) =
                     IF liq[k] # NoHay /\ ~ DeGerente(k) /\ liq[k].estado = "PAGADA"
                     THEN 1 ELSE 0
    BY DEF IInv, Tipos, Liquidada
  <2>3. ASSUME NEW p \in Pedidos
        PROVE  /\ pago[p].fase \in {"no", "pedido", "leido", "si", "rechazado"}
               /\ pago[p].fase # "no" => pago[p].llave \in Llaves
    <3>1. pago[p] \in Pago /\ Visto(p)
      BY DEF IInv, Tipos
    <3>2. QED
      BY <3>1 DEF Pago, Visto
  <2>4. movidas \subseteq Operaciones
    BY DEF IInv, Tipos
  <2>5. QED
    BY <2>1, <2>2, <2>3, <2>4 DEF TypeOK
<1>2. QED
  BY <1>1, Inductive, PTL

\* However cuts move, a settlement is of exactly one working month with the
\* days it has today, and a sale that was not corrected is counted in its month
\* and once.
THEOREM EachSaleInItsMonth == Spec => []CadaVentaEnSuMes
<1>1. IInv => CadaVentaEnSuMes
  <2> SUFFICES ASSUME IInv, NEW k \in Llaves, liq[k] # NoHay
               PROVE  /\ [from |-> liq[k].desde, to |-> liq[k].hasta] = range(cortes, k[2])
                      /\ periodOfRange(liq[k].hasta) = k[2]
                      /\ \A o \in liq[k].ops \ movidas :
                            periodOf(cortes, ventas[o].dia) = k[2]
                      /\ \A j \in Llaves \ {k} :
                            (liq[j] # NoHay /\ DeGerente(j) = DeGerente(k))
                               => liq[j].ops \cap liq[k].ops \subseteq movidas
    BY DEF CadaVentaEnSuMes
  <2>1. /\ CortesValidos(cortes)
        /\ ventas \in [Operaciones -> Venta]
        /\ liq \in [Llaves -> Fila \cup {NoHay}]
    BY DEF IInv, Tipos
  <2>2. ASSUME NEW j \in Llaves, liq[j] # NoHay
        PROVE  /\ j[2] \in Int
               /\ liq[j].ops \subseteq Operaciones
               /\ liq[j].desde = range(cortes, j[2]).from
               /\ liq[j].hasta = range(cortes, j[2]).to
               /\ Cuenta(j, liq[j].ops)
    BY <2>1, <2>2 DEF IInv, Liquidada, Llaves, Meses, Fila
  <2>3. [from |-> liq[k].desde, to |-> liq[k].hasta] = range(cortes, k[2])
    BY <2>2 DEF range
  <2>4. periodOfRange(liq[k].hasta) = k[2]
    BY <2>1, <2>2, MesDelRango
\* The month of a sale that was not corrected is that of any settlement that counts it.
  <2>5. ASSUME NEW j \in Llaves, liq[j] # NoHay, NEW o \in liq[j].ops \ movidas
        PROVE  periodOf(cortes, ventas[o].dia) = j[2]
    <3>1. /\ o \in Operaciones /\ ventas[o].dia # NoHay
          /\ range(cortes, j[2]).from <= ventas[o].dia
          /\ ventas[o].dia <= range(cortes, j[2]).to
      BY <2>2, <2>5 DEF Cuenta
    <3>2. ventas[o].dia \in Int
      BY <2>1, <3>1 DEF Venta
    <3>3. QED
      BY <2>1, <2>2, <2>5, <3>1, <3>2, DiaDeSuMes
  <2>6. ASSUME NEW j \in Llaves \ {k}, liq[j] # NoHay, DeGerente(j) = DeGerente(k),
               NEW o \in (liq[j].ops \cap liq[k].ops) \ movidas
        PROVE  FALSE
    <3>1. j[2] = k[2]
      BY <2>5, <2>6
    <3>2. j[1] = k[1]
      <4>1. CASE DeGerente(k)
        BY <2>6, <4>1 DEF DeGerente
      <4>2. CASE ~ DeGerente(k)
        BY <2>2, <2>6, <4>2 DEF Cuenta
      <4>3. QED
        BY <4>1, <4>2
    <3>3. j = k
      BY <3>1, <3>2 DEF Llaves
    <3>4. QED
      BY <2>6, <3>3
  <2>7. QED
    BY <2>3, <2>4, <2>5, <2>6
<1>2. QED
  BY <1>1, Inductive, PTL

\* At most one policy of a scope is active on a day.
THEOREM OnePolicyPerDay == Spec => []UnaPoliticaPorDia
<1>1. IInv => UnaPoliticaPorDia
  BY DEF IInv
<1>2. QED
  BY <1>1, Inductive, PTL

\* The steps that write settlements.
LEMMA EscribeLiquidacion ==
    ASSUME [Next]_vars
    PROVE  \/ UNCHANGED liq
           \/ \E k \in Llaves : Confirmar(k)
           \/ \E p \in Pedidos : pay(p) \/ ConfirmarPago(p)
<1>1. CASE UNCHANGED vars
  BY <1>1 DEF vars
<1>2. CASE \E m \in Meses : removeCut(m) \/ \E d \in cutBounds(m) : setCut(m, d)
  BY <1>2 DEF removeCut, setCut, change
<1>3. CASE \E id \in Politicas :
             \/ activatePolicy(id) \/ deactivatePolicy(id) \/ deletePolicy(id)
             \/ \E f \in PoliticasPedidas : createPolicy(id, f) \/ updatePolicy(id, f)
  BY <1>3 DEF activatePolicy, deactivatePolicy, deletePolicy, createPolicy,
              updatePolicy, GuardaPolitica
<1>4. CASE \E c \in Configuraciones : saveManagerCommissionConfig(c)
  BY <1>4 DEF saveManagerCommissionConfig
<1>5. CASE \E o \in Operaciones :
             \/ \E d \in DiasVenta : Vender(o, d) \/ CorregirFecha(o, d)
             \/ CancelarVenta(o)
  BY <1>5 DEF Vender, CorregirFecha, CancelarVenta
<1>6. CASE \E k \in Llaves :
             \/ \E i \in Importes : agree(k, i)
             \/ agreeManagerCommission(k) \/ Confirmar(k) \/ Deshacer(k)
             \/ \E p \in Pedidos : PedirPago(p, k)
  BY <1>6 DEF agree, agreeManagerCommission, Acordar, Deshacer, PedirPago
<1>7. CASE \E p \in Pedidos : pay(p) \/ payManagerCommission(p) \/ ConfirmarPago(p)
  BY <1>7 DEF payManagerCommission
<1>8. QED
  BY <1>1, <1>2, <1>3, <1>4, <1>5, <1>6, <1>7 DEF Next

\* What a payment writes: the settlement of its key, which was agreed.
LEMMA LoPagado ==
    ASSUME IInv, NEW p \in Pedidos, pago[p].fase \in {"pedido", "leido"},
           liq[pago[p].llave].estado = "ACORDADA", liq' = Pagada(p)
    PROVE  /\ pago[p].llave \in Llaves
           /\ liq'[pago[p].llave].clave = p
           /\ liq'[pago[p].llave].importe = liq[pago[p].llave].importe
           /\ \A k \in Llaves : k # pago[p].llave => liq'[k] = liq[k]
<1>1. /\ pago[p].llave \in Llaves /\ liq[pago[p].llave] # NoHay
      /\ liq \in [Llaves -> Fila \cup {NoHay}]
  BY DEF IInv, Tipos, Visto
<1>2. liq[pago[p].llave] \in Fila
  BY <1>1
<1>3. QED
  BY <1>1, <1>2 DEF Pagada, Fila

\* What was paid does not change; only a manager's settlement can, by an
\* agreement that was in flight.
THEOREM PaidDoesNotChange == Spec => PagadaNoCambia
<1>1. IInv /\ [Next]_vars =>
        [\A k \in Llaves :
            (liq[k] # NoHay /\ liq[k].estado = "PAGADA") =>
                \/ liq'[k] = liq[k]
                \/ DeGerente(k) /\ acuerdo[k] # NoHay]_vars
  <2> SUFFICES ASSUME IInv, [Next]_vars, NEW k \in Llaves,
                      liq[k] # NoHay, liq[k].estado = "PAGADA"
               PROVE  liq'[k] = liq[k] \/ (DeGerente(k) /\ acuerdo[k] # NoHay)
    OBVIOUS
  <2>1. ASSUME NEW j \in Llaves, Confirmar(j)
        PROVE  liq'[k] = liq[k] \/ (DeGerente(k) /\ acuerdo[k] # NoHay)
    <3>1. /\ liq' = [liq EXCEPT ![j] = Acordada(j, acuerdo[j])]
          /\ acuerdo[j] # NoHay /\ PagoCompleto(Acordada(j, acuerdo[j]))
      BY <2>1 DEF Confirmar
    <3>2. CASE j = k
      BY <3>1, <3>2, LoAcordado
    <3>3. CASE j # k
      BY <3>1, <3>3 DEF IInv, Tipos
    <3>4. QED
      BY <3>2, <3>3
  <2>2. ASSUME NEW p \in Pedidos, pay(p) \/ ConfirmarPago(p)
        PROVE  liq'[k] = liq[k]
    <3>1. CASE UNCHANGED liq
      BY <3>1
    <3>2. CASE liq' # liq
      <4>1. /\ pago[p].fase \in {"pedido", "leido"}
            /\ liq[pago[p].llave].estado = "ACORDADA" /\ liq' = Pagada(p)
        BY <2>2, <3>2 DEF pay, ConfirmarPago, Pagable, IInv, Visto
      <4>2. k # pago[p].llave
        BY <4>1
      <4>3. QED
        BY <4>1, <4>2, LoPagado
    <3>3. QED
      BY <3>1, <3>2
  <2>3. QED
    BY <2>1, <2>2, EscribeLiquidacion
<1>2. QED
  BY <1>1, Inductive, PTL DEF Spec, PagadaNoCambia

\* A payment is of the amount its client read; only a manager's settlement can
\* change after the check.
THEOREM PaidAsRead == Spec => SePagaLoVisto
<1>1. IInv /\ [Next]_vars =>
        [\A k \in Llaves :
            (/\ liq[k] # NoHay /\ liq[k].estado = "ACORDADA"
             /\ liq'[k].estado = "PAGADA") =>
                \E p \in Pedidos :
                    /\ pago[p].llave = k /\ liq'[k].clave = p
                    /\ \/ liq'[k].importe = pago[p].importe
                       \/ pago[p].fase = "leido" /\ liq[k].version # pago[p].version]_vars
  <2> SUFFICES ASSUME IInv, [Next]_vars, NEW k \in Llaves,
                      liq[k] # NoHay, liq[k].estado = "ACORDADA",
                      liq'[k].estado = "PAGADA"
               PROVE  \E p \in Pedidos :
                         /\ pago[p].llave = k /\ liq'[k].clave = p
                         /\ \/ liq'[k].importe = pago[p].importe
                            \/ pago[p].fase = "leido" /\ liq[k].version # pago[p].version
    OBVIOUS
  <2>1. liq' # liq
    OBVIOUS
  <2>2. ASSUME NEW j \in Llaves, Confirmar(j)
        PROVE  FALSE
    <3>1. /\ liq' = [liq EXCEPT ![j] = Acordada(j, acuerdo[j])]
          /\ acuerdo[j] # NoHay /\ PagoCompleto(Acordada(j, acuerdo[j]))
          /\ liq \in [Llaves -> Fila \cup {NoHay}]
      BY <2>2 DEF Confirmar, IInv, Tipos
    <3>2. CASE j = k
      <4>1. liq'[k] = Acordada(k, acuerdo[k])
        BY <3>1, <3>2
      <4>2. liq'[k].estado # "PAGADA"
        BY <3>1, <3>2, <4>1, LoAcordado
      <4>3. QED
        BY <4>2
    <3>3. CASE j # k
      <4>1. liq'[k] = liq[k]
        BY <3>1, <3>3
      <4>2. QED
        BY <4>1
    <3>4. QED
      BY <3>2, <3>3
  <2>3. ASSUME NEW p \in Pedidos, pay(p) \/ ConfirmarPago(p)
        PROVE  /\ pago[p].llave = k /\ liq'[k].clave = p
               /\ \/ liq'[k].importe = pago[p].importe
                  \/ pago[p].fase = "leido" /\ liq[k].version # pago[p].version
    <3>1. /\ pago[p].fase \in {"pedido", "leido"}
          /\ liq[pago[p].llave].estado = "ACORDADA" /\ liq' = Pagada(p)
          /\ \/ pago[p].fase = "leido"
             \/ liq[pago[p].llave].version = pago[p].version
      BY <2>1, <2>3 DEF pay, ConfirmarPago, Pagable, IInv, Visto
    <3>2. pago[p].llave = k
      BY <3>1, LoPagado
    <3>3. liq'[k].clave = p /\ liq'[k].importe = liq[k].importe
      BY <3>1, <3>2, LoPagado
    <3>4. liq[k].version = pago[p].version => pago[p].importe = liq[k].importe
      BY <3>1, <3>2 DEF IInv, Visto
    <3>5. QED
      BY <3>1, <3>2, <3>3, <3>4
  <2>4. QED
    BY <2>1, <2>2, <2>3, EscribeLiquidacion
<1>2. QED
  BY <1>1, Inductive, PTL DEF Spec, SePagaLoVisto

===============================================================================
