--------------------------- MODULE CreditPlansProofs ---------------------------
(***************************************************************************)
(* Theorems about CreditPlans, for any number of plans, credits,           *)
(* instalments, amounts and transactions in flight.                        *)
(*                                                                         *)
(* A payment or a reversal writes what it computed when it read, so the    *)
(* invariant says of each transaction in flight what its row is relative   *)
(* to the instalment as it is: nobody else can change that one, its row is *)
(* locked.  Of the credit, which nobody locks, it can say that only while  *)
(* no other transaction of the credit was in flight.                       *)
(***************************************************************************)
EXTENDS CreditPlans, Sums

-------------------------------------------------------------------------------
(* The inductive invariant *)

Finitos == IsFiniteSet(ingreso) /\ IsFiniteSet(movimientos)

\* An instalment is of a credit, an income of an instalment, a movement of an
\* income; what is taken back was posted before.
Referencias ==
    /\ \A q \in DOMAIN cuota : q[1] \in DOMAIN credito
    /\ \A i \in ingreso : i.cuota \in DOMAIN cuota
    /\ \A m \in movimientos : \E i \in ingreso : m.ingreso = i.id
    /\ \A r \in movimientos : r.revierte # 0 =>
          \E m \in movimientos : m.id = r.revierte
    /\ \A t \in enCurso : t.cuota \in DOMAIN cuota

Distintos(A) == \A m, n \in A : m.id = n.id => m = n

\* The ids of incomes and movements are of one row, in flight or not.
IdsUnicos ==
    /\ Distintos(ingreso) /\ Distintos(movimientos)
    /\ \A t \in enCurso : t.tipo = "PAGO" => \A i \in ingreso : i.id # t.ingreso
    /\ \A t \in enCurso : t.mov.id # 0 => \A m \in movimientos : m.id # t.mov.id
    /\ \A t, u \in enCurso : t # u /\ t.mov.id # 0 => t.mov.id # u.mov.id

\* Two transactions hold different instalments and incomes; if these are of the
\* same credit, the credit is one of the overlapped.
Bloqueos ==
    \A t, u \in enCurso : t # u =>
        /\ t.cuota # u.cuota /\ t.ingreso # u.ingreso
        /\ t.cuota[1] = u.cuota[1] => t.cuota[1] \in solapados

EstadoSegun(fila) ==
    IF fila.pagado = fila.monto THEN "PAGADA"
    ELSE IF fila.pagado = 0 THEN "PENDIENTE" ELSE "PARCIAL"

EstadosSegun == \A q \in DOMAIN cuota : cuota[q].estado = EstadoSegun(cuota[q])

Resta(a, b) == IF a > b THEN a - b ELSE 0

\* What a payment is about to write.
PagoOK(t) ==
    /\ t.ingreso \in 1..MaxIngresos
    /\ t.alta = [id |-> t.ingreso, cuota |-> t.cuota, importe |-> t.mov.importe]
    /\ t.mov \in Movimiento /\ t.mov.ingreso = t.ingreso /\ t.mov.revierte = 0
    /\ t.fila.pagado = cuota[t.cuota].pagado + t.mov.importe

\* What a reversal is about to write, new or repeated.
ReversaOK(t) ==
    /\ \E i \in ingreso : i.id = t.ingreso /\ i.cuota = t.cuota
    /\ IF t.mov.id = 0 THEN t.fila.pagado <= cuota[t.cuota].pagado
       ELSE /\ t.mov \in Movimiento /\ t.mov.ingreso = t.ingreso
            /\ \E m \in Vivos(movimientos) :
                  /\ t.mov.revierte = m.id /\ t.mov.importe = m.importe
                  /\ m.ingreso = t.ingreso
            /\ t.fila.pagado = Resta(cuota[t.cuota].pagado, t.mov.importe)

\* The credit will be over exactly if this was the last instalment to pay.
FinalOK(t) ==
    LET k == t.cuota[1]
        despues == IF t.final = "" THEN credito[k].estado ELSE t.final
    IN  k \notin solapados =>
           (despues = "FINALIZADO" <=>
               t.fila.estado = "PAGADA" /\ SinPagar(k) \ {t.cuota} = {})

TransaccionOK(t) ==
    /\ CuotaOK(t.fila) /\ t.fila.monto = cuota[t.cuota].monto
    /\ t.fila.estado = EstadoSegun(t.fila)
    /\ t.final \in {"", "ACTIVO", "FINALIZADO"}
    /\ t.tipo \in {"PAGO", "REVERSA"}
    /\ t.tipo = "PAGO" => PagoOK(t)
    /\ t.tipo = "REVERSA" => ReversaOK(t)
    /\ FinalOK(t)

EnCursoOK == \A t \in enCurso : TransaccionOK(t)

CreditosSegun ==
    \A k \in DOMAIN credito \ solapados :
        credito[k].estado = "FINALIZADO" <=> SinPagar(k) = {}

IInv ==
    /\ TypeOK /\ Finitos /\ Referencias /\ IdsUnicos /\ Bloqueos
    /\ EstadosSegun /\ EnCursoOK /\ CreditosSegun
    /\ CuotasSumanTotal /\ PagadoEnCaja
-------------------------------------------------------------------------------
(* Types and ids *)

\* The amounts a column holds are positive; the ids are naturals other than 0.
LEMMA Cotas ==
    /\ MaxTotal \in Nat /\ Importes \subseteq Nat \ {0}
    /\ 1..MaxIngresos \subseteq Nat \ {0} /\ 1..MaxMovimientos \subseteq Nat \ {0}
    /\ Numeros \subseteq Nat \ {0} /\ IsFiniteSet(Numeros)
<1>1. /\ MaxCuotas \in Nat /\ MaxFinanciado \in Nat /\ MaxIngresos \in Nat
      /\ MaxMovimientos \in Nat
  BY CotasPositivas
<1>2. MaxTotal \in Nat
  BY <1>1 DEF MaxTotal
<1>3. IsFiniteSet(Numeros)
  BY <1>1, FS_Interval DEF Numeros
<1>4. QED
  BY <1>1, <1>2, <1>3 DEF Importes, Numeros

\* While some of the n ids are not taken, the least one is new.
LEMMA IdNuevo ==
    ASSUME NEW n \in Nat, NEW T, T \subseteq 1..n, Cardinality(T) < n
    PROVE  Menor((1..n) \ T) \in (1..n) \ T
<1> DEFINE libres == (1..n) \ T
<1>1. libres # {}
  <2>1. Cardinality(1..n) = n
    BY FS_Interval
  <2>2. T # 1..n
    BY <2>1
  <2>3. QED
    BY <2>2
<1>2. PICK i \in libres : \A m \in libres : i <= m
  BY <1>1, HayMenor, libres \subseteq Nat
<1>3. QED
  BY <1>2 DEF Menor

-------------------------------------------------------------------------------
(* The sums, of amounts given by a function *)

MovimientosDe(movs, id) == {m \in Vivos(movs) : m.ingreso = id}

\* What the movements movs leave collected of an income.
Neto(movs, id) == Suma([m \in movs |-> m.importe], MovimientosDe(movs, id))

\* What they leave of the incomes ings of an instalment.
Caja(ings, movs, q) ==
    Suma([i \in ings |-> Neto(movs, i.id)], {i \in ings : i.cuota = q})

\* What the instalments c of a credit add up to.
Total(c, k) == Suma([q \in DOMAIN c |-> c[q].monto], {q \in DOMAIN c : q[1] = k})

\* What an income collected is the net of its movements ...
LEMMA CobradoEs == ASSUME NEW i PROVE Cobrado(i) = Neto(movimientos, i.id)
<1> DEFINE S == MovimientosDe(movimientos, i.id)
<1>1. S \subseteq movimientos
  BY DEF MovimientosDe, Vivos
<1>2. MapThenSumSet(ImporteDe, S) = Suma([m \in movimientos |-> m.importe], S)
  <2> HIDE DEF S
  <2> QED BY <1>1 DEF Suma, MapThenSumSet, MapThenFoldSet, ImporteDe
<1>3. QED
  BY <1>2 DEF Cobrado, MovimientosDe, Neto

\* ... after a step too.
LEMMA CobradoEsPrima == ASSUME NEW i PROVE Cobrado(i)' = Neto(movimientos', i.id)
<1> DEFINE S == MovimientosDe(movimientos', i.id)
<1>1. S \subseteq movimientos'
  BY DEF MovimientosDe, Vivos
<1>2. MapThenSumSet(ImporteDe, S) = Suma([m \in movimientos' |-> m.importe], S)
  <2> HIDE DEF S
  <2> QED BY <1>1 DEF Suma, MapThenSumSet, MapThenFoldSet, ImporteDe
<1>3. QED
  BY <1>2 DEF Cobrado, MovimientosDe, Neto

\* What the accounts hold for an instalment is the net of its incomes ...
LEMMA EnCajaEs ==
    ASSUME IsFiniteSet(ingreso), NEW q
    PROVE  EnCaja(q) = Caja(ingreso, movimientos, q)
<1> DEFINE S == {i \in ingreso : i.cuota = q}
           F == [i \in ingreso |-> Cobrado(i)]
           G == [i \in ingreso |-> Neto(movimientos, i.id)]
<1>1. \A i \in S : F[i] = G[i]
  BY CobradoEs
<1>2. IsFiniteSet(S) /\ S \subseteq ingreso
  BY FS_Subset
<1>3. MapThenSumSet(Cobrado, S) = Suma(F, S)
  <2> HIDE DEF S
  <2> QED BY <1>2 DEF Suma, MapThenSumSet, MapThenFoldSet
<1>4. Suma(F, S) = Suma(G, S)
  <2> HIDE DEF S, F, G
  <2> QED BY <1>1, <1>2, SumaIgual
<1>5. QED
  BY <1>3, <1>4 DEF EnCaja, IngresosDe, Caja

\* ... after a step too.
LEMMA EnCajaEsPrima ==
    ASSUME IsFiniteSet(ingreso'), NEW q
    PROVE  EnCaja(q)' = Caja(ingreso', movimientos', q)
<1> DEFINE S == {i \in ingreso' : i.cuota = q}
           F == [i \in ingreso' |-> Cobrado(i)']
           G == [i \in ingreso' |-> Neto(movimientos', i.id)]
<1>1. \A i \in S : F[i] = G[i]
  BY CobradoEsPrima
<1>2. IsFiniteSet(S) /\ S \subseteq ingreso'
  BY FS_Subset
<1>3. EnCaja(q)' = Suma(F, S)
  <2>1. S = IngresosDe(q)'
    BY DEF IngresosDe
  <2> HIDE DEF S
  <2> QED BY <1>2, <2>1 DEF EnCaja, Suma, MapThenSumSet, MapThenFoldSet
<1>4. Suma(F, S) = Suma(G, S)
  <2> HIDE DEF S, F, G
  <2> QED BY <1>1, <1>2, SumaIgual
<1>5. QED
  BY <1>3, <1>4 DEF Caja

\* The sum of the instalments of a credit ...
LEMMA TotalEs == ASSUME NEW k PROVE SumaDeCuotas(k) = Total(cuota, k)
BY DEF SumaDeCuotas, Monto, Total, Suma, MapThenSumSet, MapThenFoldSet

\* ... after a step too.
LEMMA TotalEsPrima == ASSUME NEW k PROVE SumaDeCuotas(k)' = Total(cuota', k)
BY DEF SumaDeCuotas, Monto, Total, Suma, MapThenSumSet, MapThenFoldSet

\* Ids and amounts of movements.
LEMMA MovimientoEs ==
    ASSUME NEW m \in Movimiento
    PROVE  m.id \in Nat /\ m.id # 0 /\ m.importe \in Nat /\ m.importe # 0 /\ m.importe \in Int
<1>1. m.id \in 1..MaxMovimientos /\ m.importe \in Importes
  BY DEF Movimiento
<1>2. m.id \in Nat \ {0}
  <2>1. MaxMovimientos \in Nat
    BY CotasPositivas
  <2>2. QED
    BY <1>1, <2>1
<1>3. m.importe \in Nat \ {0}
  BY <1>1, Cotas
<1>4. QED
  BY <1>2, <1>3

\* What is left of an income is a natural number.
LEMMA NetoNat ==
    ASSUME NEW movs, movs \subseteq Movimiento, IsFiniteSet(movs), NEW id
    PROVE  Neto(movs, id) \in Nat
<1> DEFINE F == [m \in movs |-> m.importe]
           S == MovimientosDe(movs, id)
<1>1. IsFiniteSet(S) /\ S \in SUBSET S
  BY FS_Subset, S \subseteq movs DEF MovimientosDe, Vivos
<1>2. Naturales(F, S)
  BY MovimientoEs DEF Naturales, MovimientosDe, Vivos
<1>3. Suma(F, S) \in Nat
  <2> HIDE DEF F, S
  <2> QED BY <1>1, <1>2, SumaParte
<1>4. QED
  BY <1>3 DEF Neto

\* It may be summed over more movements than it has.
LEMMA NetoEn ==
    ASSUME NEW movs, NEW mas, movs \subseteq mas, IsFiniteSet(movs), NEW id
    PROVE  Neto(movs, id) = Suma([m \in mas |-> m.importe], MovimientosDe(movs, id))
<1> DEFINE F == [m \in movs |-> m.importe]
           G == [m \in mas |-> m.importe]
           S == MovimientosDe(movs, id)
<1>1. IsFiniteSet(S) /\ \A m \in S : F[m] = G[m]
  BY FS_Subset, S \subseteq movs DEF MovimientosDe, Vivos
<1>2. Suma(F, S) = Suma(G, S)
  <2> HIDE DEF F, G, S
  <2> QED BY <1>1, SumaIgual
<1>3. QED
  BY <1>2 DEF Neto

Aporta(m, id) == IF m.ingreso = id THEN m.importe ELSE 0

\* A movement nobody takes back adds its amount to its income.
LEMMA PublicarNeto ==
    ASSUME NEW movs, movs \subseteq Movimiento, IsFiniteSet(movs),
           NEW m \in Movimiento, m.revierte = 0,
           \A n \in movs : n.id # m.id /\ n.revierte # m.id,
           NEW id
    PROVE  Neto(movs \cup {m}, id) = Neto(movs, id) + Aporta(m, id)
<1> DEFINE mas == movs \cup {m}
           F == [n \in mas |-> n.importe]
           S == MovimientosDe(movs, id)
           T == MovimientosDe(mas, id)
<1>1. m.id # 0 /\ m.importe \in Int
  BY MovimientoEs
<1>2. Vivos(mas) = Vivos(movs) \cup {m}
  BY <1>1 DEF Vivos
<1>3. T = IF m.ingreso = id THEN S \cup {m} ELSE S
  BY <1>2 DEF MovimientosDe
<1>4. IsFiniteSet(mas) /\ movs \subseteq mas
  BY FS_AddElement
<1>5. Neto(movs, id) = Suma(F, S) /\ Neto(mas, id) = Suma(F, T)
  BY <1>4, NetoEn
<1>6. IsFiniteSet(S) /\ Enteros(F, S) /\ m \notin S /\ F[m] = m.importe
  BY FS_Subset, S \subseteq movs, MovimientoEs DEF MovimientosDe, Vivos, Enteros
<1>7. Suma(F, S) \in Int
  <2> HIDE DEF F, S
  <2> QED BY <1>6, SumaEntera
<1>8. CASE m.ingreso = id
  <2>1. Suma(F, S \cup {m}) = m.importe + Suma(F, S)
    <3> HIDE DEF F, S
    <3> QED BY <1>1, <1>6, SumaMas
  <2>2. QED
    <3>1. T = S \cup {m} /\ Aporta(m, id) = m.importe
      BY <1>3, <1>8 DEF Aporta
    <3> HIDE DEF F, S, T, mas
    <3>2. Neto(mas, id) = Neto(movs, id) + Aporta(m, id)
      BY <1>1, <1>5, <1>7, <2>1, <3>1
    <3>3. QED
      BY <3>2 DEF mas
<1>9. CASE m.ingreso # id
  <2>1. T = S /\ Aporta(m, id) = 0
    BY <1>3, <1>9 DEF Aporta
  <2>2. Neto(mas, id) = Neto(movs, id) + Aporta(m, id)
    <3> HIDE DEF F, S, T, mas
    <3> QED BY <1>5, <1>7, <2>1
  <2>3. QED
    BY <2>2
<1>10. QED
  BY <1>8, <1>9

\* A movement that takes back one that stands subtracts its amount.
LEMMA RevertirNeto ==
    ASSUME NEW movs, movs \subseteq Movimiento, IsFiniteSet(movs), Distintos(movs),
           NEW r \in Movimiento, NEW m \in Vivos(movs), r.revierte = m.id,
           \A n \in movs : n.id # r.id,
           NEW id
    PROVE  Neto(movs \cup {r}, id) = Neto(movs, id) - Aporta(m, id)
<1> DEFINE mas == movs \cup {r}
           F == [n \in mas |-> n.importe]
           S == MovimientosDe(movs, id)
           T == MovimientosDe(mas, id)
<1>1. m \in movs /\ m.id # 0 /\ m.importe \in Int
  BY MovimientoEs DEF Vivos
<1>2. Vivos(mas) = Vivos(movs) \ {m}
  BY <1>1 DEF Vivos, Distintos
<1>3. T = S \ {m} /\ (m \in S <=> m.ingreso = id)
  BY <1>2 DEF MovimientosDe
<1>4. IsFiniteSet(mas) /\ movs \subseteq mas
  BY FS_AddElement
<1>5. Neto(movs, id) = Suma(F, S) /\ Neto(mas, id) = Suma(F, T)
  BY <1>4, NetoEn
<1>6. IsFiniteSet(S) /\ Enteros(F, S) /\ F[m] = m.importe
  BY <1>1, FS_Subset, S \subseteq movs, MovimientoEs DEF MovimientosDe, Vivos, Enteros
<1>7. Suma(F, S) \in Int /\ Suma(F, S \ {m}) \in Int
  <2>1. IsFiniteSet(S \ {m}) /\ Enteros(F, S \ {m})
    BY <1>6, FS_Subset DEF Enteros
  <2> HIDE DEF F, S
  <2> QED BY <1>6, <2>1, SumaEntera
<1>8. CASE m.ingreso = id
  <2>1. Suma(F, S) = m.importe + Suma(F, S \ {m})
    <3>1. m \in S
      BY <1>3, <1>8
    <3> HIDE DEF F, S
    <3> QED BY <1>6, <3>1, SumaMenos
  <2>2. QED
    <3>1. T = S \ {m} /\ Aporta(m, id) = m.importe
      BY <1>3, <1>8 DEF Aporta
    <3> HIDE DEF F, S, T, mas
    <3>2. Neto(mas, id) = Neto(movs, id) - Aporta(m, id)
      BY <1>1, <1>5, <1>7, <2>1, <3>1
    <3>3. QED
      BY <3>2 DEF mas
<1>9. CASE m.ingreso # id
  <2>1. T = S /\ Aporta(m, id) = 0
    BY <1>3, <1>9 DEF Aporta
  <2>2. Neto(mas, id) = Neto(movs, id) - Aporta(m, id)
    <3> HIDE DEF F, S, T, mas
    <3> QED BY <1>5, <1>7, <2>1
  <2>3. QED
    BY <2>2
<1>10. QED
  BY <1>8, <1>9

\* What the accounts hold of an instalment is a natural number.
LEMMA CajaNat ==
    ASSUME NEW ings, IsFiniteSet(ings), NEW movs, movs \subseteq Movimiento,
           IsFiniteSet(movs), NEW q
    PROVE  Caja(ings, movs, q) \in Nat
<1> DEFINE F == [i \in ings |-> Neto(movs, i.id)]
           S == {i \in ings : i.cuota = q}
<1>1. IsFiniteSet(S) /\ S \in SUBSET S /\ Naturales(F, S)
  BY FS_Subset, NetoNat DEF Naturales
<1>2. Suma(F, S) \in Nat
  <2> HIDE DEF F, S
  <2> QED BY <1>1, SumaParte
<1>3. QED
  BY <1>2 DEF Caja

\* A change of d in what is left of one income is one in its instalment.
LEMMA CajaCambia ==
    ASSUME NEW ings, IsFiniteSet(ings), Distintos(ings), NEW j \in ings, NEW d \in Int,
           NEW movs, movs \subseteq Movimiento, IsFiniteSet(movs), NEW otros,
           \A id : Neto(otros, id) = Neto(movs, id) + IF id = j.id THEN d ELSE 0,
           NEW q
    PROVE  Caja(ings, otros, q) = Caja(ings, movs, q) + IF j.cuota = q THEN d ELSE 0
<1> DEFINE F == [i \in ings |-> Neto(movs, i.id)]
           G == [i \in ings |-> Neto(otros, i.id)]
           S == {i \in ings : i.cuota = q}
<1>0. \A id : Neto(movs, id) \in Int
  BY NetoNat
<1>1. IsFiniteSet(S) /\ Enteros(F, S) /\ (j \in S <=> j.cuota = q)
  BY <1>0, FS_Subset DEF Enteros
<1>2. /\ \A i \in S \ {j} : G[i] = F[i]
      /\ j \in S => G[j] = F[j] + d /\ F[j] \in Int /\ G[j] \in Int
  BY <1>0 DEF Distintos
<1>3. Suma(F, S) \in Int
  <2> HIDE DEF F, S
  <2> QED BY <1>1, SumaEntera
<1>4. CASE j.cuota = q
  <2>1. Suma(G, S) = Suma(F, S) - F[j] + G[j]
    <3>1. j \in S
      BY <1>1, <1>4
    <3> HIDE DEF F, G, S
    <3> QED BY <1>1, <1>2, <3>1, SumaCambia
  <2>2. Suma(G, S) = Suma(F, S) + d
    <3> HIDE DEF F, G, S
    <3> QED BY <1>1, <1>2, <1>3, <1>4, <2>1
  <2>3. QED
    BY <1>4, <2>2 DEF Caja
<1>5. CASE j.cuota # q
  <2>1. Suma(G, S) = Suma(F, S)
    <3>1. S \ {j} = S
      BY <1>5
    <3>2. \A i \in S : G[i] = F[i]
      <4> HIDE DEF F, G, S
      <4> QED BY <1>2, <3>1
    <3> HIDE DEF F, G, S
    <3> QED BY <1>1, <3>2, SumaIgual
  <2>2. Suma(G, S) = Suma(F, S) + 0
    BY <1>3, <2>1
  <2>3. QED
    BY <1>5, <2>2 DEF Caja
<1>6. QED
  BY <1>4, <1>5

\* A new income adds what is left of it.
LEMMA CajaMas ==
    ASSUME NEW ings, IsFiniteSet(ings), NEW i, \A j \in ings : j.id # i.id,
           NEW movs, movs \subseteq Movimiento, IsFiniteSet(movs), NEW q
    PROVE  Caja(ings \cup {i}, movs, q)
               = Caja(ings, movs, q) + IF i.cuota = q THEN Neto(movs, i.id) ELSE 0
<1> DEFINE mas == ings \cup {i}
           F == [j \in ings |-> Neto(movs, j.id)]
           G == [j \in mas |-> Neto(movs, j.id)]
           S == {j \in ings : j.cuota = q}
           T == {j \in mas : j.cuota = q}
<1>0. \A id : Neto(movs, id) \in Int
  BY NetoNat
<1>1. /\ IsFiniteSet(S) /\ Enteros(G, S) /\ i \notin S /\ G[i] \in Int
      /\ G[i] = Neto(movs, i.id) /\ \A j \in S : F[j] = G[j]
  BY <1>0, FS_Subset DEF Enteros
<1>2. T = IF i.cuota = q THEN S \cup {i} ELSE S
  OBVIOUS
<1>3. Suma(F, S) = Suma(G, S) /\ Suma(G, S) \in Int
  <2> HIDE DEF F, G, S
  <2> QED BY <1>1, SumaIgual, SumaEntera
<1>4. Suma(G, S \cup {i}) = G[i] + Suma(G, S)
  <2> HIDE DEF F, G, S
  <2> QED BY <1>1, SumaMas
<1>5. Suma(G, T) = Suma(F, S) + IF i.cuota = q THEN Neto(movs, i.id) ELSE 0
  <2> HIDE DEF F, G, S, T
  <2> QED BY <1>1, <1>2, <1>3, <1>4
<1>6. QED
  BY <1>5 DEF Caja


-------------------------------------------------------------------------------
(* What the steps have in common *)

\* The bounds of the invariant on what was paid, with sums over functions.
LEMMA PagadoMenor ==
    ASSUME IInv, NEW q \in DOMAIN cuota
    PROVE  /\ cuota[q].pagado \in Nat /\ cuota[q].monto \in Nat
           /\ cuota[q].pagado <= cuota[q].monto
           /\ cuota[q].pagado <= Caja(ingreso, movimientos, q)
           /\ Caja(ingreso, movimientos, q) \in Nat
<1>1. CuotaOK(cuota[q]) /\ IsFiniteSet(ingreso) /\ IsFiniteSet(movimientos)
      /\ movimientos \subseteq Movimiento
  BY DEF IInv, TypeOK, Finitos
<1>2. cuota[q].pagado \in Nat /\ cuota[q].monto \in Importes
      /\ cuota[q].pagado <= cuota[q].monto
  BY <1>1 DEF CuotaOK
<1>3. cuota[q].pagado <= EnCaja(q)
  BY DEF IInv, PagadoEnCaja
<1>4. EnCaja(q) = Caja(ingreso, movimientos, q)
  BY <1>1, EnCajaEs
<1>5. Caja(ingreso, movimientos, q) \in Nat
  BY <1>1, CajaNat
<1>6. QED
  BY <1>2, <1>3, <1>4, <1>5, Cotas

\* No instalment is paid more than the accounts hold for it, after a step.
LEMMA PagadoPrima ==
    ASSUME IsFiniteSet(ingreso'),
           \A q \in DOMAIN cuota' : cuota'[q].pagado <= Caja(ingreso', movimientos', q)
    PROVE  PagadoEnCaja'
<1>1. \A q : EnCaja(q)' = Caja(ingreso', movimientos', q)
  BY EnCajaEsPrima
<1>2. QED
  BY <1>1 DEF PagadoEnCaja

\* The instalments add up to their credits, after a step.
LEMMA TotalPrima ==
    ASSUME \A k \in DOMAIN credito' : Total(cuota', k) = credito'[k].total
    PROVE  CuotasSumanTotal'
<1>1. \A k : SumaDeCuotas(k)' = Total(cuota', k)
  BY TotalEsPrima
<1>2. QED
  BY <1>1 DEF CuotasSumanTotal

\* The instalments of a credit add up to it.
LEMMA TotalDe ==
    ASSUME IInv, NEW k \in DOMAIN credito
    PROVE  Total(cuota, k) = credito[k].total
BY TotalEs DEF IInv, CuotasSumanTotal

\* What is owed and paid of a credit depends on the states of its instalments.
LEMMA SinPagarIgual ==
    ASSUME NEW k, {q \in DOMAIN cuota' : q[1] = k} = {q \in DOMAIN cuota : q[1] = k},
           \A q \in DOMAIN cuota : q[1] = k => cuota'[q] = cuota[q]
    PROVE  SinPagar(k)' = SinPagar(k)
BY DEF SinPagar

\* A transaction of another credit goes on as it was.
LEMMA OtroCredito ==
    ASSUME NEW u, TransaccionOK(u), u.cuota \in DOMAIN cuota,
           credito'[u.cuota[1]] = credito[u.cuota[1]],
           solapados \subseteq solapados', ingreso \subseteq ingreso',
           cuota'[u.cuota] = cuota[u.cuota],
           \/ u.cuota[1] \in solapados'
           \/ SinPagar(u.cuota[1])' = SinPagar(u.cuota[1]),
           \A m \in Vivos(movimientos) :
              m.ingreso = u.ingreso => m \in Vivos(movimientos')
    PROVE  TransaccionOK(u)'
<1>1. FinalOK(u)'
  BY DEF FinalOK, TransaccionOK
<1>2. u.tipo = "PAGO" => PagoOK(u)'
  BY DEF PagoOK, TransaccionOK
<1>3. ASSUME u.tipo = "REVERSA" PROVE ReversaOK(u)'
  <2>1. ReversaOK(u)
    BY <1>3 DEF TransaccionOK
  <2>2. \E i \in ingreso' : i.id = u.ingreso /\ i.cuota = u.cuota
    BY <2>1 DEF ReversaOK
  <2>3. u.mov.id # 0 => /\ u.mov \in Movimiento /\ u.mov.ingreso = u.ingreso
                        /\ u.fila.pagado = Resta(cuota[u.cuota].pagado, u.mov.importe)
    BY <2>1 DEF ReversaOK
  <2>4. u.mov.id # 0 => \E m \in Vivos(movimientos') :
                  /\ u.mov.revierte = m.id /\ u.mov.importe = m.importe
                  /\ m.ingreso = u.ingreso
    BY <2>1 DEF ReversaOK
  <2>5. QED
    BY <2>1, <2>2, <2>3, <2>4 DEF ReversaOK
<1>4. QED
  BY <1>1, <1>2, <1>3 DEF TransaccionOK

-------------------------------------------------------------------------------
(* A transaction begins *)

\* What a handler locks and writes is not another transaction's.
Propia(t) ==
    /\ t.cuota \in DOMAIN cuota
    /\ \A u \in enCurso : u.cuota # t.cuota /\ u.ingreso # t.ingreso
    /\ t.tipo = "PAGO" => \A i \in ingreso : i.id # t.ingreso
    /\ t.mov.id # 0 =>
          /\ \A m \in movimientos : m.id # t.mov.id
          /\ \A u \in enCurso : u.mov.id # t.mov.id

\* A transaction starts: it holds an instalment nobody holds.
LEMMA AbrirMantiene ==
    ASSUME IInv, NEW t, Propia(t), TransaccionOK(t), Abrir(t)
    PROVE  IInv'
<1>1. /\ enCurso' = enCurso \cup {t}
      /\ solapados' = solapados \cup
             {k \in Creditos : k = t.cuota[1] /\ \E u \in enCurso : u.cuota[1] = k}
      /\ plan' = plan /\ credito' = credito /\ cuota' = cuota
      /\ ingreso' = ingreso /\ movimientos' = movimientos
  BY DEF Abrir
<1>2. TypeOK'
  BY <1>1 DEF IInv, TypeOK
<1>3. Finitos'
  BY <1>1 DEF IInv, Finitos
<1>4. Referencias'
  BY <1>1 DEF IInv, Referencias, Propia
<1>5. IdsUnicos'
  BY <1>1 DEF IInv, IdsUnicos, Propia
<1>6. Bloqueos'
  <2>1. t.cuota[1] \in Creditos
    BY DEF Propia, IInv, TypeOK, Filas
  <2>2. ASSUME NEW u \in enCurso
        PROVE  /\ t.cuota # u.cuota /\ t.ingreso # u.ingreso
               /\ t.cuota[1] = u.cuota[1] => t.cuota[1] \in solapados'
    BY <1>1, <2>1 DEF Propia
  <2>3. QED
    BY <1>1, <2>2 DEF IInv, Bloqueos
<1>7. EstadosSegun'
  BY <1>1 DEF IInv, EstadosSegun
<1>8. EnCursoOK'
  <2>1. \A k : SinPagar(k)' = SinPagar(k)
    BY <1>1, SinPagarIgual
  <2>2. ASSUME NEW u \in enCurso' PROVE TransaccionOK(u)'
    <3>1. TransaccionOK(u) /\ u.cuota \in DOMAIN cuota
      BY <1>1 DEF IInv, EnCursoOK, Propia, Referencias
    <3>2. QED
      BY <1>1, <2>1, <3>1, OtroCredito
  <2>3. QED
    BY <2>2 DEF EnCursoOK
<1>9. CreditosSegun'
  <2>1. \A k : SinPagar(k)' = SinPagar(k)
    BY <1>1, SinPagarIgual
  <2>2. QED
    BY <1>1, <2>1 DEF IInv, CreditosSegun
<1>10. CuotasSumanTotal' /\ PagadoEnCaja'
  BY <1>1, <1>3, TotalPrima, TotalDe, PagadoPrima, PagadoMenor DEF Finitos
<1>11. QED
  BY <1>2, <1>3, <1>4, <1>5, <1>6, <1>7, <1>8, <1>9, <1>10 DEF IInv

\* A transaction that is lost leaves the tables as they were.
LEMMA DeshacerMantiene ==
    ASSUME IInv, NEW t \in enCurso, Deshacer(t)
    PROVE  IInv'
<1>1. /\ enCurso' = enCurso \ {t} /\ solapados' = solapados
      /\ plan' = plan /\ credito' = credito /\ cuota' = cuota
      /\ ingreso' = ingreso /\ movimientos' = movimientos
  BY DEF Deshacer
<1>2. \A k : SinPagar(k)' = SinPagar(k)
  BY <1>1, SinPagarIgual
<1>3. EnCursoOK'
  <2>1. ASSUME NEW u \in enCurso' PROVE TransaccionOK(u)'
    <3>1. TransaccionOK(u) /\ u.cuota \in DOMAIN cuota
      BY <1>1 DEF IInv, EnCursoOK, Referencias
    <3>2. QED
      BY <1>1, <1>2, <3>1, OtroCredito
  <2>2. QED
    BY <2>1 DEF EnCursoOK
<1>4. TypeOK' /\ Finitos' /\ Referencias' /\ IdsUnicos' /\ Bloqueos' /\ EstadosSegun'
  BY <1>1 DEF IInv, TypeOK, Finitos, Referencias, IdsUnicos, Bloqueos, EstadosSegun
<1>5. CreditosSegun'
  BY <1>1, <1>2 DEF IInv, CreditosSegun
<1>6. CuotasSumanTotal' /\ PagadoEnCaja'
  BY <1>1, <1>4, TotalPrima, TotalDe, PagadoPrima, PagadoMenor DEF Finitos
<1>7. QED
  BY <1>3, <1>4, <1>5, <1>6 DEF IInv


-------------------------------------------------------------------------------
(* A transaction commits *)

\* What each kind leaves of the cash of the instalments.
LEMMA CajaConfirmada ==
    ASSUME IInv, NEW t \in enCurso, Confirmar(t), NEW q \in DOMAIN cuota
    PROVE  cuota'[q].pagado <= Caja(ingreso', movimientos', q)
<1>1. /\ IsFiniteSet(ingreso) /\ IsFiniteSet(movimientos)
      /\ movimientos \subseteq Movimiento
      /\ Distintos(ingreso) /\ Distintos(movimientos)
      /\ TransaccionOK(t) /\ t.cuota \in DOMAIN cuota
  BY DEF IInv, Finitos, TypeOK, IdsUnicos, EnCursoOK, Referencias
<1>2. cuota'[q] = IF q = t.cuota THEN t.fila ELSE cuota[q]
  BY <1>1 DEF Confirmar
<1>3. PICK antes \in Nat : antes = Caja(ingreso, movimientos, q)
  BY PagadoMenor
<1>4. cuota[q].pagado \in Nat /\ cuota[q].pagado <= antes
  BY <1>3, PagadoMenor
<1>5. t.fila.pagado \in Nat
  BY <1>1 DEF TransaccionOK, CuotaOK
<1>6. CASE t.tipo = "PAGO"
  <2>1. /\ t.alta = [id |-> t.ingreso, cuota |-> t.cuota, importe |-> t.mov.importe]
        /\ t.mov \in Movimiento /\ t.mov.ingreso = t.ingreso /\ t.mov.revierte = 0
        /\ t.fila.pagado = cuota[t.cuota].pagado + t.mov.importe
    BY <1>1, <1>6 DEF TransaccionOK, PagoOK
  <2>2. t.mov.id # 0 /\ t.mov.importe \in Nat
    BY <2>1, MovimientoEs
  <2> DEFINE movs == movimientos \cup {t.mov}
  <2>3. ingreso' = ingreso \cup {t.alta} /\ movimientos' = movs
    BY <1>6, <2>2 DEF Confirmar
  <2>4. \A n \in movimientos : n.id # t.mov.id /\ n.revierte # t.mov.id
    BY <2>2 DEF IInv, IdsUnicos, Referencias
  <2>5. \A id : Neto(movs, id) = Neto(movimientos, id) + Aporta(t.mov, id)
    BY <1>1, <2>1, <2>4, PublicarNeto
  <2>6. \A i \in ingreso : i.id # t.ingreso
    BY <1>6 DEF IInv, IdsUnicos
  <2>7. \A id : Neto(movimientos, id) \in Nat /\ Neto(movs, id) \in Nat
    BY <1>1, <2>1, NetoNat, FS_AddElement
  <2>8. Neto(movimientos, t.ingreso) = 0
    <3>1. MovimientosDe(movimientos, t.ingreso) = {}
      BY <2>6 DEF MovimientosDe, Vivos, IInv, Referencias
    <3>2. QED
      BY <3>1, SumaVacia DEF Neto
  <2>9. Neto(movs, t.ingreso) = t.mov.importe
    BY <2>1, <2>2, <2>5, <2>8 DEF Aporta
  <2>10. \A i \in ingreso : Neto(movs, i.id) = Neto(movimientos, i.id)
    BY <2>1, <2>5, <2>6, <2>7 DEF Aporta
  <2>11. Caja(ingreso, movs, q) = Caja(ingreso, movimientos, q)
    <3> DEFINE F == [i \in ingreso |-> Neto(movs, i.id)]
               G == [i \in ingreso |-> Neto(movimientos, i.id)]
               S == {i \in ingreso : i.cuota = q}
    <3>1. IsFiniteSet(S) /\ \A i \in S : F[i] = G[i]
      BY <1>1, <2>10, FS_Subset
    <3>2. Suma(F, S) = Suma(G, S)
      <4> HIDE DEF F, G, S
      <4> QED BY <3>1, SumaIgual
    <3>3. QED
      BY <3>2 DEF Caja
  <2>12. t.alta.id = t.ingreso /\ t.alta.cuota = t.cuota
    BY <2>1
  <2>13. Caja(ingreso \cup {t.alta}, movs, q)
             = Caja(ingreso, movs, q) + IF t.cuota = q THEN t.mov.importe ELSE 0
    <3>1. movs \subseteq Movimiento /\ IsFiniteSet(movs)
      BY <1>1, <2>1, FS_AddElement
    <3> HIDE DEF movs
    <3>2. QED
      BY <1>1, <2>6, <2>9, <2>12, <3>1, CajaMas
  <2>14. Caja(ingreso', movimientos', q) = antes + IF t.cuota = q THEN t.mov.importe ELSE 0
    BY <1>3, <2>3, <2>11, <2>13
  <2>15. QED
    BY <1>2, <1>3, <1>4, <2>1, <2>2, <2>14
<1>7. CASE t.tipo = "REVERSA" /\ t.mov.id = 0
  <2>1. ingreso' = ingreso /\ movimientos' = movimientos
    BY <1>7 DEF Confirmar
  <2>2. t.fila.pagado <= cuota[t.cuota].pagado
    BY <1>1, <1>7 DEF TransaccionOK, ReversaOK
  <2>3. QED
    BY <1>2, <1>3, <1>4, <1>5, <2>1, <2>2
<1>8. CASE t.tipo = "REVERSA" /\ t.mov.id # 0
  <2>1. /\ t.mov \in Movimiento /\ t.mov.ingreso = t.ingreso
        /\ t.fila.pagado = Resta(cuota[t.cuota].pagado, t.mov.importe)
    BY <1>1, <1>8 DEF TransaccionOK, ReversaOK
  <2>2. PICK m \in Vivos(movimientos) :
          /\ t.mov.revierte = m.id /\ t.mov.importe = m.importe
          /\ m.ingreso = t.ingreso
    BY <1>1, <1>8 DEF TransaccionOK, ReversaOK
  <2>3. PICK i \in ingreso : i.id = t.ingreso /\ i.cuota = t.cuota
    BY <1>1, <1>8 DEF TransaccionOK, ReversaOK
  <2>4. t.mov.importe \in Nat
    BY <2>1, MovimientoEs
  <2> DEFINE movs == movimientos \cup {t.mov}
             x == t.mov.importe
  <2>5. ingreso' = ingreso /\ movimientos' = movs
    BY <1>8 DEF Confirmar
  <2>6. \A n \in movimientos : n.id # t.mov.id
    BY <1>8 DEF IInv, IdsUnicos
  <2>7. \A id : Neto(movs, id) = Neto(movimientos, id) - Aporta(m, id)
    BY <1>1, <2>1, <2>2, <2>6, RevertirNeto
  <2>8. \A id : Neto(movimientos, id) \in Nat
    BY <1>1, NetoNat
  <2>9. \A id : Neto(movs, id) = Neto(movimientos, id) + IF id = i.id THEN -x ELSE 0
    <3> SUFFICES ASSUME NEW id
                 PROVE  Neto(movs, id) = Neto(movimientos, id) + IF id = i.id THEN -x ELSE 0
      OBVIOUS
    <3>1. CASE id = i.id
      <4>1. Aporta(m, id) = x
        BY <2>2, <2>3, <3>1 DEF Aporta
      <4> HIDE DEF movs, x
      <4>2. QED
        BY <2>4, <2>7, <2>8, <3>1, <4>1 DEF x
    <3>2. CASE id # i.id
      <4>1. Aporta(m, id) = 0
        BY <2>2, <2>3, <3>2 DEF Aporta
      <4> HIDE DEF movs, x
      <4>2. QED
        BY <2>7, <2>8, <3>2, <4>1
    <3>3. QED
      BY <3>1, <3>2
  <2>10. Caja(ingreso, movs, q)
             = Caja(ingreso, movimientos, q) + IF i.cuota = q THEN -x ELSE 0
    <3>1. -x \in Int
      BY <2>4
    <3> HIDE DEF movs, x
    <3>2. QED
      BY <1>1, <2>9, <3>1, CajaCambia
  <2>11. Caja(ingreso, movs, q) \in Nat
    <3>1. IsFiniteSet(movs) /\ movs \subseteq Movimiento
      BY <1>1, <2>1, FS_AddElement
    <3> HIDE DEF movs
    <3>2. QED
      BY <1>1, <3>1, CajaNat
  <2> HIDE DEF movs, x
  <2>12. CASE q = t.cuota
    <3>1. Caja(ingreso, movs, q) = antes + (-x)
      BY <1>3, <2>3, <2>10, <2>12
    <3>2. cuota'[q].pagado = Resta(cuota[q].pagado, x)
      BY <1>2, <2>1, <2>12 DEF x
    <3>3. x \in Nat
      BY <2>4 DEF x
    <3>4. QED
      BY <1>3, <1>4, <2>5, <2>11, <3>1, <3>2, <3>3 DEF Resta
  <2>13. CASE q # t.cuota
    BY <1>2, <1>3, <1>4, <2>3, <2>5, <2>10, <2>13
  <2>14. QED
    BY <2>12, <2>13
<1>9. QED
  BY <1>1, <1>6, <1>7, <1>8 DEF TransaccionOK


\* A transaction that commits.
LEMMA ConfirmarMantiene ==
    ASSUME IInv, NEW t \in enCurso, Confirmar(t)
    PROVE  IInv'
<1> DEFINE k == t.cuota[1]
<1>1. /\ TransaccionOK(t) /\ t.cuota \in DOMAIN cuota /\ k \in DOMAIN credito
      /\ CuotaOK(t.fila) /\ t.fila.monto = cuota[t.cuota].monto
  BY DEF IInv, EnCursoOK, Referencias, TransaccionOK
<1>2. /\ DOMAIN cuota' = DOMAIN cuota /\ cuota'[t.cuota] = t.fila
      /\ \A q \in DOMAIN cuota : q # t.cuota => cuota'[q] = cuota[q]
  BY <1>1 DEF Confirmar
<1>3. /\ DOMAIN credito' = DOMAIN credito
      /\ \A j \in DOMAIN credito : j # k => credito'[j] = credito[j]
      /\ credito'[k] \in Credito /\ credito'[k].total = credito[k].total
      /\ credito'[k].estado = IF t.final = "" THEN credito[k].estado ELSE t.final
  <2>1. credito[k] \in Credito /\ t.final \in {"", "ACTIVO", "FINALIZADO"}
    BY <1>1 DEF IInv, TypeOK, TransaccionOK
  <2>2. CASE t.final = ""
    BY <2>1, <2>2 DEF Confirmar
  <2>3. CASE t.final # ""
    <3>1. credito' = [credito EXCEPT ![k].estado = t.final]
      BY <2>3 DEF Confirmar
    <3>2. credito'[k] = [credito[k] EXCEPT !.estado = t.final]
      BY <1>1, <3>1
    <3>3. /\ credito'[k] \in Credito /\ credito'[k].total = credito[k].total
          /\ credito'[k].estado = t.final
      BY <2>1, <2>3, <3>2 DEF Credito
    <3>4. QED
      BY <1>1, <2>3, <3>1, <3>3
  <2>4. QED
    BY <2>2, <2>3
<1>4. /\ enCurso' = enCurso \ {t} /\ plan' = plan /\ solapados' = solapados
      /\ ingreso' = ingreso \cup (IF t.tipo = "PAGO" THEN {t.alta} ELSE {})
      /\ movimientos' = movimientos \cup (IF t.mov.id # 0 THEN {t.mov} ELSE {})
  BY DEF Confirmar
<1>5. t.tipo = "PAGO" => /\ t.alta \in Ingreso /\ t.alta.id = t.ingreso
                         /\ t.alta.cuota = t.cuota /\ t.mov.id # 0
  <2>1. SUFFICES ASSUME t.tipo = "PAGO"
                 PROVE  /\ t.alta \in Ingreso /\ t.alta.id = t.ingreso
                        /\ t.alta.cuota = t.cuota /\ t.mov.id # 0
    OBVIOUS
  <2>2. PagoOK(t)
    BY <1>1, <2>1 DEF TransaccionOK
  <2>3. t.cuota \in Filas
    BY <1>1 DEF IInv, TypeOK
  <2>4. t.mov.importe \in Importes /\ t.mov.id # 0
    BY <2>2, MovimientoEs DEF PagoOK, Movimiento
  <2>5. QED
    BY <2>2, <2>3, <2>4 DEF PagoOK, Ingreso
<1>6. t.mov.id # 0 => t.mov \in Movimiento /\ t.mov.ingreso = t.ingreso
  BY <1>1 DEF TransaccionOK, PagoOK, ReversaOK
<1> HIDE DEF k
<1>7. TypeOK'
  BY <1>1, <1>2, <1>3, <1>4, <1>5, <1>6 DEF IInv, TypeOK
<1>8. Finitos'
  BY <1>4, FS_AddElement DEF IInv, Finitos
<1>9. Referencias'
  <2>1. \A q \in DOMAIN cuota' : q[1] \in DOMAIN credito'
    BY <1>2, <1>3 DEF IInv, Referencias
  <2>2. \A i \in ingreso' : i.cuota \in DOMAIN cuota'
    BY <1>1, <1>2, <1>4, <1>5 DEF IInv, Referencias
  <2>3. \E i \in ingreso' : i.id = t.ingreso
    BY <1>1, <1>4, <1>5 DEF TransaccionOK, ReversaOK
  <2>4. \A m \in movimientos' : \E i \in ingreso' : m.ingreso = i.id
    BY <1>4, <1>6, <2>3 DEF IInv, Referencias
  <2>5. t.mov.id # 0 /\ t.mov.revierte # 0 =>
            \E m \in movimientos : m.id = t.mov.revierte
    BY <1>1 DEF TransaccionOK, PagoOK, ReversaOK, Vivos
  <2>6. \A r \in movimientos' : r.revierte # 0 =>
            \E m \in movimientos' : m.id = r.revierte
    BY <1>4, <2>5 DEF IInv, Referencias
  <2>7. \A u \in enCurso' : u.cuota \in DOMAIN cuota'
    BY <1>2, <1>4 DEF IInv, Referencias
  <2>8. QED
    BY <2>1, <2>2, <2>4, <2>6, <2>7 DEF Referencias
<1>10. IdsUnicos'
  <2>1. Distintos(ingreso')
    BY <1>4, <1>5 DEF IInv, IdsUnicos, Distintos
  <2>2. Distintos(movimientos')
    BY <1>4 DEF IInv, IdsUnicos, Distintos
  <2>3. \A u \in enCurso' : u.tipo = "PAGO" => \A i \in ingreso' : i.id # u.ingreso
    BY <1>4, <1>5 DEF IInv, IdsUnicos, Bloqueos
  <2>4. \A u \in enCurso' : u.mov.id # 0 => \A m \in movimientos' : m.id # u.mov.id
    BY <1>4 DEF IInv, IdsUnicos
  <2>5. \A u, v \in enCurso' : u # v /\ u.mov.id # 0 => u.mov.id # v.mov.id
    BY <1>4 DEF IInv, IdsUnicos
  <2>6. QED
    BY <2>1, <2>2, <2>3, <2>4, <2>5 DEF IdsUnicos
<1>11. Bloqueos'
  BY <1>4 DEF IInv, Bloqueos
<1>12. EstadosSegun'
  <2>1. \A q \in DOMAIN cuota : cuota[q].estado = EstadoSegun(cuota[q])
    BY DEF IInv, EstadosSegun
  <2>2. t.fila.estado = EstadoSegun(t.fila)
    BY <1>1 DEF TransaccionOK
  <2>3. ASSUME NEW q \in DOMAIN cuota PROVE cuota'[q].estado = EstadoSegun(cuota'[q])
    <3>1. CASE q = t.cuota
      BY <1>2, <2>2, <3>1
    <3>2. CASE q # t.cuota
      BY <1>2, <2>1, <3>2
    <3>3. QED
      BY <3>1, <3>2
  <2>4. QED
    BY <1>2, <2>3 DEF EstadosSegun, EstadoSegun
<1>13. EnCursoOK'
  <2>1. SUFFICES ASSUME NEW u \in enCurso' PROVE TransaccionOK(u)'
    BY DEF EnCursoOK
  <2>2. /\ u \in enCurso /\ u # t /\ TransaccionOK(u) /\ u.cuota \in DOMAIN cuota
        /\ u.cuota # t.cuota /\ u.ingreso # t.ingreso
        /\ u.cuota[1] \in DOMAIN credito
    BY <1>4, <2>1 DEF IInv, EnCursoOK, Bloqueos, Referencias
  <2>3. \A m \in Vivos(movimientos) : m.ingreso = u.ingreso => m \in Vivos(movimientos')
    <3>1. SUFFICES ASSUME NEW m \in Vivos(movimientos), m.ingreso = u.ingreso
                   PROVE  t.mov.id # 0 => t.mov.revierte # m.id
      BY <1>4 DEF Vivos
    <3>2. m.id # 0 /\ m \in movimientos
      BY MovimientoEs DEF Vivos, IInv, TypeOK
    <3>3. CASE t.tipo = "PAGO"
      BY <1>1, <3>2, <3>3 DEF TransaccionOK, PagoOK
    <3>4. CASE t.tipo = "REVERSA" /\ t.mov.id # 0
      <4>1. PICK n \in Vivos(movimientos) : t.mov.revierte = n.id /\ n.ingreso = t.ingreso
        BY <1>1, <3>4 DEF TransaccionOK, ReversaOK
      <4>2. n \in movimientos /\ n # m
        BY <2>2, <3>1, <4>1 DEF Vivos
      <4>3. QED
        BY <3>2, <4>1, <4>2 DEF IInv, IdsUnicos, Distintos
    <3>5. QED
      BY <1>1, <3>3, <3>4 DEF TransaccionOK
  <2>4. CASE u.cuota[1] = k
    <3>1. u.cuota[1] \in solapados'
      BY <1>4, <2>2, <2>4 DEF IInv, Bloqueos, k
    <3>2. TransaccionOK(u)'
      <4>1. FinalOK(u)'
        BY <3>1 DEF FinalOK
      <4>2. u.tipo = "PAGO" => PagoOK(u)'
        BY <1>2, <2>2 DEF PagoOK, TransaccionOK
      <4>3. u.tipo = "REVERSA" => ReversaOK(u)'
        BY <1>2, <1>4, <2>2, <2>3 DEF ReversaOK, TransaccionOK
      <4>4. QED
        BY <1>2, <2>2, <4>1, <4>2, <4>3 DEF TransaccionOK
    <3>3. QED
      BY <3>2
  <2>5. CASE u.cuota[1] # k
    <3>1. SinPagar(u.cuota[1])' = SinPagar(u.cuota[1])
      BY <1>2, <2>5, SinPagarIgual DEF k
    <3>2. cuota'[u.cuota] = cuota[u.cuota] /\ credito'[u.cuota[1]] = credito[u.cuota[1]]
      BY <1>2, <1>3, <2>2, <2>5
    <3>3. solapados \subseteq solapados' /\ ingreso \subseteq ingreso'
      BY <1>4
    <3>4. QED
      BY <2>2, <2>3, <3>1, <3>2, <3>3, OtroCredito
  <2>6. QED
    BY <2>4, <2>5
<1>14. CreditosSegun'
  <2>1. SUFFICES ASSUME NEW j \in DOMAIN credito, j \notin solapados
                 PROVE  credito'[j].estado = "FINALIZADO" <=> SinPagar(j)' = {}
    BY <1>3, <1>4 DEF CreditosSegun
  <2>2. CASE j # k
    <3>1. SinPagar(j)' = SinPagar(j)
      BY <1>2, <2>2, SinPagarIgual DEF k
    <3>2. QED
      BY <1>3, <2>1, <2>2, <3>1 DEF IInv, CreditosSegun
  <2>3. CASE j = k
    <3>1. SinPagar(k)' = (SinPagar(k) \ {t.cuota})
                            \cup (IF t.fila.estado = "PAGADA" THEN {} ELSE {t.cuota})
      BY <1>1, <1>2 DEF SinPagar, k
    <3>2. credito'[k].estado = "FINALIZADO" <=>
              t.fila.estado = "PAGADA" /\ SinPagar(k) \ {t.cuota} = {}
      BY <1>1, <1>3, <2>1, <2>3 DEF TransaccionOK, FinalOK, k
    <3>3. QED
      BY <2>3, <3>1, <3>2
  <2>4. QED
    BY <2>2, <2>3
<1>15. CuotasSumanTotal'
  <2>1. ASSUME NEW j \in DOMAIN credito PROVE Total(cuota', j) = Total(cuota, j)
    <3> DEFINE S == {q \in DOMAIN cuota : q[1] = j}
               F == [q \in DOMAIN cuota' |-> cuota'[q].monto]
               G == [q \in DOMAIN cuota |-> cuota[q].monto]
    <3>1. F = G
      BY <1>1, <1>2
    <3>2. {q \in DOMAIN cuota' : q[1] = j} = S
      BY <1>2
    <3>3. QED
      BY <3>1, <3>2 DEF Total
  <2>2. \A j \in DOMAIN credito : credito'[j].total = credito[j].total
    BY <1>3
  <2>3. QED
    BY <1>3, <2>1, <2>2, TotalPrima, TotalDe
<1>16. PagadoEnCaja'
  <2>1. IsFiniteSet(ingreso')
    BY <1>8 DEF Finitos
  <2>2. \A q \in DOMAIN cuota' : cuota'[q].pagado <= Caja(ingreso', movimientos', q)
    BY <1>2, CajaConfirmada
  <2>3. QED
    BY <2>1, <2>2, PagadoPrima
<1>17. QED
  BY <1>7, <1>8, <1>9, <1>10, <1>11, <1>12, <1>13, <1>14, <1>15, <1>16 DEF IInv


-------------------------------------------------------------------------------
(* New plans and credits *)

\* Everything but the plans stays as it was.
LEMMA SinCambios ==
    ASSUME IInv, \A r \in DOMAIN plan' : r \in Planes /\ plan'[r] \in Plan,
           credito' = credito, cuota' = cuota, ingreso' = ingreso,
           movimientos' = movimientos, enCurso' = enCurso, solapados' = solapados
    PROVE  IInv'
<1>1. \A k : SinPagar(k)' = SinPagar(k)
  BY SinPagarIgual
<1>2. EnCursoOK'
  <2>1. ASSUME NEW u \in enCurso' PROVE TransaccionOK(u)'
    <3>1. TransaccionOK(u) /\ u.cuota \in DOMAIN cuota
      BY DEF IInv, EnCursoOK, Referencias
    <3>2. QED
      BY <1>1, <3>1, OtroCredito
  <2>2. QED
    BY <2>1 DEF EnCursoOK
<1>3. TypeOK' /\ Finitos' /\ Referencias' /\ IdsUnicos' /\ Bloqueos' /\ EstadosSegun'
  BY DEF IInv, TypeOK, Finitos, Referencias, IdsUnicos, Bloqueos, EstadosSegun
<1>4. CreditosSegun'
  BY <1>1 DEF IInv, CreditosSegun
<1>5. CuotasSumanTotal' /\ PagadoEnCaja'
  BY <1>3, TotalPrima, TotalDe, PagadoPrima, PagadoMenor DEF Finitos
<1>6. QED
  BY <1>2, <1>3, <1>4, <1>5 DEF IInv

\* Plans are created and edited; the credits keep their terms.
LEMMA PlanMantiene ==
    ASSUME IInv, NEW p \in Planes, NEW fila \in Plan,
           createPlan(p, fila) \/ updatePlan(p, fila)
    PROVE  IInv'
<1>1. \A r \in DOMAIN plan' : r \in Planes /\ plan'[r] \in Plan
  BY DEF createPlan, updatePlan, Con, IInv, TypeOK
<1>2. QED
  BY <1>1, SinCambios DEF createPlan, updatePlan

\* Rounding gives whole cents.
LEMMA RedondeoEntero == ASSUME NEW a \in Nat, NEW b \in Nat \ {0} PROVE round2(a, b) \in Int
BY DEF round2

\* The instalments a credit is split into add up to its total.
LEMMA Repartido ==
    ASSUME NEW total \in Nat, NEW n \in Nat \ {0}, NEW k, NEW c,
           \A i \in 1..n : <<k, i>> \in DOMAIN c /\ c[<<k, i>>].monto = splitEvenly(total, n)[i],
           {q \in DOMAIN c : q[1] = k} = {k} \X (1..n)
    PROVE  Total(c, k) = total
<1> DEFINE S == {k} \X (1..n)
           F == [q \in DOMAIN c |-> c[q].monto]
           r == round2(total, n)
           u == <<k, n>>
<1>1. IsFiniteSet(S) /\ Cardinality(S) = n
  <2>1. IsFiniteSet(1..n) /\ Cardinality(1..n) = n
    BY FS_Interval
  <2>2. IsFiniteSet({k}) /\ Cardinality({k}) = 1
    BY FS_Singleton
  <2>3. IsFiniteSet(S) /\ Cardinality(S) = Cardinality({k}) * Cardinality(1..n)
    BY <2>1, <2>2, FS_Product
  <2>4. Cardinality(S) = 1 * n
    BY <2>1, <2>2, <2>3
  <2> HIDE DEF S
  <2>5. QED
    BY <2>3, <2>4
<1>2. u \in S /\ \A q \in S \ {u} : q[1] = k /\ q[2] \in 1..n /\ q[2] < n /\ q = <<k, q[2]>>
  OBVIOUS
<1>3. r \in Int
  BY RedondeoEntero
<1>4. F[u] = total - r * (n - 1)
  BY <1>2 DEF splitEvenly
<1>5. \A q \in S \ {u} : F[q] = r
  <2> SUFFICES ASSUME NEW q \in S \ {u} PROVE F[q] = r
    OBVIOUS
  <2>1. /\ q[2] \in 1..n /\ q[2] < n /\ q = <<k, q[2]>>
    BY <1>2
  <2>2. PICK i \in 1..n : i = q[2]
    BY <2>1
  <2>3. <<k, i>> \in DOMAIN c /\ c[<<k, i>>].monto = splitEvenly(total, n)[i]
    OBVIOUS
  <2>4. splitEvenly(total, n)[i] = r
    BY <2>1, <2>2 DEF splitEvenly
  <2>5. QED
    BY <2>1, <2>2, <2>3, <2>4
<1>6. r * (n - 1) \in Int
  BY <1>3
<1> HIDE DEF F, S, u, r
<1>7. IsFiniteSet(S \ {u}) /\ Cardinality(S \ {u}) = n - 1
  BY <1>1, <1>2, FS_RemoveElement
<1>8. Enteros(F, S)
  BY <1>2, <1>3, <1>4, <1>5, <1>6 DEF Enteros
<1>9. Suma(F, S) = F[u] + Suma(F, S \ {u})
  BY <1>1, <1>2, <1>8, SumaMenos
<1>10. Suma(F, S \ {u}) = r * (n - 1)
  BY <1>3, <1>5, <1>7, SumaConstante
<1>11. Suma(F, S) = total
  BY <1>4, <1>6, <1>9, <1>10
<1>12. QED
  BY <1>11 DEF Total, S, F


\* A credit is confirmed, with instalments that add up to it.
LEMMA ConfirmarCreditoMantiene ==
    ASSUME IInv, NEW k \in Creditos, NEW p \in Planes, NEW f \in 1..MaxFinanciado,
           confirmOperationCredit(k, p, f)
    PROVE  IInv'
<1> DEFINE n == plan[p].cuotas
           total == simulateCredit(f, plan[p]).total
           montos == splitEvenly(total, n)
           nuevas == {k} \X (1..n)
<1>1. /\ k \notin DOMAIN credito /\ p \in DOMAIN plan /\ Admisible(f, plan[p])
      /\ credito' = Con(credito, k, [estado |-> "ACTIVO", total |-> total])
      /\ cuota' = [q \in DOMAIN cuota \cup nuevas |->
                      IF q \in nuevas
                      THEN [monto |-> montos[q[2]], pagado |-> 0, estado |-> "PENDIENTE"]
                      ELSE cuota[q]]
      /\ plan' = plan /\ ingreso' = ingreso /\ movimientos' = movimientos
      /\ enCurso' = enCurso /\ solapados' = solapados
  BY DEF confirmOperationCredit
<1>2. total \in Importes /\ \A i \in 1..n : montos[i] \in Importes
  BY <1>1 DEF Admisible
<1>3. n \in Numeros /\ n \in Nat \ {0}
  <2>1. n \in Numeros
    BY <1>1 DEF IInv, TypeOK, Plan
  <2>2. QED
    BY <2>1, Cotas
<1>4. 1..n \subseteq Numeros
  BY <1>3, CotasPositivas DEF Numeros
<1>5. \A q \in nuevas : q[1] = k /\ q[2] \in 1..n /\ q \in Filas
  BY <1>4 DEF Filas
<1>6. \A q \in DOMAIN cuota : q[1] # k /\ q \notin nuevas /\ q[1] \in DOMAIN credito
  BY <1>1, <1>5 DEF IInv, Referencias
<1>7. \A i \in 1..n : <<k, i>> \in nuevas
  OBVIOUS
<1> HIDE DEF n, total, montos, nuevas
<1>8. /\ DOMAIN cuota' = DOMAIN cuota \cup nuevas
      /\ \A q \in DOMAIN cuota : cuota'[q] = cuota[q]
      /\ \A q \in nuevas :
            cuota'[q] = [monto |-> montos[q[2]], pagado |-> 0, estado |-> "PENDIENTE"]
  BY <1>1, <1>6
<1>9. /\ DOMAIN credito' = DOMAIN credito \cup {k}
      /\ credito'[k] = [estado |-> "ACTIVO", total |-> total]
      /\ \A j \in DOMAIN credito : credito'[j] = credito[j]
  BY <1>1 DEF Con
<1>10. \A q \in nuevas : CuotaOK(cuota'[q])
  <2>1. ASSUME NEW q \in nuevas PROVE CuotaOK(cuota'[q])
    <3>1. montos[q[2]] \in Importes /\ montos[q[2]] \in Nat
      BY <1>2, <1>5, Cotas
    <3>2. cuota'[q] = [monto |-> montos[q[2]], pagado |-> 0, estado |-> "PENDIENTE"]
      BY <1>8
    <3>3. QED
      BY <3>1, <3>2 DEF CuotaOK
  <2>2. QED
    BY <2>1
<1>11. TypeOK'
  <2>1. \A q \in DOMAIN cuota' : q \in Filas /\ CuotaOK(cuota'[q])
    BY <1>5, <1>8, <1>10 DEF IInv, TypeOK
  <2>2. \A j \in DOMAIN credito' : j \in Creditos /\ credito'[j] \in Credito
    BY <1>2, <1>9 DEF IInv, TypeOK, Credito
  <2>3. QED
    BY <1>1, <2>1, <2>2 DEF IInv, TypeOK
<1>12. Finitos' /\ IdsUnicos' /\ Bloqueos'
  BY <1>1 DEF IInv, Finitos, IdsUnicos, Bloqueos
<1>13. Referencias'
  <2>1. \A q \in DOMAIN cuota' : q[1] \in DOMAIN credito'
    BY <1>5, <1>6, <1>8, <1>9
  <2>2. QED
    BY <1>1, <1>8, <2>1 DEF IInv, Referencias
<1>14. EstadosSegun'
  <2>1. ASSUME NEW q \in nuevas PROVE cuota'[q].estado = EstadoSegun(cuota'[q])
    <3>1. montos[q[2]] # 0
      BY <1>2, <1>5, Cotas
    <3>2. cuota'[q] = [monto |-> montos[q[2]], pagado |-> 0, estado |-> "PENDIENTE"]
      BY <1>8
    <3>3. QED
      BY <3>1, <3>2 DEF EstadoSegun
  <2>2. ASSUME NEW q \in DOMAIN cuota PROVE cuota'[q].estado = EstadoSegun(cuota'[q])
    BY <1>8 DEF IInv, EstadosSegun
  <2>3. QED
    BY <1>8, <2>1, <2>2 DEF EstadosSegun, EstadoSegun
<1>15. ASSUME NEW j \in DOMAIN credito
       PROVE  {q \in DOMAIN cuota' : q[1] = j} = {q \in DOMAIN cuota : q[1] = j}
  BY <1>1, <1>5, <1>8, <1>15
<1>16. \A j \in DOMAIN credito : SinPagar(j)' = SinPagar(j)
  BY <1>8, <1>15, SinPagarIgual
<1>17. EnCursoOK'
  <2>1. ASSUME NEW u \in enCurso' PROVE TransaccionOK(u)'
    <3>1. TransaccionOK(u) /\ u.cuota \in DOMAIN cuota /\ u.cuota[1] \in DOMAIN credito
      BY <1>1 DEF IInv, EnCursoOK, Referencias
    <3>2. SinPagar(u.cuota[1])' = SinPagar(u.cuota[1])
      BY <1>16, <3>1
    <3>3. QED
      BY <1>1, <1>8, <1>9, <3>1, <3>2, OtroCredito
  <2>2. QED
    BY <2>1 DEF EnCursoOK
<1>18. CreditosSegun'
  <2>1. ASSUME NEW j \in DOMAIN credito, j \notin solapados
        PROVE  credito'[j].estado = "FINALIZADO" <=> SinPagar(j)' = {}
    BY <1>9, <1>16, <2>1 DEF IInv, CreditosSegun
  <2>2. credito'[k].estado # "FINALIZADO" /\ SinPagar(k)' # {}
    <3>1. 1 \in 1..n
      BY <1>3
    <3>2. <<k, 1>> \in nuevas
      BY <1>7, <3>1
    <3>3. <<k, 1>> \in DOMAIN cuota' /\ cuota'[<<k, 1>>].estado = "PENDIENTE"
      BY <1>8, <3>2
    <3>4. <<k, 1>> \in SinPagar(k)'
      BY <3>3 DEF SinPagar
    <3>5. QED
      BY <1>9, <3>4
  <2>3. QED
    BY <1>1, <1>9, <2>1, <2>2 DEF CreditosSegun
<1>19. CuotasSumanTotal'
  <2>1. ASSUME NEW j \in DOMAIN credito PROVE Total(cuota', j) = Total(cuota, j)
    <3> DEFINE S == {q \in DOMAIN cuota : q[1] = j}
               F == [q \in DOMAIN cuota' |-> cuota'[q].monto]
               G == [q \in DOMAIN cuota |-> cuota[q].monto]
    <3>1. \A q \in S : F[q] = G[q]
      BY <1>8
    <3>2. IsFiniteSet(S)
      <4>1. S \subseteq {j} \X Numeros
        BY DEF IInv, TypeOK, Filas
      <4>2. IsFiniteSet({j})
        BY FS_Singleton
      <4>3. IsFiniteSet({j} \X Numeros)
        BY <4>2, Cotas, FS_Product
      <4>4. QED
        BY <4>1, <4>3, FS_Subset
    <3>3. {q \in DOMAIN cuota' : q[1] = j} = S
      BY <1>15
    <3>4. Suma(F, S) = Suma(G, S)
      <4> HIDE DEF F, G, S
      <4> QED BY <3>1, <3>2, SumaIgual
    <3>5. QED
      BY <3>3, <3>4 DEF Total
  <2>2. Total(cuota', k) = total
    <3>1. {q \in DOMAIN cuota' : q[1] = k} = {k} \X (1..n)
      BY <1>5, <1>6, <1>8 DEF nuevas
    <3>2. \A i \in 1..n : /\ <<k, i>> \in DOMAIN cuota'
                          /\ cuota'[<<k, i>>].monto = splitEvenly(total, n)[i]
      BY <1>7, <1>8 DEF montos
    <3>3. total \in Nat
      BY <1>2, Cotas
    <3>4. QED
      BY <1>3, <3>1, <3>2, <3>3, Repartido
  <2>3. QED
    BY <1>9, <2>1, <2>2, TotalPrima, TotalDe
<1>20. PagadoEnCaja'
  <2>1. IsFiniteSet(ingreso')
    BY <1>12 DEF Finitos
  <2>2. ASSUME NEW q \in nuevas PROVE cuota'[q].pagado <= Caja(ingreso', movimientos', q)
    <3>1. Caja(ingreso, movimientos, q) \in Nat
      BY CajaNat DEF IInv, Finitos, TypeOK
    <3>2. cuota'[q].pagado = 0
      BY <1>8
    <3>3. QED
      BY <1>1, <3>1, <3>2
  <2>3. \A q \in DOMAIN cuota : cuota'[q].pagado <= Caja(ingreso', movimientos', q)
    BY <1>1, <1>8, PagadoMenor
  <2>4. QED
    BY <1>8, <2>1, <2>2, <2>3, PagadoPrima
<1>21. QED
  BY <1>11, <1>12, <1>13, <1>14, <1>17, <1>18, <1>19, <1>20 DEF IInv


-------------------------------------------------------------------------------
(* Payments, reversals and collections *)

\* The ids the handlers take are new.
LEMMA IdsTomados ==
    ASSUME IInv
    PROVE  IngresosTomados \subseteq 1..MaxIngresos /\ MovimientosTomados \subseteq 1..MaxMovimientos
<1>1. \A i \in ingreso : i.id \in 1..MaxIngresos
  BY DEF IInv, TypeOK, Ingreso
<1>2. \A m \in Movimiento : m.id \in 1..MaxMovimientos
  BY DEF Movimiento
<1>3. \A m \in movimientos : m.id \in 1..MaxMovimientos
  BY <1>2 DEF IInv, TypeOK
<1>4. ASSUME NEW t \in enCurso
      PROVE  /\ t.tipo = "PAGO" => t.alta.id \in 1..MaxIngresos
             /\ t.mov.id # 0 => t.mov.id \in 1..MaxMovimientos
  <2>1. TransaccionOK(t)
    BY DEF IInv, EnCursoOK
  <2>2. ASSUME t.tipo = "PAGO" PROVE t.alta.id \in 1..MaxIngresos
    <3>1. /\ t.ingreso \in 1..MaxIngresos
          /\ t.alta = [id |-> t.ingreso, cuota |-> t.cuota, importe |-> t.mov.importe]
      BY <2>1, <2>2 DEF TransaccionOK, PagoOK
    <3>2. t.alta.id = t.ingreso
      BY <3>1
    <3>3. QED
      BY <3>1, <3>2
  <2>3. t.mov.id # 0 => t.mov \in Movimiento
    BY <2>1 DEF TransaccionOK, PagoOK, ReversaOK
  <2>4. QED
    BY <1>2, <2>2, <2>3
<1>5. QED
  BY <1>1, <1>3, <1>4 DEF IngresosTomados, MovimientosTomados

\* The id a movement takes is of no other one, in flight or not.
LEMMA MovimientoNuevo ==
    ASSUME IInv, Cardinality(MovimientosTomados) < MaxMovimientos,
           NEW n, n = Menor((1..MaxMovimientos) \ MovimientosTomados)
    PROVE  /\ n \in 1..MaxMovimientos /\ n # 0
           /\ \A m \in movimientos : m.id # n /\ m.revierte # n
           /\ \A t \in enCurso : t.mov.id # n
<1>1. MaxMovimientos \in Nat
  BY CotasPositivas
<1>2. n \in (1..MaxMovimientos) \ MovimientosTomados
  <2>1. MovimientosTomados \subseteq 1..MaxMovimientos
    BY IdsTomados
  <2> HIDE DEF MovimientosTomados
  <2>2. QED
    BY <1>1, <2>1, IdNuevo
<1>3. n # 0
  BY <1>1, <1>2
<1>4. (\A m \in movimientos : m.id # n) /\ \A t \in enCurso : t.mov.id # n
  BY <1>2, <1>3 DEF MovimientosTomados
<1>5. \A m \in movimientos : m.revierte # n
  BY <1>3, <1>4 DEF IInv, Referencias
<1>6. QED
  BY <1>2, <1>3, <1>4, <1>5

\* The id an income takes is of no other one, in flight or not.
LEMMA IngresoNuevo ==
    ASSUME IInv, Cardinality(IngresosTomados) < MaxIngresos,
           NEW n, n = Menor((1..MaxIngresos) \ IngresosTomados)
    PROVE  /\ n \in 1..MaxIngresos
           /\ \A i \in ingreso : i.id # n
           /\ \A t \in enCurso : t.ingreso # n
<1>1. MaxIngresos \in Nat
  BY CotasPositivas
<1>2. n \in (1..MaxIngresos) \ IngresosTomados
  <2>1. IngresosTomados \subseteq 1..MaxIngresos
    BY IdsTomados
  <2> HIDE DEF IngresosTomados
  <2>2. QED
    BY <1>1, <2>1, IdNuevo
<1>3. \A i \in ingreso : i.id # n
  BY <1>2 DEF IngresosTomados
<1>4. ASSUME NEW t \in enCurso PROVE t.ingreso # n
  <2>1. TransaccionOK(t)
    BY DEF IInv, EnCursoOK
  <2>2. CASE t.tipo = "PAGO"
    <3>1. t.alta.id # n
      BY <1>2, <2>2 DEF IngresosTomados
    <3>2. t.alta = [id |-> t.ingreso, cuota |-> t.cuota, importe |-> t.mov.importe]
      BY <2>1, <2>2 DEF TransaccionOK, PagoOK
    <3>3. t.alta.id = t.ingreso
      BY <3>2
    <3>4. QED
      BY <3>1, <3>3
  <2>3. CASE t.tipo = "REVERSA"
    BY <1>3, <2>1, <2>3 DEF TransaccionOK, ReversaOK
  <2>4. QED
    BY <2>1, <2>2, <2>3 DEF TransaccionOK
<1>5. QED
  BY <1>2, <1>3, <1>4

\* The row of an instalment with another amount paid.
Fila(c, p, e) == [c EXCEPT !.pagado = p, !.estado = e]

\* The row of an instalment, with another amount paid.
LEMMA FilaCambiada ==
    ASSUME NEW c, CuotaOK(c), NEW p \in Nat, p <= c.monto,
           NEW e \in {"PENDIENTE", "PARCIAL", "PAGADA"}
    PROVE  /\ CuotaOK(Fila(c, p, e)) /\ Fila(c, p, e).monto = c.monto
           /\ Fila(c, p, e).pagado = p /\ Fila(c, p, e).estado = e
BY DEF CuotaOK, Fila

\* An instalment is paid, in part or whole.
LEMMA PagarMantiene ==
    ASSUME IInv, NEW q \in Filas, NEW x \in Importes, payInstallment(q, x)
    PROVE  IInv'
<1>1. /\ q \in DOMAIN cuota /\ Libres(q, 0) /\ cuota[q].estado # "PAGADA"
      /\ Cabe(q, x)
      /\ Cardinality(IngresosTomados) < MaxIngresos
      /\ Cardinality(MovimientosTomados) < MaxMovimientos
  BY DEF payInstallment
<1>2. PICK i : i = Menor((1..MaxIngresos) \ IngresosTomados)
  OBVIOUS
<1>3. PICK m : m = Menor((1..MaxMovimientos) \ MovimientosTomados)
  OBVIOUS
<1>4. PICK fila : fila = cuotaTrasPagar(q, cuota[q].pagado + x)
  OBVIOUS
<1>5. PICK t : t = [tipo |-> "PAGO", cuota |-> q, ingreso |-> i,
                    alta |-> [id |-> i, cuota |-> q, importe |-> x],
                    mov |-> [id |-> m, ingreso |-> i, importe |-> x, revierte |-> 0],
                    fila |-> fila, final |-> creditoTrasPagar(q, fila.estado)]
  OBVIOUS
<1>6. Abrir(t)
  BY <1>2, <1>3, <1>4, <1>5 DEF payInstallment
<1>7. /\ t.tipo = "PAGO" /\ t.cuota = q /\ t.ingreso = i
      /\ t.alta = [id |-> i, cuota |-> q, importe |-> x]
      /\ t.mov = [id |-> m, ingreso |-> i, importe |-> x, revierte |-> 0]
      /\ t.mov.id = m /\ t.mov.importe = x
      /\ t.fila = fila /\ t.final = creditoTrasPagar(q, fila.estado)
  BY <1>5
<1>8. i \in 1..MaxIngresos /\ (\A j \in ingreso : j.id # i) /\ \A u \in enCurso : u.ingreso # i
  BY <1>1, <1>2, IngresoNuevo
<1>9. /\ m \in 1..MaxMovimientos /\ m # 0 /\ \A n \in movimientos : n.id # m
      /\ \A u \in enCurso : u.mov.id # m
  BY <1>1, <1>3, MovimientoNuevo
<1>10. t.mov \in Movimiento
  <2>1. 0 \in 0..MaxMovimientos
    BY CotasPositivas
  <2>2. QED
    BY <1>7, <1>8, <1>9, <2>1 DEF Movimiento
<1>11. /\ CuotaOK(fila) /\ fila.monto = cuota[q].monto
       /\ fila.pagado = cuota[q].pagado + x /\ fila.estado = EstadoSegun(fila)
  <2> DEFINE p == cuota[q].pagado + x
             e == EstadoTrasPagar(q, p)
  <2>1. p \in Nat /\ p # 0 /\ p <= cuota[q].monto
    BY <1>1, PagadoMenor, Cotas DEF Cabe
  <2>2. e \in {"PENDIENTE", "PARCIAL", "PAGADA"}
    BY DEF EstadoTrasPagar
  <2>3. fila = Fila(cuota[q], p, e)
    BY <1>4 DEF cuotaTrasPagar, Fila
  <2>4. CuotaOK(cuota[q])
    BY <1>1 DEF IInv, TypeOK
  <2>5. /\ CuotaOK(fila) /\ fila.monto = cuota[q].monto
        /\ fila.pagado = p /\ fila.estado = e
    <3> HIDE DEF p, e
    <3> QED BY <2>1, <2>2, <2>3, <2>4, FilaCambiada
  <2>6. EstadoSegun(fila) = e
    BY <2>1, <2>5 DEF EstadoSegun, EstadoTrasPagar
  <2>7. QED
    BY <2>5, <2>6
<1>12. FinalOK(t)
  <2>1. SUFFICES ASSUME q[1] \notin solapados
                 PROVE (IF t.final = "" THEN credito[q[1]].estado ELSE t.final) = "FINALIZADO"
                           <=> fila.estado = "PAGADA" /\ SinPagar(q[1]) \ {q} = {}
    BY <1>7 DEF FinalOK
  <2>2. credito[q[1]].estado # "FINALIZADO"
    <3>1. q \in SinPagar(q[1])
      BY <1>1 DEF SinPagar
    <3>2. QED
      BY <1>1, <2>1, <3>1 DEF IInv, CreditosSegun, Referencias
  <2>3. QED
    BY <1>7, <2>2 DEF creditoTrasPagar
<1>13. TransaccionOK(t)
  <2>1. PagoOK(t)
    BY <1>7, <1>8, <1>10, <1>11 DEF PagoOK
  <2>2. t.final \in {"", "ACTIVO", "FINALIZADO"}
    BY <1>7 DEF creditoTrasPagar
  <2>3. QED
    BY <1>7, <1>11, <1>12, <2>1, <2>2 DEF TransaccionOK
<1>14. Propia(t)
  BY <1>1, <1>7, <1>8, <1>9 DEF Propia, Libres
<1>15. QED
  BY <1>6, <1>13, <1>14, AbrirMantiene

\* What a reversal of x writes in the instalment and the credit.
Reabierta(q, x, fila, final) ==
    /\ CuotaOK(fila) /\ fila.monto = cuota[q].monto
    /\ fila.pagado = Resta(cuota[q].pagado, x)
    /\ fila.pagado <= cuota[q].pagado
    /\ fila.estado = EstadoSegun(fila) /\ fila.estado # "PAGADA"
    /\ final \in {"", "ACTIVO"}
    /\ final = "" => credito[q[1]].estado # "FINALIZADO"

\* What a reversal leaves of what was paid.
LEMMA ReaperturaEs ==
    ASSUME IInv, NEW q \in DOMAIN cuota, NEW x \in Importes,
           NEW efecto, efecto = reopenInstallment(q, x)
    PROVE  Reabierta(q, x, efecto.fila, efecto.final)
<1> DEFINE p == Resta(cuota[q].pagado, x)
           e == IF p = 0 THEN "PENDIENTE" ELSE "PARCIAL"
<1>0. PICK fila, final : fila = efecto.fila /\ final = efecto.final
  OBVIOUS
<1>1. x \in Nat /\ x # 0
  BY Cotas
<1>2. /\ cuota[q].pagado \in Nat /\ cuota[q].monto \in Nat /\ cuota[q].monto # 0
      /\ cuota[q].pagado <= cuota[q].monto /\ CuotaOK(cuota[q])
  BY PagadoMenor, Cotas DEF IInv, TypeOK, CuotaOK
<1>3. p \in Nat /\ p <= cuota[q].pagado /\ p < cuota[q].monto /\ p <= cuota[q].monto
  BY <1>1, <1>2 DEF Resta
<1>4. fila = Fila(cuota[q], p, e)
  BY <1>0 DEF reopenInstallment, Resta, Fila
<1>5. e \in {"PENDIENTE", "PARCIAL", "PAGADA"} /\ e # "PAGADA"
  OBVIOUS
<1>6. CuotaOK(fila) /\ fila.monto = cuota[q].monto /\ fila.pagado = p /\ fila.estado = e
  <2> HIDE DEF p, e
  <2> QED BY <1>2, <1>3, <1>4, <1>5, FilaCambiada
<1>7. EstadoSegun(fila) = e
  <2>1. fila.pagado # fila.monto
    <3> HIDE DEF p, e
    <3> QED BY <1>2, <1>3, <1>6
  <2>2. QED
    BY <1>6, <2>1 DEF EstadoSegun
<1>8. /\ final \in {"", "ACTIVO"}
      /\ final = "" => credito[q[1]].estado # "FINALIZADO"
  BY <1>0 DEF reopenInstallment
<1>9. QED
  BY <1>0, <1>3, <1>5, <1>6, <1>7, <1>8 DEF Reabierta

\* An income is taken back, or its reversal repeated.
LEMMA RevertirMantiene ==
    ASSUME IInv, NEW i \in ingreso, NEW m \in movimientos,
           Reverse(i, m) \/ ReplayReverse(i, m)
    PROVE  IInv'
<1>1. PICK efecto : efecto = reopenInstallment(i.cuota, m.importe)
  OBVIOUS
<1>2. PICK r : r = Menor((1..MaxMovimientos) \ MovimientosTomados)
  OBVIOUS
<1>3. PICK mov, t :
        /\ t = [tipo |-> "REVERSA", cuota |-> i.cuota, ingreso |-> i.id, mov |-> mov,
                fila |-> efecto.fila, final |-> efecto.final]
        /\ Abrir(t)
        /\ \/ /\ mov = [id |-> r, ingreso |-> i.id, importe |-> m.importe,
                        revierte |-> m.id]
              /\ m \in Vivos(movimientos) /\ m.ingreso = i.id
              /\ Cardinality(MovimientosTomados) < MaxMovimientos
           \/ mov = [id |-> 0]
  BY <1>1, <1>2 DEF Reverse, ReplayReverse, SinMovimiento
<1>4. Libres(i.cuota, i.id) /\ i.cuota \in DOMAIN cuota /\ m \in Movimiento
  BY DEF Reverse, ReplayReverse, IInv, Referencias, TypeOK
<1>5. /\ t.tipo = "REVERSA" /\ t.cuota = i.cuota /\ t.ingreso = i.id /\ t.mov = mov
      /\ t.fila = efecto.fila /\ t.final = efecto.final
  BY <1>3
<1>6. /\ CuotaOK(t.fila) /\ t.fila.monto = cuota[i.cuota].monto
      /\ t.fila.pagado = Resta(cuota[i.cuota].pagado, m.importe)
      /\ t.fila.pagado <= cuota[i.cuota].pagado
      /\ t.fila.estado = EstadoSegun(t.fila) /\ t.fila.estado # "PAGADA"
      /\ t.final \in {"", "ACTIVO"}
      /\ t.final = "" => credito[i.cuota[1]].estado # "FINALIZADO"
  <2>1. m.importe \in Importes
    BY <1>4 DEF Movimiento
  <2>2. Reabierta(i.cuota, m.importe, efecto.fila, efecto.final)
    BY <1>1, <1>4, <2>1, ReaperturaEs
  <2>3. QED
    BY <1>5, <2>2 DEF Reabierta
<1>7. ASSUME mov # [id |-> 0]
      PROVE  /\ mov \in Movimiento /\ mov.ingreso = i.id
             /\ \A n \in movimientos : n.id # mov.id
             /\ \A u \in enCurso : u.mov.id # mov.id
             /\ m \in Vivos(movimientos) /\ m.ingreso = i.id
             /\ mov.revierte = m.id /\ mov.importe = m.importe
  <2>1. /\ mov = [id |-> r, ingreso |-> i.id, importe |-> m.importe, revierte |-> m.id]
        /\ m \in Vivos(movimientos) /\ m.ingreso = i.id
        /\ Cardinality(MovimientosTomados) < MaxMovimientos
    BY <1>3, <1>7
  <2>2. /\ r \in 1..MaxMovimientos /\ \A n \in movimientos : n.id # r
        /\ \A u \in enCurso : u.mov.id # r
    BY <1>2, <2>1, MovimientoNuevo
  <2>3. i.id \in 1..MaxIngresos
    BY DEF IInv, TypeOK, Ingreso
  <2>4. m.id \in 0..MaxMovimientos /\ m.importe \in Importes
    <3>1. m.id \in 1..MaxMovimientos /\ MaxMovimientos \in Nat
      BY <1>4, CotasPositivas DEF Movimiento
    <3>2. QED
      BY <1>4, <3>1 DEF Movimiento
  <2>5. mov \in Movimiento
    BY <2>1, <2>2, <2>3, <2>4 DEF Movimiento
  <2>6. QED
    BY <2>1, <2>2, <2>5
<1>8. mov = [id |-> 0] => mov.id = 0
  OBVIOUS
<1>9. mov # [id |-> 0] => mov.id # 0
  BY <1>7, MovimientoEs
<1>10. ReversaOK(t)
  BY <1>5, <1>6, <1>7, <1>8, <1>9 DEF ReversaOK
<1>11. FinalOK(t)
  BY <1>5, <1>6 DEF FinalOK
<1>12. TransaccionOK(t)
  BY <1>5, <1>6, <1>10, <1>11 DEF TransaccionOK
<1>13. Propia(t)
  <2>1. \A u \in enCurso : u.cuota # t.cuota /\ u.ingreso # t.ingreso
    <3>1. i.id # 0
      BY Cotas DEF IInv, TypeOK, Ingreso
    <3>2. QED
      BY <1>4, <1>5, <3>1 DEF Libres
  <2>2. QED
    BY <1>4, <1>5, <1>7, <1>8, <2>1 DEF Propia
<1>14. QED
  BY <1>3, <1>12, <1>13, AbrirMantiene


\* An income is collected again, which does not touch its instalment.
LEMMA CobrarMantiene ==
    ASSUME IInv, NEW i \in ingreso, NEW x \in Importes, Collect(i, x)
    PROVE  IInv'
<1>1. PICK n : n = Menor((1..MaxMovimientos) \ MovimientosTomados)
  OBVIOUS
<1>2. PICK m : m = [id |-> n, ingreso |-> i.id, importe |-> x, revierte |-> 0]
  OBVIOUS
<1>3. /\ movimientos' = movimientos \cup {m} /\ plan' = plan /\ credito' = credito
      /\ cuota' = cuota /\ ingreso' = ingreso /\ enCurso' = enCurso
      /\ solapados' = solapados /\ Cardinality(MovimientosTomados) < MaxMovimientos
  BY <1>1, <1>2 DEF Collect
<1>4. /\ n \in 1..MaxMovimientos /\ n # 0
      /\ \A o \in movimientos : o.id # n /\ o.revierte # n
      /\ \A t \in enCurso : t.mov.id # n
  BY <1>1, <1>3, MovimientoNuevo
<1>5. m \in Movimiento /\ m.id = n /\ m.ingreso = i.id /\ m.importe = x /\ m.revierte = 0
  <2>1. 0 \in 0..MaxMovimientos
    BY CotasPositivas
  <2>2. i.id \in 1..MaxIngresos
    BY DEF IInv, TypeOK, Ingreso
  <2>3. QED
    BY <1>2, <1>4, <2>1, <2>2 DEF Movimiento
<1>6. TypeOK'
  BY <1>3, <1>5 DEF IInv, TypeOK
<1>7. Finitos'
  BY <1>3, FS_AddElement DEF IInv, Finitos
<1>8. Referencias'
  BY <1>3, <1>5 DEF IInv, Referencias
<1>9. IdsUnicos'
  <2>1. Distintos(movimientos')
    BY <1>3, <1>4, <1>5 DEF IInv, IdsUnicos, Distintos
  <2>2. QED
    BY <1>3, <1>4, <1>5, <2>1 DEF IInv, IdsUnicos
<1>10. Bloqueos' /\ EstadosSegun'
  BY <1>3 DEF IInv, Bloqueos, EstadosSegun
<1>11. \A k : SinPagar(k)' = SinPagar(k)
  BY <1>3, SinPagarIgual
<1>12. Vivos(movimientos) \subseteq Vivos(movimientos')
  <2>1. \A o \in movimientos : o.id # 0
    BY MovimientoEs DEF IInv, TypeOK
  <2>2. QED
    BY <1>3, <1>5, <2>1 DEF Vivos
<1>13. EnCursoOK'
  <2>1. ASSUME NEW u \in enCurso' PROVE TransaccionOK(u)'
    <3>1. TransaccionOK(u) /\ u.cuota \in DOMAIN cuota
      BY <1>3 DEF IInv, EnCursoOK, Referencias
    <3>2. QED
      BY <1>3, <1>11, <1>12, <3>1, OtroCredito
  <2>2. QED
    BY <2>1 DEF EnCursoOK
<1>14. CreditosSegun'
  BY <1>3, <1>11 DEF IInv, CreditosSegun
<1>15. CuotasSumanTotal'
  BY <1>3, TotalPrima, TotalDe
<1>16. PagadoEnCaja'
  <2> DEFINE movs == movimientos \cup {m}
  <2>1. /\ IsFiniteSet(ingreso) /\ IsFiniteSet(movimientos) /\ Distintos(ingreso)
        /\ movimientos \subseteq Movimiento
    BY DEF IInv, Finitos, TypeOK, IdsUnicos
  <2>2. x \in Nat
    BY Cotas
  <2>3. \A id : Neto(movs, id) = Neto(movimientos, id) + Aporta(m, id)
    BY <1>4, <1>5, <2>1, PublicarNeto
  <2>4. \A id : Neto(movs, id) = Neto(movimientos, id) + IF id = i.id THEN x ELSE 0
    BY <1>5, <2>3 DEF Aporta
  <2>5. ASSUME NEW q \in DOMAIN cuota
        PROVE  cuota[q].pagado <= Caja(ingreso, movs, q)
    <3> HIDE DEF movs
    <3>1. Caja(ingreso, movs, q)
              = Caja(ingreso, movimientos, q) + IF i.cuota = q THEN x ELSE 0
      BY <2>1, <2>2, <2>4, CajaCambia
    <3>2. /\ cuota[q].pagado \in Nat /\ Caja(ingreso, movimientos, q) \in Nat
          /\ cuota[q].pagado <= Caja(ingreso, movimientos, q)
      BY PagadoMenor
    <3>3. QED
      BY <2>2, <3>1, <3>2
  <2>6. QED
    BY <1>3, <2>1, <2>5, PagadoPrima
<1>17. QED
  BY <1>6, <1>7, <1>8, <1>9, <1>10, <1>13, <1>14, <1>15, <1>16 DEF IInv

-------------------------------------------------------------------------------
(* The theorems *)

\* The tables begin empty, and with the invariant.
LEMMA IInvInicial == Init => IInv
<1> SUFFICES ASSUME Init PROVE IInv
  OBVIOUS
<1>1. /\ DOMAIN plan = {} /\ DOMAIN credito = {} /\ DOMAIN cuota = {}
      /\ ingreso = {} /\ movimientos = {} /\ enCurso = {} /\ solapados = {}
  BY DEF Init
<1>2. TypeOK /\ Referencias /\ IdsUnicos /\ Bloqueos /\ EstadosSegun /\ EnCursoOK
  BY <1>1 DEF TypeOK, Referencias, IdsUnicos, Distintos, Bloqueos, EstadosSegun, EnCursoOK
<1>3. Finitos
  BY <1>1, FS_EmptySet DEF Finitos
<1>4. CreditosSegun /\ CuotasSumanTotal /\ PagadoEnCaja
  BY <1>1 DEF CreditosSegun, CuotasSumanTotal, PagadoEnCaja
<1>5. QED
  BY <1>2, <1>3, <1>4 DEF IInv

\* Every step keeps it.
LEMMA IInvPaso == IInv /\ [Next]_vars => IInv'
<1> SUFFICES ASSUME IInv, [Next]_vars PROVE IInv'
  OBVIOUS
<1>1. CASE UNCHANGED vars
  BY <1>1, SinCambios DEF vars, IInv, TypeOK
<1>2. CASE PlanNext
  BY <1>2, PlanMantiene DEF PlanNext
<1>3. CASE \E k \in Creditos, p \in Planes, f \in 1..MaxFinanciado :
              confirmOperationCredit(k, p, f)
  BY <1>3, ConfirmarCreditoMantiene
<1>4. CASE \E q \in Filas, x \in Importes : payInstallment(q, x)
  BY <1>4, PagarMantiene
<1>5. CASE \E i \in ingreso, m \in movimientos : Reverse(i, m)
  BY <1>5, RevertirMantiene
<1>6. CASE \E i \in ingreso, r \in movimientos : ReplayReverse(i, r)
  BY <1>6, RevertirMantiene
<1>7. CASE \E i \in ingreso, x \in Importes : Collect(i, x)
  BY <1>7, CobrarMantiene
<1>8. CASE \E t \in enCurso : Confirmar(t)
  BY <1>8, ConfirmarMantiene
<1>9. CASE \E t \in enCurso : Deshacer(t)
  BY <1>9, DeshacerMantiene
<1>10. QED
  BY <1>1, <1>2, <1>3, <1>4, <1>5, <1>6, <1>7, <1>8, <1>9 DEF Next

\* What holds between the tables and the transactions that have not committed,
\* however many there are at once.
THEOREM Inductive == Spec => []IInv
BY IInvInicial, IInvPaso, PTL DEF Spec

\* Every row has the shape its table declares, and no instalment was ever paid
\* less than nothing or more than it is.
THEOREM TypeCorrect == Spec => []TypeOK
<1>1. IInv => TypeOK
  BY DEF IInv
<1>2. QED
  BY Inductive, <1>1, PTL

\* The instalments add up to the credit for any total and any number of them,
\* and none says it was paid more than the accounts hold for it.
THEOREM CuotasCorrectas == Spec => []CuotasCuadran
<1>1. IInv => CuotasCuadran
  BY DEF IInv, CuotasCuadran
<1>2. QED
  BY Inductive, <1>1, PTL

\* A credit is over exactly while all its instalments are paid, as long as no
\* two transactions worked on it at once.
THEOREM FinalizadoCorrecto == Spec => []FinalizadoSiiPagadas
<1>1. ASSUME IInv PROVE FinalizadoSiiPagadas
  <2>1. \A q \in DOMAIN cuota : cuota[q].estado = EstadoSegun(cuota[q])
    BY <1>1 DEF IInv, EstadosSegun
  <2>2. \A k \in DOMAIN credito \ solapados :
            credito[k].estado = "FINALIZADO" <=> SinPagar(k) = {}
    BY <1>1 DEF IInv, CreditosSegun
  <2>3. QED
    BY <2>1, <2>2 DEF FinalizadoSiiPagadas, EstadoSegun
<1>2. QED
  BY Inductive, <1>1, PTL

===============================================================================
