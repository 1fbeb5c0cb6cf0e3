------------------------------ MODULE CashProofs ------------------------------
(***************************************************************************)
(* Theorems about Cash, for any number of accounts, records, requests and  *)
(* transactions in flight.                                                 *)
(*                                                                         *)
(* What makes the cash right is never stated by one handler: a movement    *)
(* belongs to one record, and whoever takes it back holds the lock of that *)
(* record.  So what a transaction in flight read about its record stays    *)
(* true until it commits, whatever the others do in between.  IInv says    *)
(* it: each row, and each row about to be written, agrees with the ledger  *)
(* it will be read with (FilaSegun).                                       *)
(***************************************************************************)
EXTENDS Cash, Sums

-------------------------------------------------------------------------------
(* The inductive invariant *)

Existentes == {f \in Filas : Existe(f)}

Finitos ==
    /\ IsFiniteSet(movimientos) /\ \A t \in enCurso : IsFiniteSet(t.movs)
    /\ IsFiniteSet(Existentes)

Distintos(A) == \A m, n \in A : m.id = n.id => m = n

SinComunes(A, B) == \A m \in A, n \in B : m.id # n.id

\* An id is of one movement, committed or not.
IdsUnicos ==
    /\ Distintos(movimientos)
    /\ \A t \in enCurso : Distintos(t.movs) /\ SinComunes(t.movs, movimientos)
    /\ \A t, u \in enCurso : t # u => SinComunes(t.movs, u.movs)

\* What is taken back was posted before.
Anteriores ==
    \A r \in movimientos : r.revierte # 0 => \E m \in movimientos : m.id = r.revierte

\* The row lock: a record that exists, and one transaction that holds it.
Bloqueos ==
    /\ \A t \in enCurso : Existe(t.fila)
    /\ \A t, u \in enCurso : t.fila = u.fila => t = u

\* The tables whose rows name a movement.
ConMovimiento == Pagos \cup Retiros

\* A movement is of a record that exists, and named by one.
UnDuenio ==
    /\ \A m \in movimientos : m.de # Ninguna => Existe(m.de)
    /\ \A f, g \in ConMovimiento :
          (/\ Existe(f) /\ Existe(g)
           /\ registro[f].mov # 0 /\ registro[f].mov = registro[g].mov) => f = g

\* A movement is of a record that collects and pays, of a transfer, or of none.
Formal(m) ==
    /\ m.de \in Deudas \cup Transferencias \cup {Ninguna}
    /\ m.de \in Deudas =>
          \/ m.tipo = "INGRESO" /\ m.sentido = "CREDITO"
          \/ m.tipo = "EGRESO" /\ m.sentido = "DEBITO"

\* A movement of no record that stands is named by one.
SinHuerfanos ==
    /\ \A m \in movimientos : Formal(m)
    /\ \A m \in Vivos(movimientos) : m.de = Ninguna =>
          \E f \in ConMovimiento : Existe(f) /\ registro[f].mov = m.id

\* The record f, of row fila, is the one m belongs to.
EsDe(m, f, fila) ==
    \/ m.de = f
    \/ m.de = Ninguna /\ f \in ConMovimiento /\ fila.mov = m.id

\* r is what takes m back.
Deshace(r, m) ==
    /\ r.revierte = m.id /\ r.caja = m.caja /\ r.importe = m.importe
    /\ r.sentido = (IF m.sentido = "CREDITO" THEN "DEBITO" ELSE "CREDITO")
    /\ r.de = Ninguna

Vivas(movs, f) == {m \in Vivos(movs) : m.de = f}

\* The movement a payment or a withdrawal names is a debit of its amount.
Nombrado(fila, movs) ==
    \E m \in movs :
        /\ m.id = fila.mov /\ m.de = Ninguna /\ m.revierte = 0
        /\ m.importe = fila.importe /\ m.sentido = "DEBITO"

DeudaSegun(f, fila, movs) ==
    /\ fila.estado = paymentStatus(settledAmount(movs, f, TipoPropio(f)),
                                   fila.importe)
    /\ \A tipo \in {"INGRESO", "EGRESO"} :
          settledAmount(movs, f, tipo) <= fila.importe

TransferenciaSegun(f, fila, movs) ==
    IF fila.estado = "CANCELADA" THEN Vivas(movs, f) = {}
    ELSE \E a, b \in Vivas(movs, f) :
            /\ Vivas(movs, f) = {a, b}
            /\ a.sentido = "DEBITO" /\ b.sentido = "CREDITO"
            /\ a.importe = b.importe

RetiroSegun(fila, movs) ==
    /\ Nombrado(fila, movs)
    /\ fila.estado = "REGISTRADO" <=> \E m \in Vivos(movs) : m.id = fila.mov

PagoSegun(fila, movs) ==
    fila.mov # 0 =>
        /\ Nombrado(fila, movs)
        /\ fila.estado = "PAGADO"
        /\ \E m \in Vivos(movs) :
              /\ m.id = fila.mov /\ m.caja = fila.caja
              /\ m.importe = fila.importe /\ m.sentido = "DEBITO"

\* The row agrees with the ledger movs.
FilaSegun(f, fila, movs) ==
    /\ f \in Deudas => DeudaSegun(f, fila, movs)
    /\ f \in Transferencias => TransferenciaSegun(f, fila, movs)
    /\ f \in Retiros => RetiroSegun(fila, movs)
    /\ f \in Pagos => PagoSegun(fila, movs)

RegistrosSegun ==
    \A f \in Filas : Existe(f) => FilaSegun(f, registro[f], movimientos)

\* At most two movements; of two, at least one takes back what the other does
\* not.
Forma(movs) ==
    \/ movs = {}
    \/ \E m \in movs : movs = {m}
    \/ \E r, q \in movs :
          /\ movs = {r, q} /\ r.id # q.id /\ r.revierte # 0
          /\ q.revierte # r.revierte

\* A movement posted by who holds f: one more, or one of f's taken back.
Posteable(r, f) ==
    IF r.revierte = 0
    THEN (f \in Deudas /\ r.de = f) \/ (f \in Pagos /\ r.de = Ninguna)
    ELSE \E m \in Vivos(movimientos) : EsDe(m, f, registro[f]) /\ Deshace(r, m)

\* The row fila names what is posted of no record, and what it no longer names is
\* taken back.
Repone(f, movs, fila) ==
    /\ \A n \in movs : n.de = Ninguna /\ n.revierte = 0 =>
          f \in ConMovimiento /\ fila.mov = n.id
    /\ f \in ConMovimiento /\ Existe(f) =>
          \/ registro[f].mov \in {0, fila.mov}
          \/ \E n \in movs : n.revierte = registro[f].mov

\* What a transaction that holds f is going to write.
TransaccionOK(f, movs, fila) ==
    /\ Forma(movs)
    /\ \A r \in movs : Posteable(r, f) /\ Formal(r)
    /\ Repone(f, movs, fila)
    /\ FilaSegun(f, fila, movimientos \cup movs)
    /\ f \in ConMovimiento =>
          fila.mov \in {0, registro[f].mov} \cup {m.id : m \in movs}

EnCursoOK == \A t \in enCurso : TransaccionOK(t.fila, t.movs, t.nueva)

IInv ==
    /\ TypeOK /\ Finitos /\ IdsUnicos /\ Anteriores /\ Bloqueos /\ UnDuenio
    /\ SinHuerfanos /\ RegistrosSegun /\ EnCursoOK

-------------------------------------------------------------------------------
(* Types and ids *)

\* Each row has the shape of its own table, and never that of a new one.
LEMMA Tablas ==
    /\ \A f \in Filas :
          /\ f \in Deudas => FilaDe(f) = Deuda /\ f \notin ConMovimiento \cup Transferencias
          /\ f \in Pagos => FilaDe(f) = Pago
                            /\ f \notin Deudas \cup Retiros \cup Transferencias
          /\ f \in Retiros => FilaDe(f) = Retiro
                              /\ f \notin Deudas \cup Pagos \cup Transferencias
          /\ f \in Transferencias => FilaDe(f) = Transferencia
                                     /\ f \notin Deudas \cup Pagos \cup Retiros
    /\ \A f \in Filas : Nueva \notin FilaDe(f)
    /\ \A f \in Filas : FilaDe(f) \subseteq Deuda \cup Pago \cup Retiro \cup Transferencia
<1>1. Nueva \notin Deuda \cup Pago \cup Retiro \cup Transferencia
  BY DEF Nueva, Deuda, Pago, Retiro, Transferencia
<1>2. QED
  BY <1>1, TablasDisjuntas DEF FilaDe, Filas, Deudas, ConMovimiento

\* The ids a movement may have are finitely many naturals other than zero.
LEMMA LosIds ==
    /\ Ids \subseteq Nat \ {0} /\ IsFiniteSet(Ids) /\ Cardinality(Ids) = MaxMovimientos
BY FS_Interval, CotasNaturales DEF Ids

\* What IdNuevo takes when there is room: ids nobody has, different ones.
LEMMA IdsNuevos ==
    ASSUME TypeOK, NEW n \in {1, 2}, HayIds(n)
    PROVE  /\ IdNuevo(1) \in Ids \ IdsUsados
           /\ n = 2 => IdNuevo(2) \in Ids \ IdsUsados /\ IdNuevo(1) # IdNuevo(2)
<1> DEFINE libres == Ids \ IdsUsados
           antes(i) == {j \in libres : j < i}
<1>1. IdsUsados \subseteq Ids
  BY DEF TypeOK, IdsUsados, Movimiento
<1>2. IsFiniteSet(libres) /\ Cardinality(libres) >= n
  <2>1. IsFiniteSet(libres) /\ IsFiniteSet(IdsUsados)
    BY <1>1, LosIds, FS_Subset
  <2>2. Cardinality(libres) = Cardinality(Ids) - Cardinality(Ids \cap IdsUsados)
    BY LosIds, FS_Difference
  <2>3. Ids \cap IdsUsados = IdsUsados
    BY <1>1
  <2>4. Cardinality(IdsUsados) \in Nat
    BY <2>1, FS_CardinalityType
  <2>5. QED
    BY <2>1, <2>2, <2>3, <2>4, LosIds, CotasNaturales DEF HayIds
<1>3. libres # {}
  BY <1>2, FS_EmptySet
<1>4. libres \subseteq Nat
  BY LosIds
<1>5. PICK i \in libres : \A m \in libres : i <= m
  BY <1>3, <1>4, HayMenor
<1>6. antes(i) = {}
  BY <1>4, <1>5
<1>7. Cardinality(antes(i)) = 1 - 1
  BY <1>6, FS_EmptySet
<1>8. IdNuevo(1) \in libres /\ Cardinality(antes(IdNuevo(1))) = 1 - 1
  BY <1>5, <1>7 DEF IdNuevo
<1>9. ASSUME n = 2
      PROVE  IdNuevo(2) \in libres /\ Cardinality(antes(IdNuevo(2))) = 2 - 1
  <2>1. Cardinality(libres \ {i}) = Cardinality(libres) - 1
    BY <1>2, <1>5, FS_RemoveElement
  <2>2. Cardinality(libres) \in Nat
    BY <1>2, FS_CardinalityType
  <2>3. libres \ {i} # {}
    BY <1>2, <1>9, <2>1, <2>2, FS_EmptySet
  <2>4. PICK j \in libres \ {i} : \A m \in libres \ {i} : j <= m
    BY <1>4, <2>3, HayMenor
  <2>5. antes(j) = {i}
    BY <1>4, <1>5, <2>4
  <2>6. Cardinality(antes(j)) = 2 - 1
    <3>1. Cardinality({i}) = 1
      BY FS_Singleton
    <3>2. QED
      BY <2>5, <3>1
  <2>7. QED
    BY <2>4, <2>6 DEF IdNuevo
<1>10. QED
  BY <1>8, <1>9

-------------------------------------------------------------------------------
(* The sums of a record *)

\* The movements a record's total is the sum of.
Suyas(movs, f, tipo) == {m \in Vivos(movs) : m.de = f /\ m.tipo = tipo}

\* The total of a record is the sum of their amounts.
LEMMA TotalEsSuma ==
    ASSUME NEW movs, movs \subseteq Movimiento, NEW mas, movs \subseteq mas,
           NEW f, NEW tipo
    PROVE  settledAmount(movs, f, tipo) =
               Suma([m \in mas |-> m.importe], Suyas(movs, f, tipo))
<1> DEFINE S == Suyas(movs, f, tipo)
<1>1. S \subseteq mas
  BY DEF Suyas, Vivos
<1>2. MapThenSumSet(LAMBDA m : m.importe, S) = Suma([m \in mas |-> m.importe], S)
  <2> HIDE DEF S
  <2> QED BY <1>1 DEF Suma, MapThenSumSet, MapThenFoldSet
<1>3. QED
  BY <1>2 DEF settledAmount, Suyas

\* The total is a natural number, and with fewer movements no larger.
LEMMA TotalMenor ==
    ASSUME NEW movs, movs \subseteq Movimiento, IsFiniteSet(movs),
           NEW otros, otros \subseteq Movimiento, NEW f, NEW tipo,
           Suyas(otros, f, tipo) \subseteq Suyas(movs, f, tipo)
    PROVE  /\ settledAmount(otros, f, tipo) \in Nat
           /\ settledAmount(movs, f, tipo) \in Nat
           /\ settledAmount(otros, f, tipo) <= settledAmount(movs, f, tipo)
<1> DEFINE F == [m \in movs \cup otros |-> m.importe]
           S == Suyas(movs, f, tipo)
           P == Suyas(otros, f, tipo)
<1>1. settledAmount(movs, f, tipo) = Suma(F, S)
  BY TotalEsSuma
<1>2. settledAmount(otros, f, tipo) = Suma(F, P)
  BY TotalEsSuma
<1>3. IsFiniteSet(S)
  BY FS_Subset, S \subseteq movs DEF Suyas, Vivos
<1>4. Naturales(F, S)
  <2>1. \A m \in Movimiento : m.importe \in Nat
    BY CotasNaturales DEF Movimiento, Importes
  <2>2. QED
    BY <2>1 DEF Naturales, Suyas, Vivos
<1>5. P \in SUBSET S /\ S \in SUBSET S
  OBVIOUS
<1>6. QED
  <2> HIDE DEF F, S, P
  <2> QED BY <1>1, <1>2, <1>3, <1>4, <1>5, SumaParte

\* A record without movements has no total.
LEMMA TotalCero ==
    ASSUME NEW movs, movs \subseteq Movimiento, NEW f, NEW tipo,
           \A m \in movs : m.de # f
    PROVE  settledAmount(movs, f, tipo) = 0
<1>1. Suyas(movs, f, tipo) = {}
  BY DEF Suyas, Vivos
<1>2. settledAmount(movs, f, tipo) = Suma([m \in movs |-> m.importe], {})
  BY <1>1, TotalEsSuma
<1>3. QED
  BY <1>2, SumaVacia

\* Only the record's own movements count.
LEMMA TotalIgual ==
    ASSUME NEW movs, NEW otros, NEW f, NEW tipo,
           Suyas(otros, f, tipo) = Suyas(movs, f, tipo)
    PROVE  settledAmount(otros, f, tipo) = settledAmount(movs, f, tipo)
BY DEF settledAmount, Suyas

-------------------------------------------------------------------------------
(* What another record's movements leave alone *)

\* The movements nuevos are not of f, nor take back any of its own.
Ajenos(nuevos, movs, f, fila) ==
    /\ \A n \in nuevos : n.de # f
    /\ SinComunes(nuevos, movs)
    /\ \A n \in nuevos, m \in movs : EsDe(m, f, fila) => n.revierte # m.id

\* A row goes on agreeing with the ledger when others write in it.
LEMMA Marco ==
    ASSUME NEW f \in Filas, NEW fila, NEW movs, NEW nuevos,
           Distintos(movs), Ajenos(nuevos, movs, f, fila),
           FilaSegun(f, fila, movs)
    PROVE  FilaSegun(f, fila, movs \cup nuevos)
<1> DEFINE todos == movs \cup nuevos
<1>1. Vivas(todos, f) = Vivas(movs, f)
  BY DEF Vivas, Vivos, Original, Devuelto, Ajenos, EsDe
<1>2. \A tipo : Suyas(todos, f, tipo) = Suyas(movs, f, tipo)
  BY <1>1 DEF Vivas, Suyas
<1>3. ASSUME NEW tipo
      PROVE  settledAmount(todos, f, tipo) = settledAmount(movs, f, tipo)
  <2>1. Suyas(todos, f, tipo) = Suyas(movs, f, tipo)
    BY <1>2
  <2>2. QED
    BY <2>1, TotalIgual
<1>4. ASSUME f \in ConMovimiento, Nombrado(fila, movs)
      PROVE  /\ Nombrado(fila, todos)
             /\ \A m \in todos : m.id = fila.mov =>
                    (m \in Vivos(todos) <=> m \in Vivos(movs))
  <2>1. PICK n \in movs : n.id = fila.mov /\ n.de = Ninguna /\ n.revierte = 0
    BY <1>4 DEF Nombrado
  <2>2. Nombrado(fila, todos)
    BY <1>4 DEF Nombrado
  <2>3. \A m \in todos : m.id = fila.mov => m = n
    BY <2>1 DEF Distintos, Ajenos, SinComunes
  <2>4. EsDe(n, f, fila)
    BY <1>4, <2>1 DEF EsDe
  <2>5. \A r \in nuevos : r.revierte # n.id
    BY <2>1, <2>4 DEF Ajenos
  <2>6. n \in Vivos(todos) <=> n \in Vivos(movs)
    BY <2>1, <2>5 DEF Vivos, Original, Devuelto
  <2>7. QED
    BY <2>2, <2>3, <2>6
<1>5. f \in Deudas => DeudaSegun(f, fila, todos)
  BY <1>3 DEF FilaSegun, DeudaSegun
<1>6. f \in Transferencias => TransferenciaSegun(f, fila, todos)
  BY <1>1 DEF FilaSegun, TransferenciaSegun
<1>7. f \in Retiros => RetiroSegun(fila, todos)
  BY <1>4 DEF FilaSegun, RetiroSegun, ConMovimiento, Vivos
<1>8. f \in Pagos => PagoSegun(fila, todos)
  BY <1>4 DEF FilaSegun, PagoSegun, ConMovimiento, Vivos
<1>9. QED
  BY <1>5, <1>6, <1>7, <1>8 DEF FilaSegun

-------------------------------------------------------------------------------
(* The steps every handler is made of *)

\* The movements nuevos are of f or of nobody, and take back only what is f's.
DeParteDe(nuevos, f) ==
    \A n \in nuevos :
        /\ n.de \in {f, Ninguna}
        /\ n.revierte # 0 =>
              /\ Existe(f)
              /\ \E m \in Vivos(movimientos) :
                    EsDe(m, f, registro[f]) /\ n.revierte = m.id

\* A movement belongs to one record.
LEMMA DeUno ==
    ASSUME IInv, NEW m \in movimientos, NEW f \in Filas, NEW g \in Filas,
           Existe(f), Existe(g), EsDe(m, f, registro[f]), EsDe(m, g, registro[g])
    PROVE  f = g
<1>1. m.id # 0
  BY LosIds DEF IInv, TypeOK, Movimiento
<1>2. Ninguna \notin Filas
  BY TablasDisjuntas
<1>3. QED
  BY <1>1, <1>2 DEF EsDe, IInv, UnDuenio

\* What is done on behalf of f leaves the other records alone, and what the
\* others in flight are about to write.
LEMMA LosDemas ==
    ASSUME IInv, NEW f \in Filas, NEW nuevos, DeParteDe(nuevos, f),
           SinComunes(nuevos, movimientos)
    PROVE  /\ \A g \in Filas : Existe(g) /\ g # f =>
                 Ajenos(nuevos, movimientos, g, registro[g])
           /\ \A u \in enCurso : u.fila # f /\ SinComunes(nuevos, u.movs) =>
                 Ajenos(nuevos, movimientos \cup u.movs, u.fila, u.nueva)
<1>1. Ninguna \notin Filas
  BY TablasDisjuntas
<1>2. ASSUME NEW n \in nuevos, NEW m \in movimientos, NEW g \in Filas, Existe(g),
             EsDe(m, g, registro[g]), n.revierte = m.id
      PROVE  f = g
  <2>1. m.id # 0
    BY LosIds DEF IInv, TypeOK, Movimiento
  <2>2. PICK n0 \in Vivos(movimientos) : EsDe(n0, f, registro[f]) /\ n.revierte = n0.id
    BY <1>2, <2>1 DEF DeParteDe
  <2>3. m = n0
    BY <1>2, <2>2 DEF IInv, IdsUnicos, Distintos, Vivos
  <2>4. Existe(f)
    BY <1>2, <2>1 DEF DeParteDe
  <2>5. QED
    BY <1>2, <2>2, <2>3, <2>4, DeUno
<1>3. ASSUME NEW g \in Filas, Existe(g), g # f
      PROVE  Ajenos(nuevos, movimientos, g, registro[g])
  BY <1>1, <1>2, <1>3 DEF Ajenos, DeParteDe
<1>4. ASSUME NEW u \in enCurso, u.fila # f, SinComunes(nuevos, u.movs)
      PROVE  Ajenos(nuevos, movimientos \cup u.movs, u.fila, u.nueva)
  <2>1. u.fila \in Filas /\ Existe(u.fila)
    BY DEF IInv, TypeOK, Bloqueos
  <2>2. \A n \in nuevos : n.de # u.fila
    BY <1>1, <1>4, <2>1 DEF DeParteDe
  <2>3. SinComunes(nuevos, movimientos \cup u.movs)
    BY <1>4 DEF SinComunes
  <2>4. ASSUME NEW n \in nuevos, NEW m \in movimientos \cup u.movs,
               EsDe(m, u.fila, u.nueva), n.revierte = m.id
        PROVE  FALSE
    <3>1. CASE m \in u.movs
      <4>1. m.id # 0
        BY <3>1, LosIds DEF IInv, TypeOK, Movimiento
      <4>2. PICK n0 \in movimientos : n.revierte = n0.id
        BY <2>4, <4>1 DEF DeParteDe, Vivos
      <4>3. QED
        BY <2>4, <3>1, <4>2 DEF IInv, IdsUnicos, SinComunes
    <3>2. CASE m \in movimientos
      <4>1. m.id # 0
        BY <3>2, LosIds DEF IInv, TypeOK, Movimiento
      <4>2. u.fila \in ConMovimiento =>
              u.nueva.mov \in {0, registro[u.fila].mov} \cup {n0.id : n0 \in u.movs}
        BY DEF IInv, EnCursoOK, TransaccionOK
      <4>3. m.id \notin {n0.id : n0 \in u.movs}
        BY <3>2 DEF IInv, IdsUnicos, SinComunes
      <4>4. EsDe(m, u.fila, registro[u.fila])
        BY <2>4, <4>1, <4>2, <4>3 DEF EsDe
      <4>5. QED
        BY <1>2, <1>4, <2>1, <2>4, <3>2, <4>4
    <3>3. QED
      BY <3>1, <3>2
  <2>5. QED
    BY <2>2, <2>3, <2>4 DEF Ajenos
<1>5. QED
  BY <1>3, <1>4


\* What may be written on behalf of f: new movements and a row that agrees with
\* the ledger they leave.
Escribible(f, movs, fila) ==
    /\ movs \subseteq Movimiento /\ IsFiniteSet(movs)
    /\ Distintos(movs) /\ SinComunes(movs, movimientos)
    /\ DeParteDe(movs, f) /\ Repone(f, movs, fila)
    /\ \A n \in movs : Formal(n)
    /\ fila \in FilaDe(f)
    /\ FilaSegun(f, fila, movimientos \cup movs)
    /\ f \in ConMovimiento =>
          \/ fila.mov \in {0} \cup {m.id : m \in movs}
          \/ Existe(f) /\ fila.mov = registro[f].mov

\* Writing it keeps the invariant, whatever the others have in flight: this is
\* a commit, and a row inserted with its movements.
LEMMA Escribir ==
    ASSUME IInv, NEW f \in Filas, NEW movs, NEW fila, Escribible(f, movs, fila),
           \A u \in enCurso' :
              u \in enCurso /\ u.fila # f /\ SinComunes(movs, u.movs),
           movimientos' = movimientos \cup movs,
           registro' = [registro EXCEPT ![f] = fila],
           cuenta' = cuenta
    PROVE  IInv'
<1>1. /\ registro'[f] = fila /\ Existe(f)'
      /\ \A g \in Filas : g # f => registro'[g] = registro[g] /\ (Existe(g)' <=> Existe(g))
  BY Tablas DEF IInv, TypeOK, Existe, Escribible
<1>2. \A g \in Filas : Existe(g) /\ g # f => Ajenos(movs, movimientos, g, registro[g])
  BY LosDemas DEF Escribible
<1>3. \A u \in enCurso' : Ajenos(movs, movimientos \cup u.movs, u.fila, u.nueva)
  BY LosDemas DEF Escribible
<1>4. TypeOK'
  <2>1. fila \in FilaDe(f) /\ fila \in Deuda \cup Pago \cup Retiro \cup Transferencia
    BY Tablas DEF Escribible
  <2>2. movimientos' \subseteq Movimiento
    BY DEF Escribible, IInv, TypeOK
  <2>3. QED
    BY <2>1, <2>2 DEF IInv, TypeOK
<1>5. Finitos'
  <2>1. Existentes' = Existentes \cup {f}
    BY <1>1 DEF Existentes
  <2>2. IsFiniteSet(Existentes \cup {f})
    BY FS_AddElement DEF IInv, Finitos
  <2>3. QED
    BY <2>1, <2>2, FS_Union DEF IInv, Finitos, Escribible
<1>6. IdsUnicos'
  BY DEF IInv, IdsUnicos, Escribible, Distintos, SinComunes
<1>7. Anteriores'
  BY DEF IInv, Anteriores, Escribible, DeParteDe, Vivos
<1>8. Bloqueos'
  BY <1>1 DEF IInv, TypeOK, Bloqueos
<1>9. UnDuenio'
  <2>1. ASSUME NEW m \in movimientos', m.de # Ninguna
        PROVE  Existe(m.de)'
    <3>1. CASE m \in movimientos
      <4>1. Existe(m.de) /\ m.de \in Filas
        BY <2>1, <3>1 DEF IInv, UnDuenio, TypeOK, Movimiento
      <4>2. QED
        BY <1>1, <4>1
    <3>2. CASE m \in movs
      <4>1. m.de = f
        BY <2>1, <3>2 DEF Escribible, DeParteDe
      <4>2. QED
        BY <1>1, <4>1
    <3>3. QED
      BY <3>1, <3>2
  <2>2. ASSUME NEW g \in ConMovimiento, Existe(g), g # f, registro[g].mov # 0,
               f \in ConMovimiento
        PROVE  registro[g].mov # fila.mov
    <3>1. g \in Filas /\ FilaSegun(g, registro[g], movimientos)
      BY <2>2 DEF IInv, RegistrosSegun, ConMovimiento, Filas
    <3>2. PICK m \in movimientos : m.id = registro[g].mov
      BY <2>2, <3>1 DEF FilaSegun, RetiroSegun, PagoSegun, Nombrado, ConMovimiento
    <3>3. registro[g].mov \notin {0} \cup {n.id : n \in movs}
      BY <2>2, <3>2 DEF Escribible, SinComunes
    <3>4. QED
      BY <2>2, <3>3 DEF Escribible, IInv, UnDuenio
  <2>3. ConMovimiento \subseteq Filas
    BY DEF ConMovimiento, Filas
  <2>4. ASSUME NEW g \in ConMovimiento, NEW h \in ConMovimiento,
               Existe(g)', Existe(h)',
               registro'[g].mov # 0, registro'[g].mov = registro'[h].mov
        PROVE  g = h
    <3>1. CASE g # f /\ h # f
      BY <1>1, <2>3, <2>4, <3>1 DEF IInv, UnDuenio
    <3>2. CASE g = f \/ h = f
      BY <1>1, <2>2, <2>3, <2>4, <3>2
    <3>3. QED
      BY <3>1, <3>2
  <2>5. QED
    BY <2>1, <2>4 DEF UnDuenio
<1>10. SinHuerfanos'
  <2>1. ASSUME NEW m \in movimientos' PROVE Formal(m)
    BY DEF IInv, SinHuerfanos, Escribible
  <2>2. ASSUME NEW m \in Vivos(movimientos \cup movs), m.de = Ninguna
        PROVE  \E g \in ConMovimiento : Existe(g)' /\ registro'[g].mov = m.id
    <3>1. CASE m \in movs
      <4>1. f \in ConMovimiento /\ fila.mov = m.id
        BY <2>2, <3>1 DEF Escribible, Repone, Vivos, Original
      <4>2. QED
        BY <1>1, <4>1
    <3>2. CASE m \in movimientos
      <4>1. m \in Vivos(movimientos) /\ m.id # 0
        BY <2>2, <3>2, LosIds DEF Vivos, Original, Devuelto, IInv, TypeOK, Movimiento
      <4>2. PICK g \in ConMovimiento : Existe(g) /\ registro[g].mov = m.id
        BY <2>2, <4>1 DEF IInv, SinHuerfanos
      <4>3. g \in Filas
        BY DEF ConMovimiento, Filas
      <4>4. CASE g # f
        BY <1>1, <4>2, <4>3, <4>4
      <4>5. CASE g = f
        <5>1. \A n \in movs : n.revierte # m.id
          BY <2>2 DEF Vivos, Devuelto
        <5>2. fila.mov = m.id
          BY <4>1, <4>2, <4>5, <5>1 DEF Escribible, Repone
        <5>3. QED
          BY <1>1, <4>5, <5>2
      <4>6. QED
        BY <4>4, <4>5
    <3>3. QED
      BY <2>2, <3>1, <3>2 DEF Vivos
  <2>3. \A m \in Vivos(movimientos') : m.de = Ninguna =>
            \E g \in ConMovimiento : Existe(g)' /\ registro'[g].mov = m.id
    BY <2>2
  <2>4. QED
    BY <2>1, <2>3 DEF SinHuerfanos, Vivos, Original, Devuelto, Formal
<1>11. RegistrosSegun'
  <2>1. ASSUME NEW g \in Filas, Existe(g)'
        PROVE  FilaSegun(g, registro'[g], movimientos \cup movs)
    <3>1. CASE g = f
      BY <1>1, <3>1 DEF Escribible
    <3>2. CASE g # f
      <4>1. Existe(g) /\ registro'[g] = registro[g]
        BY <1>1, <2>1, <3>2
      <4>2. FilaSegun(g, registro[g], movimientos) /\ Distintos(movimientos)
        BY <4>1 DEF IInv, RegistrosSegun, IdsUnicos
      <4>3. QED
        BY <1>2, <3>2, <4>1, <4>2, Marco
    <3>3. QED
      BY <3>1, <3>2
  <2>2. QED
    BY <2>1 DEF RegistrosSegun
<1>12. EnCursoOK'
  <2>1. SUFFICES ASSUME NEW u \in enCurso'
                 PROVE  TransaccionOK(u.fila, u.movs, u.nueva)'
    BY DEF EnCursoOK
  <2>2. /\ u \in enCurso /\ u.fila # f /\ u.fila \in Filas /\ Existe(u.fila)
        /\ TransaccionOK(u.fila, u.movs, u.nueva)
    BY DEF IInv, TypeOK, Bloqueos, EnCursoOK
  <2>3. registro'[u.fila] = registro[u.fila]
    BY <1>1, <2>2
  <2>4. ASSUME NEW r \in u.movs PROVE Posteable(r, u.fila)'
    <3>1. Posteable(r, u.fila)
      BY <2>2 DEF TransaccionOK
    <3>2. CASE r.revierte = 0
      BY <3>1, <3>2 DEF Posteable
    <3>3. CASE r.revierte # 0
      <4>1. PICK m \in Vivos(movimientos) :
               EsDe(m, u.fila, registro[u.fila]) /\ Deshace(r, m)
        BY <3>1, <3>3 DEF Posteable
      <4>2. m \in Vivos(movimientos \cup movs)
        BY <1>2, <2>2, <4>1 DEF Ajenos, Vivos, Original, Devuelto
      <4>3. QED
        BY <2>3, <3>3, <4>1, <4>2 DEF Posteable
    <3>4. QED
      BY <3>2, <3>3
  <2>5. FilaSegun(u.fila, u.nueva, movimientos' \cup u.movs)
    <3>1. Distintos(movimientos \cup u.movs)
      BY <2>2 DEF IInv, IdsUnicos, Distintos, SinComunes
    <3>2. FilaSegun(u.fila, u.nueva, (movimientos \cup u.movs) \cup movs)
      BY <1>3, <2>2, <3>1, Marco DEF TransaccionOK
    <3>3. (movimientos \cup u.movs) \cup movs = movimientos' \cup u.movs
      OBVIOUS
    <3>4. QED
      BY <3>2, <3>3
  <2>6. Repone(u.fila, u.movs, u.nueva)' /\ \A r \in u.movs : Formal(r)'
    BY <1>1, <2>2, <2>3 DEF TransaccionOK, Repone, Formal
  <2>7. QED
    BY <2>2, <2>3, <2>4, <2>5, <2>6 DEF TransaccionOK
<1>13. QED
  BY <1>4, <1>5, <1>6, <1>7, <1>8, <1>9, <1>10, <1>11, <1>12 DEF IInv


\* A transaction that commits.
LEMMA ConfirmarMantiene ==
    ASSUME IInv, NEW t \in enCurso, Confirmar(t)
    PROVE  IInv'
<1>1. /\ t.fila \in Filas /\ Existe(t.fila) /\ t.movs \subseteq Movimiento
      /\ IsFiniteSet(t.movs) /\ t.nueva \in FilaDe(t.fila)
      /\ Distintos(t.movs) /\ SinComunes(t.movs, movimientos)
      /\ TransaccionOK(t.fila, t.movs, t.nueva)
  BY DEF IInv, TypeOK, Bloqueos, Finitos, IdsUnicos, EnCursoOK
<1>2. DeParteDe(t.movs, t.fila)
  <2>1. ASSUME NEW n \in t.movs
        PROVE  /\ n.de \in {t.fila, Ninguna}
               /\ n.revierte # 0 =>
                     \E m \in Vivos(movimientos) :
                        EsDe(m, t.fila, registro[t.fila]) /\ n.revierte = m.id
    BY <1>1 DEF TransaccionOK, Posteable, Deshace
  <2>2. QED
    BY <1>1, <2>1 DEF DeParteDe
<1>3. Escribible(t.fila, t.movs, t.nueva)
  BY <1>1, <1>2 DEF Escribible, TransaccionOK
<1>4. \A u \in enCurso' :
         u \in enCurso /\ u.fila # t.fila /\ SinComunes(t.movs, u.movs)
  BY DEF Confirmar, IInv, Bloqueos, IdsUnicos
<1>5. QED
  BY <1>1, <1>3, <1>4, Escribir DEF Confirmar

\* Nothing stays of a transaction that is lost.
LEMMA DeshacerMantiene ==
    ASSUME IInv, NEW t \in enCurso, Deshacer(t)
    PROVE  IInv'
<1>1. enCurso' \subseteq enCurso
  BY DEF Deshacer
<1>2. UNCHANGED <<cuenta, registro, movimientos>>
  BY DEF Deshacer
<1>3. TypeOK' /\ Finitos' /\ IdsUnicos' /\ Anteriores' /\ Bloqueos' /\ UnDuenio'
  BY <1>1, <1>2 DEF IInv, TypeOK, Finitos, IdsUnicos, Anteriores, Bloqueos,
                    UnDuenio, Existentes, Existe
<1>4. SinHuerfanos' /\ RegistrosSegun' /\ EnCursoOK'
  BY <1>1, <1>2 DEF IInv, SinHuerfanos, RegistrosSegun, EnCursoOK, TransaccionOK,
                    Posteable, Repone, Existe
<1>5. QED
  BY <1>3, <1>4 DEF IInv

\* The accounts can be anything: no row and no movement depends on their state.
LEMMA CuentasMantienen ==
    ASSUME IInv, cuenta' \in [Cuentas -> Cuenta],
           UNCHANGED <<registro, movimientos, enCurso>>
    PROVE  IInv'
<1>1. TypeOK' /\ Finitos' /\ IdsUnicos' /\ Anteriores' /\ Bloqueos' /\ UnDuenio'
  BY DEF IInv, TypeOK, Finitos, IdsUnicos, Anteriores, Bloqueos, UnDuenio, Existentes,
         Existe
<1>2. SinHuerfanos' /\ RegistrosSegun' /\ EnCursoOK'
  BY DEF IInv, SinHuerfanos, RegistrosSegun, EnCursoOK, TransaccionOK, Posteable,
         Repone, Existe
<1>3. QED
  BY <1>1, <1>2 DEF IInv

\* Ids that no movement has, committed or not.
Frescos(movs) ==
    /\ movs \subseteq Movimiento /\ IsFiniteSet(movs) /\ Distintos(movs)
    /\ \A n \in movs : n.id \notin IdsUsados

\* The ids taken for the movements of a transaction are of no other one.
LEMMA FrescosNoChocan ==
    ASSUME NEW movs, Frescos(movs)
    PROVE  /\ SinComunes(movs, movimientos) /\ SinComunes(movimientos, movs)
           /\ \A u \in enCurso : SinComunes(movs, u.movs) /\ SinComunes(u.movs, movs)
BY DEF Frescos, IdsUsados, SinComunes

\* A handler that leaves a transaction in flight.
LEMMA AbrirMantiene ==
    ASSUME IInv, NEW f \in Filas, NEW movs, NEW fila, Abrir(f, movs, fila),
           Frescos(movs), fila \in FilaDe(f), TransaccionOK(f, movs, fila)
    PROVE  IInv'
<1> DEFINE t == [fila |-> f, movs |-> movs, nueva |-> fila]
<1>1. enCurso' = enCurso \cup {t} /\ UNCHANGED <<cuenta, registro, movimientos>>
  BY DEF Abrir
<1>2. Existe(f) /\ \A u \in enCurso : u.fila # f
  BY DEF Abrir, FilaLibre
<1>3. t.fila = f /\ t.movs = movs /\ t.nueva = fila
  OBVIOUS
<1> HIDE DEF t
<1>4. TypeOK'
  BY <1>1, <1>3 DEF IInv, TypeOK, Frescos
<1>5. Finitos'
  BY <1>1, <1>3 DEF IInv, Finitos, Frescos, Existentes, Existe
<1>6. IdsUnicos'
  BY <1>1, <1>3, FrescosNoChocan DEF IInv, IdsUnicos, Frescos
<1>7. Anteriores' /\ UnDuenio' /\ SinHuerfanos' /\ RegistrosSegun'
  BY <1>1 DEF IInv, Anteriores, UnDuenio, SinHuerfanos, RegistrosSegun, Existe
<1>8. Bloqueos'
  BY <1>1, <1>2, <1>3 DEF IInv, Bloqueos, Existe
<1>9. EnCursoOK'
  BY <1>1, <1>3 DEF IInv, EnCursoOK, TransaccionOK, Posteable, Repone, Existe
<1>10. QED
  BY <1>4, <1>5, <1>6, <1>7, <1>8, <1>9 DEF IInv

\* A handler that inserts a row: its movements are its own or nobody's, and new
\* ones.
LEMMA InsertarMantiene ==
    ASSUME IInv, NEW f \in Filas, NEW movs, NEW fila, Insertar(f, movs, fila),
           Frescos(movs), fila \in FilaDe(f),
           \A n \in movs : /\ n.revierte = 0 /\ n.de \in {f, Ninguna} /\ Formal(n)
                           /\ n.de = Ninguna => f \in ConMovimiento /\ fila.mov = n.id,
           FilaSegun(f, fila, movimientos \cup movs),
           f \in ConMovimiento => fila.mov \in {0} \cup {m.id : m \in movs}
    PROVE  IInv'
<1>1. Escribible(f, movs, fila)
  BY FrescosNoChocan DEF Escribible, Frescos, DeParteDe, Insertar, Repone
<1>2. \A u \in enCurso' :
         u \in enCurso /\ u.fila # f /\ SinComunes(movs, u.movs)
  BY FrescosNoChocan DEF Insertar, IInv, Bloqueos
<1>3. QED
  BY <1>1, <1>2, Escribir DEF Insertar

\* A record that is not there has no movements, and nothing takes back an id
\* nobody has.
LEMMA SinHistoria ==
    ASSUME IInv
    PROVE  /\ \A f \in Filas : ~Existe(f) => \A m \in movimientos : m.de # f
           /\ \A m \in Movimiento : m.id \notin IdsUsados =>
                 ~Devuelto(movimientos, m)
<1>1. Ninguna \notin Filas
  BY TablasDisjuntas
<1>2. \A f \in Filas : ~Existe(f) => \A m \in movimientos : m.de # f
  BY <1>1 DEF IInv, UnDuenio
<1>3. ASSUME NEW m \in Movimiento, m.id \notin IdsUsados, Devuelto(movimientos, m)
      PROVE  FALSE
  <2>1. m.id # 0
    BY LosIds DEF Movimiento
  <2>2. QED
    BY <1>3, <2>1 DEF IInv, Anteriores, Devuelto, IdsUsados
<1>4. QED
  BY <1>2, <1>3


-------------------------------------------------------------------------------
(* The handlers *)

\* Accounts are opened and edited.
LEMMA AccountMantiene == ASSUME IInv, AccountNext PROVE IInv'
<1>1. PICK c \in Cuentas, s \in SucursalesONinguna :
         createAccount(c, s) \/ \E e \in {"ACTIVA", "INACTIVA"} : updateAccount(c, e, s)
  BY DEF AccountNext
<1>2. PICK e \in {"ACTIVA", "INACTIVA"} :
         cuenta' = [cuenta EXCEPT ![c] = [estado |-> e, sucursal |-> s]]
  BY <1>1 DEF createAccount, updateAccount
<1>3. [estado |-> e, sucursal |-> s] \in Cuenta
  BY DEF Cuenta, SucursalesONinguna
<1>4. cuenta' \in [Cuentas -> Cuenta]
  BY <1>2, <1>3 DEF IInv, TypeOK
<1>5. UNCHANGED <<registro, movimientos, enCurso>>
  BY <1>1 DEF createAccount, updateAccount
<1>6. QED
  BY <1>4, <1>5, CuentasMantienen

\* A record whose status was computed from the ledger agrees with it.
LEMMA Recalculada ==
    ASSUME NEW f \in Deudas, NEW fila \in Deuda, NEW movs,
           \A tipo \in {"INGRESO", "EGRESO"} :
              settledAmount(movs, f, tipo) <= fila.importe
    PROVE  /\ ConEstado(f, fila, movs) \in FilaDe(f)
           /\ FilaSegun(f, ConEstado(f, fila, movs), movs)
<1> DEFINE e == paymentStatus(settledAmount(movs, f, TipoPropio(f)), fila.importe)
           nueva == ConEstado(f, fila, movs)
<1>1. f \in Filas
  BY DEF Filas
<1>2. e \in {"PENDIENTE", "PARCIAL", "PAGADO"}
  BY DEF paymentStatus
<1>3. nueva = [fila EXCEPT !.estado = e]
  BY DEF ConEstado
<1> HIDE DEF e, nueva
<1>4. nueva \in Deuda /\ nueva.estado = e /\ nueva.importe = fila.importe
  BY <1>2, <1>3 DEF Deuda
<1>5. DeudaSegun(f, nueva, movs)
  BY <1>4 DEF DeudaSegun, e
<1>6. QED
  BY <1>1, <1>4, <1>5, Tablas DEF FilaSegun, ConMovimiento, nueva

\* The forms of what the handlers of a record post.
LEMMA Formas ==
    /\ Forma({}) /\ \A m : Forma({m})
    /\ \A r, q : r.id # q.id /\ r.revierte # 0 /\ q.revierte # r.revierte =>
          Forma({r, q})
BY DEF Forma

\* A pair is finite.
LEMMA DosFinito == ASSUME NEW r, NEW q PROVE IsFiniteSet({r, q})
<1>1. IsFiniteSet({r}) /\ IsFiniteSet({q})
  BY FS_Singleton
<1>2. IsFiniteSet({r} \cup {q})
  BY <1>1, FS_Union
<1>3. {r} \cup {q} = {r, q}
  OBVIOUS
<1>4. QED
  BY <1>2, <1>3

\* No movement needs no id.
LEMMA NadaFresco == Frescos({})
BY FS_EmptySet DEF Frescos, Distintos

\* A new record collected and paid nothing.
LEMMA CrearDeuda ==
    ASSUME IInv, NEW f \in Deudas, NEW x \in Importes,
           NEW s \in Sucursales \cup {Ninguna}, NEW rec \in BOOLEAN,
           NEW h \in {"NO", "PENDIENTE_RENDICION", "RENDIDO"},
           Insertar(f, {}, DeudaNueva(x, s, rec, h))
    PROVE  IInv'
<1> DEFINE fila == DeudaNueva(x, s, rec, h)
<1>1. f \in Filas /\ ~Existe(f)
  BY DEF Filas, Insertar
<1>2. fila \in Deuda /\ fila.importe = x /\ fila.estado = "PENDIENTE"
  BY DEF DeudaNueva, Deuda
<1>3. \A tipo : settledAmount(movimientos, f, tipo) = 0
  BY <1>1, SinHistoria, TotalCero DEF IInv, TypeOK
<1>4. 0 <= x
  BY CotasNaturales DEF Importes
<1> HIDE DEF fila
<1>5. DeudaSegun(f, fila, movimientos)
  BY <1>2, <1>3, <1>4 DEF DeudaSegun, paymentStatus
<1>6. FilaSegun(f, fila, movimientos \cup {})
  BY <1>1, <1>5, Tablas, movimientos \cup {} = movimientos DEF FilaSegun, ConMovimiento
<1>7. fila \in FilaDe(f) /\ f \notin ConMovimiento
  BY <1>1, <1>2, Tablas
<1>8. QED
  BY <1>1, <1>6, <1>7, NadaFresco, InsertarMantiene DEF fila

\* Its amount is never less than what it moved.
LEMMA EditarDeuda ==
    ASSUME IInv, NEW f \in Deudas, NEW fila \in Deuda, NoBajaDeLoMovido(f, fila.importe),
           Abrir(f, {}, ConEstado(f, fila, movimientos))
    PROVE  IInv'
<1> DEFINE nueva == ConEstado(f, fila, movimientos)
<1>1. f \in Filas
  BY DEF Filas
<1>2. nueva \in FilaDe(f) /\ FilaSegun(f, nueva, movimientos)
  BY Recalculada DEF NoBajaDeLoMovido
<1> HIDE DEF nueva
<1>3. FilaSegun(f, nueva, movimientos \cup {})
  BY <1>2, movimientos \cup {} = movimientos
<1>4. TransaccionOK(f, {}, nueva)
  BY <1>1, <1>3, Formas, Tablas DEF TransaccionOK, Repone
<1>5. QED
  BY <1>1, <1>2, <1>4, NadaFresco, AbrirMantiene DEF nueva


\* What a record that exists is.
LEMMA FilaDeDeuda ==
    ASSUME IInv, NEW f \in Deudas, Existe(f)
    PROVE  /\ f \in Filas /\ registro[f] \in Deuda
           /\ DeudaSegun(f, registro[f], movimientos)
<1>1. f \in Filas
  BY DEF Filas
<1>2. QED
  BY <1>1, Tablas DEF IInv, TypeOK, Existe, RegistrosSegun, FilaSegun

\* The id a handler takes gives a movement nobody had.
LEMMA UnoFresco ==
    ASSUME IInv, HayIds(1), NEW m, m.id = IdNuevo(1), m \in Movimiento
    PROVE  Frescos({m})
<1>1. IdNuevo(1) \notin IdsUsados
  BY IdsNuevos DEF IInv
<1>2. IsFiniteSet({m})
  BY FS_Singleton
<1>3. QED
  BY <1>1, <1>2 DEF Frescos, Distintos

\* Money in or out of a record: of its kind, the guard bounds the new total; of
\* the other kind, the total is the one it was.
LEMMA RegistrarDeuda ==
    ASSUME IInv, NEW f \in Deudas, NEW c \in Cuentas, NEW x \in Importes,
           NEW k \in Claves, NEW tipo \in {"INGRESO", "EGRESO"},
           NEW sentido \in {"CREDITO", "DEBITO"},
           tipo = "INGRESO" <=> sentido = "CREDITO",
           registerEntityMovement(f, c, tipo, sentido, x, k)
    PROVE  IInv'
<1> DEFINE m == Mov(IdNuevo(1), c, tipo, sentido, x, f, k)
           movs == movimientos \cup {m}
           nueva == ConEstado(f, registro[f], movs)
<1>1. /\ Existe(f) /\ HayIds(1)
      /\ settledAmount(movs, f, tipo) <= registro[f].importe
      /\ Abrir(f, {m}, nueva)
  BY DEF registerEntityMovement
<1>2. /\ f \in Filas /\ registro[f] \in Deuda
      /\ DeudaSegun(f, registro[f], movimientos)
  BY <1>1, FilaDeDeuda
<1>3. IdNuevo(1) \in Ids
  BY <1>1, IdsNuevos DEF IInv
<1>4. /\ m \in Movimiento /\ m.id = IdNuevo(1)
      /\ m.revierte = 0 /\ m.de = f /\ m.tipo = tipo /\ m.sentido = sentido
  BY <1>2, <1>3 DEF Mov, Movimiento
<1> HIDE DEF m
<1>5. ASSUME NEW otro \in {"INGRESO", "EGRESO"}
      PROVE  settledAmount(movs, f, otro) <= registro[f].importe
  <2>1. CASE otro = tipo
    BY <1>1, <2>1
  <2>2. CASE otro # tipo
    <3>1. \A n \in movimientos : n.id # 0
      BY LosIds DEF IInv, TypeOK, Movimiento
    <3>2. Suyas(movs, f, otro) = Suyas(movimientos, f, otro)
      BY <1>4, <2>2, <3>1 DEF Suyas, Vivos, Original, Devuelto
    <3>3. settledAmount(movs, f, otro) = settledAmount(movimientos, f, otro)
      BY <3>2, TotalIgual
    <3>4. QED
      BY <1>2, <3>3 DEF DeudaSegun
  <2>3. QED
    BY <2>1, <2>2
<1>6. nueva \in FilaDe(f) /\ FilaSegun(f, nueva, movs)
  BY <1>2, <1>5, Recalculada
<1>7. Posteable(m, f) /\ Formal(m)
  BY <1>4 DEF Posteable, Formal
<1>8. f \notin ConMovimiento /\ f # Ninguna
  BY <1>2, Tablas, TablasDisjuntas
<1> HIDE DEF nueva
<1>9. TransaccionOK(f, {m}, nueva)
  BY <1>4, <1>6, <1>7, <1>8, Formas DEF TransaccionOK, Repone
<1>10. Frescos({m})
  BY <1>1, <1>4, UnoFresco
<1>11. QED
  BY <1>1, <1>2, <1>6, <1>9, <1>10, AbrirMantiene

\* The opposite of a movement of the branch is one.
LEMMA ContraEs ==
    ASSUME NEW m \in Movimiento, NEW id \in Ids, NEW k \in Claves
    PROVE  /\ Contra(id, m, k) \in Movimiento
           /\ Contra(id, m, k).id = id /\ Contra(id, m, k).revierte = m.id
           /\ Deshace(Contra(id, m, k), m)
BY DEF Contra, Movimiento, Deshace

\* What takes a movement back is of no record.
LEMMA ContraFormal == ASSUME NEW r, NEW m, Deshace(r, m) PROVE Formal(r)
BY TablasDisjuntas DEF Deshace, Formal, Filas

\* Money given back: no total grows.
LEMMA RevertirDeuda ==
    ASSUME IInv, NEW f \in Deudas, NEW m \in movimientos, NEW k \in Claves,
           reverseEntityMovement(f, m, k)
    PROVE  IInv'
<1> DEFINE r == Contra(IdNuevo(1), m, k)
           movs == movimientos \cup {r}
           nueva == ConEstado(f, registro[f], movs)
<1>1. /\ m \in Vivos(movimientos) /\ m.de = f /\ HayIds(1) /\ Existe(f)
      /\ Abrir(f, {r}, nueva)
  BY DEF reverseEntityMovement, Abrir
<1>2. /\ f \in Filas /\ registro[f] \in Deuda
      /\ DeudaSegun(f, registro[f], movimientos)
  BY <1>1, FilaDeDeuda
<1>3. /\ IdNuevo(1) \in Ids /\ m \in Movimiento
      /\ m.id # 0
  BY <1>1, IdsNuevos, LosIds DEF IInv, TypeOK, Movimiento
<1>4. /\ r \in Movimiento /\ r.id = IdNuevo(1)
      /\ r.revierte = m.id /\ r.revierte # 0 /\ Deshace(r, m)
  BY <1>3, ContraEs
<1> HIDE DEF r
<1>5. ASSUME NEW tipo \in {"INGRESO", "EGRESO"}
      PROVE  settledAmount(movs, f, tipo) <= registro[f].importe
  <2>1. Suyas(movs, f, tipo) \subseteq Suyas(movimientos, f, tipo)
    BY <1>4 DEF Suyas, Vivos, Original, Devuelto
  <2>2. /\ movimientos \subseteq Movimiento /\ IsFiniteSet(movimientos)
        /\ movs \subseteq Movimiento
    BY <1>4 DEF IInv, TypeOK, Finitos
  <2> DEFINE antes == settledAmount(movimientos, f, tipo)
             despues == settledAmount(movs, f, tipo)
  <2>3. antes \in Nat /\ despues \in Nat /\ despues <= antes
    BY <2>1, <2>2, TotalMenor
  <2>4. antes <= registro[f].importe
    BY <1>2 DEF DeudaSegun
  <2>5. registro[f].importe \in Nat
    BY <1>2, CotasNaturales DEF Deuda, Importes
  <2> HIDE DEF antes, despues
  <2>6. despues <= registro[f].importe
    BY <2>3, <2>4, <2>5
  <2>7. QED
    BY <2>6 DEF despues
<1>6. nueva \in FilaDe(f) /\ FilaSegun(f, nueva, movs)
  BY <1>2, <1>5, Recalculada
<1>7. Posteable(r, f) /\ Formal(r)
  BY <1>1, <1>4, ContraFormal DEF Posteable, EsDe
<1>8. f \notin ConMovimiento
  BY <1>2, Tablas
<1> HIDE DEF nueva
<1>9. TransaccionOK(f, {r}, nueva)
  BY <1>4, <1>6, <1>7, <1>8, Formas DEF TransaccionOK, Repone
<1>10. Frescos({r})
  BY <1>1, <1>4, UnoFresco
<1>11. QED
  BY <1>1, <1>2, <1>6, <1>9, <1>10, AbrirMantiene

\* Handing the cash over moves none.
LEMMA RendirMantiene ==
    ASSUME IInv, NEW i \in Ingresos, confirmHandover(i)
    PROVE  IInv'
<1> DEFINE nueva == [registro[i] EXCEPT !.rendicion = "RENDIDO"]
<1>1. i \in Deudas /\ Existe(i) /\ Abrir(i, {}, nueva)
  BY DEF confirmHandover, Deudas
<1>2. /\ i \in Filas /\ registro[i] \in Deuda
      /\ DeudaSegun(i, registro[i], movimientos)
  BY <1>1, FilaDeDeuda
<1>3. nueva \in Deuda /\ nueva.estado = registro[i].estado
      /\ nueva.importe = registro[i].importe
  BY <1>2 DEF Deuda
<1> HIDE DEF nueva
<1>4. DeudaSegun(i, nueva, movimientos)
  BY <1>2, <1>3 DEF DeudaSegun
<1>5. i \notin ConMovimiento \cup Transferencias /\ nueva \in FilaDe(i)
  BY <1>1, <1>2, <1>3, Tablas
<1>6. FilaSegun(i, nueva, movimientos \cup {})
  BY <1>4, <1>5, movimientos \cup {} = movimientos DEF FilaSegun, ConMovimiento
<1>7. TransaccionOK(i, {}, nueva)
  BY <1>5, <1>6, Formas DEF TransaccionOK, Repone
<1>8. QED
  BY <1>1, <1>2, <1>5, <1>7, NadaFresco, AbrirMantiene


\* A transfer is posted with both its entries, and has no other.
LEMMA TransferirMantiene ==
    ASSUME IInv, NEW t \in Transferencias, NEW c \in Cuentas, NEW d \in Cuentas,
           NEW x \in Importes, NEW k \in Claves, createTransfer(t, c, d, x, k)
    PROVE  IInv'
<1> DEFINE a == Mov(IdNuevo(1), c, "TRANSFERENCIA_SALIENTE", "DEBITO", x, t, k)
           b == Mov(IdNuevo(2), d, "TRANSFERENCIA_ENTRANTE", "CREDITO", x, t, k)
           fila == [estado |-> "CONTABILIZADA", importe |-> x, origen |-> c,
                    destino |-> d]
           movs == movimientos \cup {a, b}
<1>1. HayIds(2) /\ Insertar(t, {a, b}, fila)
  BY DEF createTransfer
<1>2. t \in Filas /\ ~Existe(t)
  BY <1>1 DEF Filas, Insertar
<1>3. /\ IdNuevo(1) \in Ids \ IdsUsados /\ IdNuevo(2) \in Ids \ IdsUsados
      /\ IdNuevo(1) # IdNuevo(2)
  BY <1>1, IdsNuevos DEF IInv
<1>4. /\ a \in Movimiento /\ a.id = IdNuevo(1) /\ a.revierte = 0 /\ a.de = t
      /\ a.sentido = "DEBITO"
      /\ b \in Movimiento /\ b.id = IdNuevo(2) /\ b.revierte = 0 /\ b.de = t
      /\ b.sentido = "CREDITO" /\ a.importe = b.importe
  BY <1>2, <1>3 DEF Mov, Movimiento
<1>5. fila \in Transferencia /\ fila.estado = "CONTABILIZADA"
  BY DEF Transferencia
<1> HIDE DEF a, b, fila
<1>6. a.id # 0 /\ b.id # 0
  BY <1>4, LosIds DEF Movimiento
<1>7. Vivas(movs, t) = {a, b}
  <2>1. \A m \in movimientos : m.de # t
    BY <1>2, SinHistoria
  <2>2. ~Devuelto(movimientos, a) /\ ~Devuelto(movimientos, b)
    BY <1>3, <1>4, SinHistoria
  <2>3. \A m \in movs : m.de = t => m \in {a, b}
    BY <2>1
  <2>4. a \in Vivos(movs) /\ b \in Vivos(movs)
    BY <1>4, <1>6, <2>2 DEF Vivos, Original, Devuelto
  <2>5. QED
    BY <1>4, <2>3, <2>4 DEF Vivas, Vivos
<1>8. TransferenciaSegun(t, fila, movs)
  BY <1>4, <1>5, <1>7 DEF TransferenciaSegun
<1>9. /\ t \notin Deudas \cup Pagos \cup Retiros /\ t \notin ConMovimiento
      /\ fila \in FilaDe(t)
  BY <1>2, <1>5, Tablas DEF ConMovimiento
<1>10. FilaSegun(t, fila, movimientos \cup {a, b})
  BY <1>8, <1>9 DEF FilaSegun
<1>11. Frescos({a, b})
  <2>1. IsFiniteSet({a, b})
    BY DosFinito
  <2>2. QED
    BY <1>3, <1>4, <2>1 DEF Frescos, Distintos
<1>12. Formal(a) /\ Formal(b) /\ t # Ninguna
  BY <1>2, <1>4, <1>9, TablasDisjuntas DEF Formal
<1>13. QED
  BY <1>1, <1>2, <1>4, <1>9, <1>10, <1>11, <1>12, InsertarMantiene

\* Both entries are taken back together.
LEMMA RevertirTransferenciaMantiene ==
    ASSUME IInv, NEW t \in Transferencias, NEW k \in Claves, reverseTransfer(t, k)
    PROVE  IInv'
<1> DEFINE originales == {m \in movimientos : m.de = t /\ Original(m)}
           fila == [registro[t] EXCEPT !.estado = "CANCELADA"]
<1>1. /\ Existe(t) /\ registro[t].estado # "CANCELADA" /\ HayIds(2)
      /\ \A m \in originales : ~Devuelto(movimientos, m)
      /\ Abrir(t, ContrasDe(originales, k), fila)
  BY DEF reverseTransfer
<1>2. t \in Filas
  BY DEF Filas
<1>3. /\ t \notin Deudas \cup Pagos \cup Retiros /\ t \notin ConMovimiento
      /\ registro[t] \in Transferencia /\ FilaDe(t) = Transferencia
  BY <1>1, <1>2, Tablas DEF IInv, TypeOK, Existe, ConMovimiento
<1>4. fila \in FilaDe(t) /\ fila.estado = "CANCELADA"
  BY <1>3 DEF Transferencia
<1>5. originales = Vivas(movimientos, t)
  BY <1>1 DEF Vivas, Vivos
<1>6. PICK a, b \in Vivas(movimientos, t) :
         /\ Vivas(movimientos, t) = {a, b}
         /\ a.sentido = "DEBITO" /\ b.sentido = "CREDITO"
  BY <1>1, <1>2 DEF IInv, RegistrosSegun, FilaSegun, TransferenciaSegun
<1> DEFINE r == Contra(IdNuevo(1), a, k)
           q == Contra(IdNuevo(2), b, k)
<1>7. ContrasDe(originales, k) = {r, q}
  BY <1>5, <1>6 DEF ContrasDe
<1>8. /\ IdNuevo(1) \in Ids \ IdsUsados /\ IdNuevo(2) \in Ids \ IdsUsados
      /\ IdNuevo(1) # IdNuevo(2)
  BY <1>1, IdsNuevos DEF IInv
<1>9. /\ a \in movimientos /\ b \in movimientos /\ a \in Movimiento /\ b \in Movimiento
      /\ a \in Vivos(movimientos) /\ b \in Vivos(movimientos)
      /\ a.de = t /\ b.de = t /\ a # b
  BY <1>6 DEF Vivas, Vivos, IInv, TypeOK
<1>10. a.id # b.id
  BY <1>9 DEF IInv, IdsUnicos, Distintos
<1>11. a.id # 0 /\ b.id # 0
  BY <1>9, LosIds DEF Movimiento
<1>12. /\ r \in Movimiento /\ r.id = IdNuevo(1) /\ r.revierte = a.id /\ Deshace(r, a)
       /\ q \in Movimiento /\ q.id = IdNuevo(2) /\ q.revierte = b.id /\ Deshace(q, b)
  BY <1>8, <1>9, ContraEs
<1>13. r.de = Ninguna /\ q.de = Ninguna /\ Ninguna # t
  BY <1>2, <1>12, TablasDisjuntas DEF Deshace
<1> HIDE DEF originales, fila, r, q
<1>14. Vivas(movimientos \cup {r, q}, t) = {}
  <2>1. ASSUME NEW m \in Vivas(movimientos \cup {r, q}, t)
        PROVE  FALSE
    <3>1. m \in movimientos /\ m.de = t
      BY <2>1, <1>13 DEF Vivas, Vivos
    <3>2. m \in Vivas(movimientos, t)
      BY <2>1, <3>1 DEF Vivas, Vivos, Devuelto
    <3>3. m = a \/ m = b
      BY <1>6, <3>2
    <3>4. QED
      BY <2>1, <3>3, <1>12 DEF Vivas, Vivos, Devuelto
  <2>2. QED
    BY <2>1
<1>15. FilaSegun(t, fila, movimientos \cup {r, q})
  BY <1>3, <1>4, <1>14 DEF FilaSegun, TransferenciaSegun
<1>16. Posteable(r, t) /\ Posteable(q, t) /\ Formal(r) /\ Formal(q)
  BY <1>9, <1>11, <1>12, ContraFormal DEF Posteable, EsDe
<1>17. Forma({r, q})
  BY <1>8, <1>10, <1>11, <1>12, Formas
<1>18. TransaccionOK(t, {r, q}, fila)
  BY <1>3, <1>11, <1>12, <1>15, <1>16, <1>17 DEF TransaccionOK, Repone
<1>19. Frescos({r, q})
  <2>1. IsFiniteSet({r, q})
    BY DosFinito
  <2>2. QED
    BY <1>8, <1>12, <2>1 DEF Frescos, Distintos
<1>20. QED
  BY <1>1, <1>2, <1>4, <1>7, <1>18, <1>19, AbrirMantiene


\* A withdrawal is posted with the movement it names.
LEMMA RetirarMantiene ==
    ASSUME IInv, NEW w \in Retiros, NEW c \in Cuentas, NEW x \in Importes,
           NEW k \in Claves, CreateWithdrawal(w, c, x, k)
    PROVE  IInv'
<1> DEFINE m == Mov(IdNuevo(1), c, "AJUSTE", "DEBITO", x, Ninguna, k)
           fila == [estado |-> "REGISTRADO", importe |-> x, caja |-> c,
                    mov |-> IdNuevo(1), reversa |-> 0]
           movs == movimientos \cup {m}
<1>1. HayIds(1) /\ Insertar(w, {m}, fila)
  BY DEF CreateWithdrawal
<1>2. w \in Filas /\ w \in ConMovimiento
  BY DEF Filas, ConMovimiento
<1>3. IdNuevo(1) \in Ids \ IdsUsados
  BY <1>1, IdsNuevos DEF IInv
<1>4. /\ m \in Movimiento /\ m.id = IdNuevo(1) /\ m.revierte = 0 /\ m.de = Ninguna
      /\ m.importe = x /\ m.sentido = "DEBITO"
  BY <1>3 DEF Mov, Movimiento
<1>5. /\ fila \in Retiro /\ fila.estado = "REGISTRADO" /\ fila.mov = IdNuevo(1)
      /\ fila.importe = x
  BY <1>3 DEF Retiro
<1> HIDE DEF m, fila
<1>6. m.id # 0
  BY <1>4, LosIds DEF Movimiento
<1>7. m \in Vivos(movs)
  BY <1>3, <1>4, <1>6, SinHistoria DEF Vivos, Original, Devuelto
<1>8. RetiroSegun(fila, movs)
  BY <1>4, <1>5, <1>7 DEF RetiroSegun, Nombrado
<1>9. fila \in FilaDe(w) /\ w \notin Deudas \cup Pagos \cup Transferencias
  BY <1>2, <1>5, Tablas
<1>10. FilaSegun(w, fila, movimientos \cup {m})
  BY <1>8, <1>9 DEF FilaSegun
<1>11. Frescos({m})
  BY <1>1, <1>4, UnoFresco
<1>12. Formal(m)
  BY <1>4, TablasDisjuntas DEF Formal, Filas
<1>13. QED
  BY <1>1, <1>2, <1>4, <1>5, <1>9, <1>10, <1>11, <1>12, InsertarMantiene

\* Only the movement of a withdrawal that stands is taken back.
LEMMA RevertirRetiroMantiene ==
    ASSUME IInv, NEW w \in Retiros, NEW k \in Claves, ReverseWithdrawal(w, k)
    PROVE  IInv'
<1>1. PICK m \in movimientos :
         /\ Existe(w) /\ registro[w].estado = "REGISTRADO" /\ HayIds(1)
         /\ m.id = registro[w].mov
         /\ Abrir(w, {Contra(IdNuevo(1), m, k)},
                  [registro[w] EXCEPT !.estado = "ANULADO", !.reversa = IdNuevo(1)])
  BY DEF ReverseWithdrawal
<1> DEFINE r == Contra(IdNuevo(1), m, k)
           fila == [registro[w] EXCEPT !.estado = "ANULADO", !.reversa = IdNuevo(1)]
           movs == movimientos \cup {r}
<1>2. w \in Filas /\ w \in ConMovimiento
  BY DEF Filas, ConMovimiento
<1>3. /\ registro[w] \in Retiro /\ FilaDe(w) = Retiro
      /\ w \notin Deudas \cup Pagos \cup Transferencias
      /\ RetiroSegun(registro[w], movimientos)
  BY <1>1, <1>2, Tablas DEF IInv, TypeOK, Existe, RegistrosSegun, FilaSegun
<1>4. IdNuevo(1) \in Ids \ IdsUsados
  BY <1>1, IdsNuevos DEF IInv
<1>5. /\ fila \in FilaDe(w) /\ fila.estado = "ANULADO" /\ fila.mov = registro[w].mov
      /\ fila.importe = registro[w].importe
  BY <1>3, <1>4 DEF Retiro
<1>6. PICK n \in movimientos :
         /\ n.id = registro[w].mov /\ n.de = Ninguna /\ n.revierte = 0
         /\ n.importe = registro[w].importe /\ n.sentido = "DEBITO"
  BY <1>3 DEF RetiroSegun, Nombrado
<1>7. m = n
  BY <1>1, <1>6 DEF IInv, IdsUnicos, Distintos
<1>8. m \in Vivos(movimientos)
  BY <1>1, <1>3 DEF RetiroSegun, Vivos, IInv, IdsUnicos, Distintos
<1>9. m \in Movimiento /\ m.id # 0
  BY LosIds DEF IInv, TypeOK, Movimiento
<1>10. /\ r \in Movimiento /\ r.id = IdNuevo(1) /\ r.revierte = m.id /\ Deshace(r, m)
  BY <1>4, <1>9, ContraEs
<1> HIDE DEF r, fila
<1>11. Nombrado(fila, movs)
  BY <1>5, <1>6 DEF Nombrado
<1>12. \A v \in Vivos(movs) : v.id # fila.mov
  BY <1>1, <1>4, <1>5, <1>10 DEF Vivos, Devuelto
<1>13. RetiroSegun(fila, movs)
  BY <1>5, <1>11, <1>12 DEF RetiroSegun
<1>14. FilaSegun(w, fila, movs)
  BY <1>3, <1>13 DEF FilaSegun
<1>15. Posteable(r, w)
  BY <1>1, <1>2, <1>6, <1>7, <1>8, <1>9, <1>10 DEF Posteable, EsDe
<1>16. TransaccionOK(w, {r}, fila)
  BY <1>5, <1>9, <1>10, <1>14, <1>15, Formas, ContraFormal DEF TransaccionOK, Repone
<1>17. Frescos({r})
  BY <1>1, <1>10, UnoFresco
<1>18. Abrir(w, {r}, fila)
  BY <1>1 DEF r, fila
<1>19. QED
  BY <1>2, <1>5, <1>16, <1>17, <1>18, AbrirMantiene


\* A payment agrees with the debit just posted for it.
LEMMA Debitado ==
    ASSUME IInv, NEW v \in Pagos, NEW m \in Movimiento, NEW nuevos, m \in nuevos,
           m.id \notin IdsUsados, \A n \in nuevos : n.revierte # m.id,
           m.de = Ninguna, m.revierte = 0, m.sentido = "DEBITO",
           NEW fila, fila.mov = m.id, fila.estado = "PAGADO",
           fila.caja = m.caja, fila.importe = m.importe
    PROVE  FilaSegun(v, fila, movimientos \cup nuevos)
<1>1. ~Devuelto(movimientos, m)
  BY SinHistoria
<1>2. m \in Vivos(movimientos \cup nuevos)
  BY <1>1 DEF Vivos, Original, Devuelto
<1>3. PagoSegun(fila, movimientos \cup nuevos)
  BY <1>2 DEF PagoSegun, Nombrado
<1>4. v \notin Deudas \cup Retiros \cup Transferencias
  BY Tablas DEF Filas
<1>5. QED
  BY <1>3, <1>4 DEF FilaSegun

\* What is of a payment is the movement it names.
LEMMA ElNombrado ==
    ASSUME IInv, NEW v \in Pagos, NEW m \in movimientos, EsDe(m, v, registro[v])
    PROVE  registro[v].mov = m.id
<1>1. m.de # v
  BY Tablas, TablasDisjuntas DEF IInv, SinHuerfanos, Formal, Filas
<1>2. QED
  BY <1>1 DEF EsDe

\* The debit of a vehicle payment.
LEMMA DebitoEs ==
    ASSUME NEW n, IdNuevo(n) \in Ids, NEW c \in Cuentas, NEW x \in Importes
    PROVE  /\ Debito(n, c, x) \in Movimiento
           /\ Debito(n, c, x).id = IdNuevo(n) /\ Debito(n, c, x).caja = c
           /\ Debito(n, c, x).importe = x /\ Debito(n, c, x).sentido = "DEBITO"
           /\ Debito(n, c, x).de = Ninguna /\ Debito(n, c, x).revierte = 0
BY DEF Debito, Mov, Movimiento

\* A vehicle payment is created, paid or not.
LEMMA CrearPagoMantiene ==
    ASSUME IInv, NEW v \in Pagos, NEW e \in {"PENDIENTE", "PAGADO"},
           NEW x \in Importes, NEW c \in Cuentas \cup {Ninguna},
           CreateVehiclePayment(v, e, x, c)
    PROVE  IInv'
<1> DEFINE debita == e = "PAGADO" /\ c # Ninguna
<1>1. v \in Filas /\ v \notin Deudas \cup Retiros \cup Transferencias /\ FilaDe(v) = Pago
  BY Tablas DEF Filas
<1>2. CASE debita
  <2> DEFINE m == Debito(1, c, x)
             fila == [estado |-> e, importe |-> x, caja |-> c, mov |-> IdNuevo(1)]
  <2>1. HayIds(1) /\ Insertar(v, {m}, fila)
    BY <1>2 DEF CreateVehiclePayment
  <2>2. IdNuevo(1) \in Ids \ IdsUsados
    BY <2>1, IdsNuevos DEF IInv
  <2>3. /\ m \in Movimiento /\ m.id = IdNuevo(1) /\ m.caja = c /\ m.importe = x
        /\ m.sentido = "DEBITO" /\ m.de = Ninguna /\ m.revierte = 0
    BY <1>2, <2>2, DebitoEs
  <2>4. /\ fila \in FilaDe(v) /\ fila.mov = m.id /\ fila.estado = "PAGADO"
        /\ fila.caja = m.caja /\ fila.importe = m.importe
    BY <1>1, <1>2, <2>2, <2>3 DEF Pago
  <2> HIDE DEF m, fila
  <2>5. m.id # 0
    BY <2>3, LosIds DEF Movimiento
  <2>6. FilaSegun(v, fila, movimientos \cup {m})
    BY <2>2, <2>3, <2>4, <2>5, Debitado
  <2>7. Frescos({m})
    BY <2>1, <2>3, UnoFresco
  <2>8. Formal(m) /\ v \in ConMovimiento
    BY <2>3, TablasDisjuntas DEF Formal, Filas, ConMovimiento
  <2>9. QED
    BY <1>1, <2>1, <2>3, <2>4, <2>6, <2>7, <2>8, InsertarMantiene
<1>3. CASE ~debita
  <2> DEFINE fila == [estado |-> e, importe |-> x, caja |-> c, mov |-> 0]
  <2>1. Insertar(v, {}, fila)
    BY <1>3 DEF CreateVehiclePayment
  <2>2. fila \in FilaDe(v) /\ fila.mov = 0
    BY <1>1 DEF Pago
  <2> HIDE DEF fila
  <2>3. FilaSegun(v, fila, movimientos \cup {})
    BY <1>1, <2>2 DEF FilaSegun, PagoSegun
  <2>4. QED
    BY <1>1, <2>1, <2>2, <2>3, NadaFresco, InsertarMantiene
<1>4. QED
  BY <1>2, <1>3

\* The debit that no longer says what the payment says goes back, and another
\* takes its place.
LEMMA EditarPagoMantiene ==
    ASSUME IInv, NEW v \in Pagos, NEW e \in {"PENDIENTE", "PAGADO"},
           NEW x \in Importes, NEW c \in Cuentas \cup {Ninguna},
           NEW otraFecha \in BOOLEAN, UpdateVehiclePayment(v, e, x, c, otraFecha)
    PROVE  IInv'
<1> DEFINE fila == registro[v]
           sinDebito == fila.estado = "PAGADO" /\ fila.mov = 0
           devuelve == debitChanged(fila, e, x, c, otraFecha)
           debita == /\ e = "PAGADO" /\ (fila.mov = 0 \/ devuelve)
                     /\ ~sinDebito /\ c # Ninguna
           d == IF devuelve THEN 2 ELSE 1
           devolucion == IF devuelve THEN refund(IdNuevo(1), fila) ELSE {}
           debitos == IF debita THEN {Debito(d, c, x)} ELSE {}
           nueva == [estado |-> e, importe |-> x, caja |-> c,
                     mov |-> IF debita THEN IdNuevo(d)
                             ELSE IF devuelve THEN 0 ELSE fila.mov]
           movs == devolucion \cup debitos
<1>1. /\ Existe(v)
      /\ HayIds((IF devuelve THEN 1 ELSE 0) + (IF debita THEN 1 ELSE 0))
      /\ Abrir(v, movs, nueva)
  BY DEF UpdateVehiclePayment
<1>2. /\ v \in Filas /\ v \in ConMovimiento /\ FilaDe(v) = Pago
      /\ v \notin Deudas \cup Retiros \cup Transferencias
  BY Tablas DEF Filas, ConMovimiento
<1>3. fila \in Pago /\ PagoSegun(fila, movimientos)
  BY <1>1, <1>2 DEF IInv, TypeOK, Existe, RegistrosSegun, FilaSegun
<1>4. debita => e = "PAGADO" /\ c \in Cuentas
  OBVIOUS
<1>5. ASSUME devuelve, HayIds(1)
      PROVE  \E m \in Vivos(movimientos), r \in Movimiento :
                /\ devolucion = {r} /\ r.id = IdNuevo(1)
                /\ EsDe(m, v, fila) /\ Deshace(r, m) /\ m.id # 0
  <2>1. fila.mov # 0
    BY <1>5 DEF debitChanged
  <2>2. PICK m \in Vivos(movimientos) :
           /\ m.id = fila.mov /\ m.caja = fila.caja
           /\ m.importe = fila.importe /\ m.sentido = "DEBITO"
    BY <1>3, <2>1 DEF PagoSegun
  <2>3. PICK n \in movimientos : n.id = fila.mov /\ n.de = Ninguna
    BY <1>3, <2>1 DEF PagoSegun, Nombrado
  <2>4. m = n
    BY <2>2, <2>3 DEF IInv, IdsUnicos, Distintos, Vivos
  <2>5. m \in Movimiento /\ m.id # 0
    BY LosIds DEF IInv, TypeOK, Movimiento, Vivos
  <2>6. fila.caja # Ninguna
    BY <2>2, <2>5, TablasDisjuntas DEF Movimiento
  <2>7. IdNuevo(1) \in Ids
    BY <1>5, IdsNuevos DEF IInv
  <2> DEFINE r == [id |-> IdNuevo(1), caja |-> fila.caja, importe |-> fila.importe,
                   de |-> Ninguna, revierte |-> fila.mov, clave |-> Ninguna,
                   tipo |-> "INGRESO", sentido |-> "CREDITO"]
  <2>8. devolucion = {r}
    BY <1>5, <2>1, <2>6 DEF refund
  <2>9. r \in Movimiento
    BY <2>2, <2>5, <2>7 DEF Movimiento
  <2>10. r.id = IdNuevo(1) /\ Deshace(r, m)
    BY <2>2 DEF Deshace
  <2>11. EsDe(m, v, fila)
    BY <1>2, <2>2, <2>3, <2>4 DEF EsDe
  <2>12. QED
    BY <2>5, <2>8, <2>9, <2>10, <2>11
<1> HIDE DEF fila, devuelve, debita, devolucion, debitos, movs
<1>6. CASE ~devuelve /\ ~debita
  <2>1. movs = {}
    BY <1>6 DEF movs, devolucion, debitos
  <2>2. /\ nueva.mov = fila.mov /\ nueva.estado = e /\ nueva.caja = c
        /\ nueva.importe = x /\ nueva \in FilaDe(v)
    BY <1>2, <1>3, <1>6 DEF Pago
  <2>3. fila.mov # 0 => e = "PAGADO" /\ c = fila.caja /\ x = fila.importe
    BY <1>6 DEF devuelve, debitChanged
  <2> HIDE DEF nueva
  <2>4. PagoSegun(nueva, movimientos)
    BY <1>3, <2>2, <2>3 DEF PagoSegun, Nombrado
  <2>5. FilaSegun(v, nueva, movimientos \cup {})
    BY <1>2, <2>4, movimientos \cup {} = movimientos DEF FilaSegun
  <2>6. TransaccionOK(v, {}, nueva)
    BY <2>2, <2>5, Formas DEF TransaccionOK, Repone, fila
  <2>7. QED
    BY <1>1, <1>2, <2>1, <2>2, <2>6, NadaFresco, AbrirMantiene
<1>7. CASE ~devuelve /\ debita
  <2> DEFINE m == Debito(1, c, x)
  <2>1. HayIds(1) /\ movs = {m}
    BY <1>1, <1>7 DEF movs, devolucion, debitos
  <2>2. IdNuevo(1) \in Ids \ IdsUsados
    BY <2>1, IdsNuevos DEF IInv
  <2>3. /\ m \in Movimiento /\ m.id = IdNuevo(1) /\ m.caja = c /\ m.importe = x
        /\ m.sentido = "DEBITO" /\ m.de = Ninguna /\ m.revierte = 0
    BY <1>4, <1>7, <2>2, DebitoEs
  <2>4. /\ nueva \in FilaDe(v) /\ nueva.mov = m.id /\ nueva.estado = "PAGADO"
        /\ nueva.caja = m.caja /\ nueva.importe = m.importe
    BY <1>2, <1>4, <1>7, <2>2, <2>3 DEF Pago
  <2> HIDE DEF m, nueva
  <2>5. m.id # 0
    BY <2>3, LosIds DEF Movimiento
  <2>6. FilaSegun(v, nueva, movimientos \cup {m})
    BY <2>2, <2>3, <2>4, <2>5, Debitado
  <2>7. Posteable(m, v) /\ Formal(m) /\ fila.mov = 0
    BY <1>7, <2>3, TablasDisjuntas DEF Posteable, Formal, Filas, debita
  <2>8. TransaccionOK(v, {m}, nueva)
    BY <1>2, <2>3, <2>4, <2>6, <2>7, Formas DEF TransaccionOK, Repone, fila
  <2>9. Frescos({m})
    BY <2>1, <2>3, UnoFresco
  <2>10. QED
    BY <1>1, <1>2, <2>1, <2>4, <2>8, <2>9, AbrirMantiene
<1>8. CASE devuelve /\ ~debita
  <2>1. HayIds(1) /\ movs = devolucion
    BY <1>1, <1>8 DEF movs, debitos
  <2>2. PICK m \in Vivos(movimientos), r \in Movimiento :
           /\ devolucion = {r} /\ r.id = IdNuevo(1)
           /\ EsDe(m, v, fila) /\ Deshace(r, m) /\ m.id # 0
    BY <1>5, <1>8, <2>1
  <2>3. nueva.mov = 0 /\ nueva \in FilaDe(v)
    BY <1>2, <1>8 DEF Pago
  <2> HIDE DEF nueva
  <2>4. FilaSegun(v, nueva, movimientos \cup {r})
    BY <1>2, <2>3 DEF FilaSegun, PagoSegun
  <2>5. Posteable(r, v) /\ Formal(r)
    BY <2>2, ContraFormal DEF Posteable, Deshace, fila
  <2>6. r.revierte = fila.mov /\ r.revierte # 0
    BY <1>2, <2>2, ElNombrado DEF Deshace, Vivos, fila
  <2>7. TransaccionOK(v, {r}, nueva)
    BY <2>3, <2>4, <2>5, <2>6, Formas DEF TransaccionOK, Repone, fila
  <2>8. Frescos({r})
    BY <2>1, <2>2, UnoFresco
  <2>9. QED
    BY <1>1, <1>2, <2>1, <2>2, <2>3, <2>7, <2>8, AbrirMantiene
<1>9. CASE devuelve /\ debita
  <2> DEFINE q == Debito(2, c, x)
  <2>1. HayIds(2) /\ movs = devolucion \cup {q}
    BY <1>1, <1>9 DEF movs, debitos
  <2>2. /\ IdNuevo(1) \in Ids \ IdsUsados /\ IdNuevo(2) \in Ids \ IdsUsados
        /\ IdNuevo(1) # IdNuevo(2)
    BY <2>1, IdsNuevos DEF IInv
  <2>3. HayIds(1)
    <3>1. IsFiniteSet(IdsUsados)
      BY LosIds, FS_Subset, IdsUsados \subseteq Ids DEF IInv, TypeOK, IdsUsados, Movimiento
    <3>2. QED
      BY <2>1, <3>1, FS_CardinalityType, CotasNaturales DEF HayIds
  <2>4. PICK m \in Vivos(movimientos), r \in Movimiento :
           /\ devolucion = {r} /\ r.id = IdNuevo(1)
           /\ EsDe(m, v, fila) /\ Deshace(r, m) /\ m.id # 0
    BY <1>5, <1>9, <2>3
  <2>5. /\ q \in Movimiento /\ q.id = IdNuevo(2) /\ q.caja = c /\ q.importe = x
        /\ q.sentido = "DEBITO" /\ q.de = Ninguna /\ q.revierte = 0
    BY <1>4, <1>9, <2>2, DebitoEs
  <2>6. /\ nueva \in FilaDe(v) /\ nueva.mov = q.id /\ nueva.estado = "PAGADO"
        /\ nueva.caja = q.caja /\ nueva.importe = q.importe
    BY <1>2, <1>4, <1>9, <2>2, <2>5 DEF Pago
  <2> HIDE DEF q, nueva
  <2>7. movs = {r, q}
    BY <2>1, <2>4
  <2>8. r.revierte = m.id /\ m.id # q.id /\ q.id # 0
    BY <2>2, <2>4, <2>5, LosIds DEF Deshace, Vivos, IdsUsados
  <2>9. FilaSegun(v, nueva, movimientos \cup {r, q})
    BY <2>2, <2>5, <2>6, <2>8, Debitado
  <2>10. /\ Posteable(r, v) /\ Posteable(q, v) /\ Formal(r) /\ Formal(q)
         /\ r.revierte = fila.mov /\ r.revierte # 0
    <3>1. Formal(r) /\ Formal(q)
      BY <2>4, <2>5, ContraFormal, TablasDisjuntas DEF Formal, Filas
    <3>2. r.revierte = fila.mov /\ r.revierte # 0
      BY <1>2, <2>4, <2>8, ElNombrado DEF Deshace, Vivos, fila
    <3>3. QED
      BY <2>4, <2>5, <2>8, <3>1, <3>2 DEF Posteable, fila
  <2>11. Forma({r, q})
    BY <2>2, <2>4, <2>5, <2>8, Formas
  <2>12. TransaccionOK(v, {r, q}, nueva)
    BY <1>2, <2>5, <2>6, <2>9, <2>10, <2>11 DEF TransaccionOK, Repone, fila
  <2>13. Frescos({r, q})
    BY <2>2, <2>4, <2>5, DosFinito DEF Frescos, Distintos
  <2>14. QED
    BY <1>1, <1>2, <2>6, <2>7, <2>12, <2>13, AbrirMantiene
<1>10. QED
  BY <1>6, <1>7, <1>8, <1>9


\* Records are created.
LEMMA CrearMantiene == ASSUME IInv, CreateNext PROVE IInv'
<1>1. PICK x \in Importes :
         \/ \E i \in Ingresos, s \in Sucursales : CreateIncome(i, x, s)
         \/ \E g \in Gastos, s \in SucursalesONinguna, rec \in BOOLEAN :
               CreateExpense(g, x, s, rec)
         \/ \E p \in Compras, s \in Sucursales : CreatePurchase(p, x, s)
  BY DEF CreateNext, ImportesValidos
<1>2. ASSUME NEW i \in Ingresos, NEW s \in Sucursales, CreateIncome(i, x, s)
      PROVE  IInv'
  <2>1. PICK h \in resolveCashCollection : Insertar(i, {}, DeudaNueva(x, s, FALSE, h))
    BY <1>2 DEF CreateIncome
  <2>2. QED
    BY <2>1, CrearDeuda DEF Deudas, resolveCashCollection
<1>3. ASSUME NEW g \in Gastos, NEW s \in SucursalesONinguna, NEW rec \in BOOLEAN,
             CreateExpense(g, x, s, rec)
      PROVE  IInv'
  BY <1>3, CrearDeuda DEF CreateExpense, Deudas, SucursalesONinguna
<1>4. ASSUME NEW p \in Compras, NEW s \in Sucursales, CreatePurchase(p, x, s)
      PROVE  IInv'
  BY <1>4, CrearDeuda DEF CreatePurchase, Deudas
<1>5. QED
  BY <1>1, <1>2, <1>3, <1>4

\* Records are edited.
LEMMA EditarMantiene == ASSUME IInv, UpdateNext PROVE IInv'
<1>1. PICK x \in Importes :
         \/ \E i \in Ingresos, s \in Sucursales, h \in resolveCashCollection :
               UpdateIncome(i, x, s, h)
         \/ \E g \in Gastos, s \in SucursalesONinguna, rec \in BOOLEAN :
               UpdateExpense(g, x, s, rec)
         \/ \E p \in Compras, s \in Sucursales : UpdatePurchase(p, x, s)
  BY DEF UpdateNext, ImportesValidos
<1>2. ASSUME NEW i \in Ingresos, NEW s \in Sucursales, NEW h \in resolveCashCollection,
             UpdateIncome(i, x, s, h)
      PROVE  IInv'
  <2> DEFINE fila == [registro[i] EXCEPT !.importe = x, !.sucursal = s, !.rendicion = h]
  <2>1. /\ i \in Deudas /\ Existe(i) /\ NoBajaDeLoMovido(i, x)
        /\ Abrir(i, {}, ConEstado(i, fila, movimientos))
    BY <1>2 DEF UpdateIncome, Deudas
  <2>2. fila \in Deuda /\ fila.importe = x
    BY <2>1, FilaDeDeuda DEF Deuda, resolveCashCollection
  <2> HIDE DEF fila
  <2>3. QED
    BY <2>1, <2>2, EditarDeuda
<1>3. ASSUME NEW g \in Gastos, NEW s \in SucursalesONinguna, NEW rec \in BOOLEAN,
             UpdateExpense(g, x, s, rec)
      PROVE  IInv'
  <2> DEFINE fila == [registro[g] EXCEPT !.importe = x, !.sucursal = s,
                                         !.recuperable = rec]
  <2>1. /\ g \in Deudas /\ Existe(g) /\ NoBajaDeLoMovido(g, x)
        /\ Abrir(g, {}, ConEstado(g, fila, movimientos))
    BY <1>3 DEF UpdateExpense, Deudas
  <2>2. fila \in Deuda /\ fila.importe = x
    BY <2>1, FilaDeDeuda DEF Deuda, SucursalesONinguna
  <2> HIDE DEF fila
  <2>3. QED
    BY <2>1, <2>2, EditarDeuda
<1>4. ASSUME NEW p \in Compras, NEW s \in Sucursales, UpdatePurchase(p, x, s)
      PROVE  IInv'
  <2> DEFINE fila == [registro[p] EXCEPT !.importe = x, !.sucursal = s]
  <2>1. /\ p \in Deudas /\ Existe(p) /\ NoBajaDeLoMovido(p, x)
        /\ Abrir(p, {}, ConEstado(p, fila, movimientos))
    BY <1>4 DEF UpdatePurchase, Deudas
  <2>2. fila \in Deuda /\ fila.importe = x
    BY <2>1, FilaDeDeuda DEF Deuda
  <2> HIDE DEF fila
  <2>3. QED
    BY <2>1, <2>2, EditarDeuda
<1>5. QED
  BY <1>1, <1>2, <1>3, <1>4

\* Records are collected, paid and taken back.
LEMMA MoverMantiene == ASSUME IInv, MoneyNext PROVE IInv'
<1>1. ASSUME NEW k \in Claves, NEW c \in Cuentas, NEW x \in Importes, NEW f \in Deudas,
             NEW tipo \in {"INGRESO", "EGRESO"}, NEW sentido \in {"CREDITO", "DEBITO"},
             tipo = "INGRESO" <=> sentido = "CREDITO",
             registerEntityMovement(f, c, tipo, sentido, x, k)
      PROVE  IInv'
  BY <1>1, RegistrarDeuda
<1>2. ASSUME NEW k \in Claves, NEW c \in Cuentas, NEW x \in Importes,
             \/ \E i \in Ingresos : Collect(i, c, x, k)
             \/ \E g \in Gastos : PayExpense(g, c, x, k) \/ Recover(g, c, x, k)
             \/ \E p \in Compras : PayPurchase(p, c, x, k)
      PROVE  IInv'
  <2>1. PICK f \in Deudas :
           \/ registerEntityMovement(f, c, "INGRESO", "CREDITO", x, k)
           \/ registerEntityMovement(f, c, "EGRESO", "DEBITO", x, k)
    BY <1>2 DEF Collect, PayExpense, Recover, addMovement, PayPurchase, Deudas
  <2>2. QED
    BY <1>1, <2>1
<1>3. ASSUME NEW k \in Claves, NEW m \in movimientos,
             \/ \E i \in Ingresos : ReverseIncome(i, m, k)
             \/ \E g \in Gastos : ReverseExpense(g, m, k)
             \/ \E p \in Compras : ReversePurchase(p, m, k)
      PROVE  IInv'
  <2>1. PICK f \in Deudas : reverseEntityMovement(f, m, k)
    BY <1>3 DEF ReverseIncome, ReverseExpense, ReversePurchase, Deudas
  <2>2. QED
    BY <2>1, RevertirDeuda
<1>4. QED
  BY <1>2, <1>3, RetirarMantiene, TransferirMantiene, RevertirTransferenciaMantiene,
     RevertirRetiroMantiene DEF MoneyNext, ImportesValidos

\* Vehicle payments are made and edited.
LEMMA PagarMantiene == ASSUME IInv, VehicleNext PROVE IInv'
BY CrearPagoMantiene, EditarPagoMantiene DEF VehicleNext, ImportesValidos

\* The tables begin empty, and with the invariant.
LEMMA IInvInicial == Init => IInv
<1>1. SUFFICES ASSUME Init PROVE IInv
  OBVIOUS
<1>2. movimientos = {} /\ enCurso = {} /\ \A f \in Filas : ~Existe(f)
  BY <1>1 DEF Init, Existe
<1>3. TypeOK
  BY <1>1 DEF Init, TypeOK, Cuenta, Nueva
<1>4. Finitos
  BY <1>2, FS_EmptySet DEF Finitos, Existentes
<1>5. IdsUnicos /\ Anteriores /\ Bloqueos /\ SinHuerfanos /\ EnCursoOK /\ RegistrosSegun
  BY <1>2 DEF IdsUnicos, Distintos, Anteriores, Bloqueos, SinHuerfanos, Vivos, EnCursoOK,
              RegistrosSegun
<1>6. UnDuenio
  BY <1>2 DEF UnDuenio, ConMovimiento, Filas
<1>7. QED
  BY <1>3, <1>4, <1>5, <1>6 DEF IInv

\* Every step keeps it.
LEMMA IInvPaso == IInv /\ [Next]_vars => IInv'
<1>1. SUFFICES ASSUME IInv, [Next]_vars PROVE IInv'
  OBVIOUS
<1>2. CASE UNCHANGED vars
  <2>1. cuenta' \in [Cuentas -> Cuenta]
    BY <1>1, <1>2 DEF vars, IInv, TypeOK
  <2>2. QED
    BY <1>1, <1>2, <2>1, CuentasMantienen DEF vars
<1>3. CASE Next
  BY <1>1, <1>3, AccountMantiene, CrearMantiene, EditarMantiene, MoverMantiene,
     PagarMantiene, RendirMantiene, ConfirmarMantiene, DeshacerMantiene DEF Next
<1>4. QED
  BY <1>1, <1>2, <1>3

-------------------------------------------------------------------------------
(* The theorems *)

\* IInv holds in every state of every behaviour.
THEOREM Inductive == Spec => []IInv
BY IInvInicial, IInvPaso, PTL DEF Spec

\* Every row of every table has the shape its table declares, and so has the
\* one each transaction is about to write.
THEOREM TypeCorrect == Spec => []TypeOK
<1>1. IInv => TypeOK
  BY DEF IInv
<1>2. QED
  BY Inductive, <1>1, PTL

\* However edits, collections, payments, reversals and lost transactions
\* interleave, no record moved more than its amount and its stored status is
\* the one its committed movements give it.
THEOREM CobradoCorrecto == Spec => []CobradoSegunLibro
<1>1. IInv => CobradoSegunLibro
  BY FilaDeDeuda DEF DeudaSegun, CobradoSegunLibro, NuncaDeMas, EstadoSegunLibro
<1>2. QED
  BY Inductive, <1>1, PTL

\* A transfer has both its movements or none, a withdrawal stands with its
\* movement, and the debit a payment names says what the payment says.
THEOREM EnteroCorrecto == Spec => []EnteroODeshecho
<1>1. ASSUME IInv PROVE EnteroODeshecho
  <2>1. ASSUME NEW t \in Transferencias, Existe(t)
        PROVE  Cardinality({m \in Vivos(movimientos) : m.de = t}) =
                   IF registro[t].estado = "CANCELADA" THEN 0 ELSE 2
    <3>1. TransferenciaSegun(t, registro[t], movimientos)
      BY <1>1, <2>1 DEF IInv, RegistrosSegun, FilaSegun, Filas
    <3>2. CASE registro[t].estado = "CANCELADA"
      BY <3>1, <3>2, FS_EmptySet DEF TransferenciaSegun, Vivas
    <3>3. CASE registro[t].estado # "CANCELADA"
      <4>1. PICK a, b \in Vivas(movimientos, t) :
               /\ Vivas(movimientos, t) = {a, b}
               /\ a.sentido = "DEBITO" /\ b.sentido = "CREDITO"
        BY <3>1, <3>3 DEF TransferenciaSegun
      <4>2. a # b
        BY <4>1
      <4>3. Cardinality({a, b}) = 2
        <5>1. IsFiniteSet({a}) /\ Cardinality({a}) = 1
          BY FS_Singleton
        <5>2. Cardinality({a} \cup {b}) = Cardinality({a}) + 1
          BY <4>2, <5>1, FS_AddElement
        <5>3. {a} \cup {b} = {a, b}
          OBVIOUS
        <5>4. QED
          BY <5>1, <5>2, <5>3
      <4>4. QED
        BY <3>3, <4>1, <4>3 DEF Vivas
    <3>4. QED
      BY <3>2, <3>3
  <2>2. ASSUME NEW w \in Retiros, Existe(w)
        PROVE  registro[w].estado = "REGISTRADO" <=>
                   \E m \in Vivos(movimientos) : m.id = registro[w].mov
    BY <1>1, <2>2 DEF IInv, RegistrosSegun, FilaSegun, Filas, RetiroSegun
  <2>3. ASSUME NEW v \in Pagos, Existe(v), registro[v].mov # 0
        PROVE  /\ registro[v].estado = "PAGADO"
               /\ \E m \in Vivos(movimientos) :
                     /\ m.id = registro[v].mov /\ m.caja = registro[v].caja
                     /\ m.importe = registro[v].importe
    BY <1>1, <2>3 DEF IInv, RegistrosSegun, FilaSegun, Filas, PagoSegun
  <2>4. QED
    BY <2>1, <2>2, <2>3 DEF EnteroODeshecho
<1>2. QED
  BY Inductive, <1>1, PTL


-------------------------------------------------------------------------------
(* The sums of all the records *)

\* A credit adds to an account, a debit takes from it.
Signo(m) == IF m.sentido = "CREDITO" THEN m.importe ELSE -m.importe

ConSigno == [m \in Vivos(movimientos) |-> Signo(m)]

\* The live movements of the record f.
Propios(f) == {m \in Vivos(movimientos) : EsDe(m, f, registro[f])}

Aporte(f) == Suma(ConSigno, Propios(f))

\* The live movements are finitely many and their amounts integers.
LEMMA VivosSumables ==
    ASSUME IInv
    PROVE  /\ IsFiniteSet(Vivos(movimientos)) /\ Enteros(ConSigno, Vivos(movimientos))
           /\ \A m \in Vivos(movimientos) : m.importe \in Nat /\ m \in movimientos
           /\ \A S \in SUBSET Vivos(movimientos) : IsFiniteSet(S) /\ Enteros(ConSigno, S)
<1>1. Vivos(movimientos) \subseteq movimientos
  BY DEF Vivos
<1>2. IsFiniteSet(Vivos(movimientos))
  BY <1>1, FS_Subset DEF IInv, Finitos
<1>3. \A m \in movimientos : m.importe \in Nat
  BY CotasNaturales DEF IInv, TypeOK, Movimiento, Importes
<1>4. \A m \in Vivos(movimientos) : ConSigno[m] \in Int
  BY <1>1, <1>3 DEF ConSigno, Signo
<1>5. QED
  BY <1>1, <1>2, <1>3, <1>4, FS_Subset DEF Enteros

\* The accounts hold the live movements.
LEMMA EnCuentas ==
    ASSUME IInv
    PROVE  MapThenSumSet(Saldo, Cuentas) = Suma(ConSigno, Vivos(movimientos))
<1> DEFINE V == Vivos(movimientos)
           D == [c \in Cuentas |-> {m \in V : m.caja = c}]
           G == [c \in Cuentas |-> Saldo(c)]
<1>1. ASSUME NEW c \in Cuentas
      PROVE  Saldo(c) = Suma(ConSigno, {m \in V : m.caja = c})
  <2> DEFINE S == {m \in V : m.caja = c}
  <2>1. S \subseteq V
    OBVIOUS
  <2>2. MapThenSumSet(LAMBDA m : IF m.sentido = "CREDITO" THEN m.importe
                                 ELSE -m.importe, S) = Suma(ConSigno, S)
    <3> HIDE DEF S
    <3> QED BY <2>1 DEF Suma, MapThenSumSet, MapThenFoldSet, ConSigno, Signo
  <2>3. QED
    BY <2>2 DEF Saldo
<1>2. MapThenSumSet(Saldo, Cuentas) = Suma(G, Cuentas)
  BY DEF Suma, MapThenSumSet, MapThenFoldSet
<1>3. Reparte(D, Cuentas, V)
  <2>1. \A m \in V : m.caja \in Cuentas
    BY DEF Vivos, IInv, TypeOK, Movimiento
  <2>2. QED
    BY <2>1 DEF Reparte
<1>4. \A c \in Cuentas : G[c] = Suma(ConSigno, D[c])
  BY <1>1
<1>5. IsFiniteSet(V) /\ Enteros(ConSigno, V) /\ IsFiniteSet(Cuentas)
  BY VivosSumables, CuentasConResponsable
<1> HIDE DEF V, D, G
<1>6. Suma(G, Cuentas) = Suma(ConSigno, V)
  BY <1>3, <1>4, <1>5, SumaPorPartes
<1>7. QED
  BY <1>2, <1>6 DEF V

\* Each live movement is of one record.
LEMMA DeFilas ==
    ASSUME IInv
    PROVE  Suma([f \in Existentes |-> Aporte(f)], Existentes) =
               Suma(ConSigno, Vivos(movimientos))
<1> DEFINE V == Vivos(movimientos)
           D == [f \in Existentes |-> Propios(f)]
           G == [f \in Existentes |-> Aporte(f)]
<1>1. \A f \in Existentes : D[f] \subseteq V
  BY DEF Propios
<1>2. ASSUME NEW f \in Existentes, NEW g \in Existentes, f # g
      PROVE  D[f] \cap D[g] = {}
  BY <1>2, DeUno DEF Existentes, Propios, Vivos
<1>3. ASSUME NEW m \in V
      PROVE  \E f \in Existentes : m \in D[f]
  <2>1. m \in movimientos /\ m \in Movimiento
    BY DEF Vivos, IInv, TypeOK
  <2>2. CASE m.de = Ninguna
    <3>1. PICK f \in ConMovimiento : Existe(f) /\ registro[f].mov = m.id
      BY <2>2 DEF IInv, SinHuerfanos
    <3>2. f \in Existentes /\ EsDe(m, f, registro[f])
      BY <2>2, <3>1 DEF Existentes, ConMovimiento, Filas, EsDe
    <3>3. QED
      BY <3>2 DEF Propios
  <2>3. CASE m.de # Ninguna
    <3>1. m.de \in Existentes
      BY <2>1, <2>3 DEF IInv, UnDuenio, Existentes, Movimiento
    <3>2. QED
      BY <3>1 DEF Propios, EsDe
  <2>4. QED
    BY <2>2, <2>3
<1>4. Reparte(D, Existentes, V)
  <2> HIDE DEF D, V
  <2> QED BY <1>1, <1>2, <1>3 DEF Reparte
<1>5. \A f \in Existentes : G[f] = Suma(ConSigno, D[f])
  BY DEF Aporte
<1>6. IsFiniteSet(V) /\ Enteros(ConSigno, V) /\ IsFiniteSet(Existentes)
  BY VivosSumables DEF IInv, Finitos
<1> HIDE DEF V, D, G
<1>7. Suma(G, Existentes) = Suma(ConSigno, V)
  BY <1>4, <1>5, <1>6, SumaPorPartes
<1>8. QED
  BY <1>7 DEF V, G

\* What the live movements of S add up to when they all have the same sign.
LEMMA DeUnSigno ==
    ASSUME IInv, NEW S \in SUBSET Vivos(movimientos), NEW F,
           \A m \in S : F[m] = m.importe
    PROVE  /\ (\A m \in S : m.sentido = "CREDITO") => Suma(ConSigno, S) = Suma(F, S)
           /\ (\A m \in S : m.sentido = "DEBITO") => Suma(ConSigno, S) = -Suma(F, S)
           /\ Suma(F, S) \in Int
<1>1. IsFiniteSet(S) /\ Enteros(F, S)
  BY VivosSumables DEF Enteros
<1>2. CASE \A m \in S : m.sentido = "CREDITO"
  <2>1. \A m \in S : ConSigno[m] = F[m]
    BY <1>2 DEF ConSigno, Signo
  <2>2. Suma(ConSigno, S) = Suma(F, S)
    BY <1>1, <2>1, SumaIgual
  <2>3. (\A m \in S : m.sentido = "DEBITO") => Suma(F, S) = 0
    BY <1>2, SumaVacia
  <2>4. QED
    BY <1>1, <2>2, <2>3, SumaEntera
<1>3. CASE \A m \in S : m.sentido = "DEBITO"
  <2> DEFINE Cero == [m \in S |-> 0]
  <2>1. \A m \in S : Cero[m] = 0 /\ ConSigno[m] = Cero[m] - F[m]
    BY <1>1, <1>3, VivosSumables DEF ConSigno, Signo, Enteros
  <2>2. Enteros(Cero, S)
    BY DEF Enteros
  <2> HIDE DEF Cero
  <2>3. Suma(Cero, S) = 0 * Cardinality(S) /\ Cardinality(S) \in Nat
    BY <1>1, <2>1, SumaConstante, FS_CardinalityType
  <2>4. Suma(ConSigno, S) = Suma(Cero, S) - Suma(F, S) /\ Suma(F, S) \in Int
    BY <1>1, <2>1, <2>2, SumaResta, SumaEntera
  <2>5. Suma(ConSigno, S) = -Suma(F, S)
    BY <2>3, <2>4
  <2>6. S = {} => Suma(ConSigno, S) = Suma(F, S)
    BY SumaVacia
  <2>7. QED
    BY <1>3, <2>4, <2>5, <2>6
<1>4. QED
  BY <1>1, <1>2, <1>3, SumaEntera

\* One movement.
LEMMA DeUnMovimiento ==
    ASSUME IInv, NEW m \in Vivos(movimientos)
    PROVE  Suma(ConSigno, {m}) = Signo(m)
<1>1. ConSigno[m] = Signo(m) /\ ConSigno[m] \in Int
  BY VivosSumables DEF ConSigno, Enteros
<1>2. QED
  BY <1>1, SumaDeUno

\* An income, an expense or a purchase: what came in less what went out.
LEMMA AporteDeDeuda ==
    ASSUME IInv, NEW f \in Deudas, Existe(f)
    PROVE  /\ Aporte(f) = settledAmount(movimientos, f, "INGRESO")
                            - settledAmount(movimientos, f, "EGRESO")
           /\ settledAmount(movimientos, f, "INGRESO") \in Nat
           /\ settledAmount(movimientos, f, "EGRESO") \in Nat
<1> DEFINE F == [m \in movimientos |-> m.importe]
           A == Suyas(movimientos, f, "INGRESO")
           B == Suyas(movimientos, f, "EGRESO")
<1>1. f \notin ConMovimiento /\ f # Ninguna
  BY Tablas, TablasDisjuntas DEF Filas, ConMovimiento
<1>2. \A m \in Vivos(movimientos) : m.de = f =>
         \/ m.tipo = "INGRESO" /\ m.sentido = "CREDITO"
         \/ m.tipo = "EGRESO" /\ m.sentido = "DEBITO"
  BY DEF IInv, SinHuerfanos, Formal, Vivos
<1>3. Propios(f) = A \cup B /\ A \cap B = {}
  BY <1>1, <1>2 DEF Propios, Suyas, EsDe
<1>4. A \in SUBSET Vivos(movimientos) /\ B \in SUBSET Vivos(movimientos)
  BY DEF Suyas
<1>5. (\A m \in A : m.sentido = "CREDITO") /\ (\A m \in B : m.sentido = "DEBITO")
  BY <1>2 DEF Suyas
<1>6. \A m \in Vivos(movimientos) : F[m] = m.importe
  BY DEF Vivos
<1>7. /\ settledAmount(movimientos, f, "INGRESO") = Suma(F, A)
      /\ settledAmount(movimientos, f, "EGRESO") = Suma(F, B)
  <2>1. movimientos \subseteq Movimiento
    BY DEF IInv, TypeOK
  <2>2. QED
    BY <2>1, TotalEsSuma
<1>8. /\ settledAmount(movimientos, f, "INGRESO") \in Nat
      /\ settledAmount(movimientos, f, "EGRESO") \in Nat
  BY TotalMenor DEF IInv, TypeOK, Finitos
<1> HIDE DEF F, A, B
<1>9. Suma(ConSigno, A) = Suma(F, A) /\ Suma(F, A) \in Int
  BY <1>4, <1>5, <1>6, DeUnSigno
<1>10. Suma(ConSigno, B) = -Suma(F, B) /\ Suma(F, B) \in Int
  BY <1>4, <1>5, <1>6, DeUnSigno
<1>11. Suma(ConSigno, A \cup B) = Suma(ConSigno, A) + Suma(ConSigno, B)
  <2>1. IsFiniteSet(A) /\ IsFiniteSet(B) /\ Enteros(ConSigno, A) /\ Enteros(ConSigno, B)
    BY <1>4, VivosSumables
  <2>2. QED
    BY <1>3, <2>1, SumaUnion
<1>12. Aporte(f) = Suma(ConSigno, A) + Suma(ConSigno, B)
  BY <1>3, <1>11, Zenon DEF Aporte
<1>13. Aporte(f) = settledAmount(movimientos, f, "INGRESO")
                     - settledAmount(movimientos, f, "EGRESO")
  BY <1>7, <1>9, <1>10, <1>12
<1>14. QED
  BY <1>8, <1>13

\* A transfer moves money from one account to another.
LEMMA AporteDeTransferencia ==
    ASSUME IInv, NEW t \in Transferencias, Existe(t)
    PROVE  Aporte(t) = 0
<1>1. t \in Filas /\ t \notin ConMovimiento
  BY Tablas DEF Filas, ConMovimiento
<1>2. Propios(t) = Vivas(movimientos, t)
  BY <1>1 DEF Propios, Vivas, EsDe
<1>3. TransferenciaSegun(t, registro[t], movimientos)
  BY <1>1 DEF IInv, RegistrosSegun, FilaSegun
<1>4. CASE Vivas(movimientos, t) = {}
  BY <1>2, <1>4, SumaVacia DEF Aporte
<1>5. CASE \E a, b \in Vivas(movimientos, t) :
              /\ Vivas(movimientos, t) = {a, b}
              /\ a.sentido = "DEBITO" /\ b.sentido = "CREDITO"
              /\ a.importe = b.importe
  <2>1. PICK a, b \in Vivas(movimientos, t) :
           /\ Vivas(movimientos, t) = {a, b}
           /\ a.sentido = "DEBITO" /\ b.sentido = "CREDITO"
           /\ a.importe = b.importe
    BY <1>5
  <2>2. a \in Vivos(movimientos) /\ b \in Vivos(movimientos) /\ a # b
    BY <2>1 DEF Vivas
  <2>3. Suma(ConSigno, {a}) = Signo(a) /\ Suma(ConSigno, {b}) = Signo(b)
    BY <2>2, DeUnMovimiento
  <2>4. Suma(ConSigno, {a} \cup {b}) = Suma(ConSigno, {a}) + Suma(ConSigno, {b})
    <3>1. {a} \in SUBSET Vivos(movimientos) /\ {b} \in SUBSET Vivos(movimientos)
      BY <2>2
    <3>2. /\ IsFiniteSet({a}) /\ IsFiniteSet({b})
          /\ Enteros(ConSigno, {a}) /\ Enteros(ConSigno, {b})
      BY <3>1, VivosSumables
    <3>3. QED
      BY <2>2, <3>2, SumaUnion
  <2>5. Signo(a) = -a.importe /\ Signo(b) = b.importe /\ b.importe \in Nat
    BY <2>1, <2>2, VivosSumables DEF Signo
  <2>6. Propios(t) = {a} \cup {b}
    BY <1>2, <2>1
  <2>7. Aporte(t) = Suma(ConSigno, {a} \cup {b})
    BY <2>6, Zenon DEF Aporte
  <2>8. Suma(ConSigno, {a}) = -b.importe /\ Suma(ConSigno, {b}) = b.importe
    BY <2>1, <2>3, <2>5
  <2>9. -b.importe + b.importe = 0
    BY <2>5
  <2>10. Aporte(t) = -b.importe + b.importe
    BY <2>4, <2>7, <2>8, Zenon
  <2>11. QED
    BY <2>9, <2>10
<1>6. QED
  BY <1>3, <1>4, <1>5 DEF TransferenciaSegun

\* A payment or a withdrawal takes from an account what its movement says while
\* it stands.
LEMMA AporteDelNombrado ==
    ASSUME IInv, NEW f \in ConMovimiento, Existe(f)
    PROVE  /\ (\A m \in Vivos(movimientos) : m.id # registro[f].mov) => Aporte(f) = 0
           /\ \A m \in Vivos(movimientos) :
                 m.id = registro[f].mov => Aporte(f) = Signo(m) /\ m.de = Ninguna
                                           /\ m.importe = registro[f].importe
                                           /\ m.sentido = "DEBITO"
<1>1. f \in Filas /\ f \notin Deudas \cup Transferencias
  BY Tablas DEF Filas, ConMovimiento
<1>2. \A m \in movimientos : m.de # f
  BY <1>1, TablasDisjuntas DEF IInv, SinHuerfanos, Formal
<1>3. \A m \in Propios(f) : m.id = registro[f].mov
  BY <1>2 DEF Propios, EsDe, Vivos
<1>4. CASE \A m \in Vivos(movimientos) : m.id # registro[f].mov
  <2>1. Propios(f) = {}
    BY <1>3, <1>4 DEF Propios
  <2>2. QED
    BY <1>4, <2>1, SumaVacia DEF Aporte
<1>5. ASSUME NEW m \in Vivos(movimientos), m.id = registro[f].mov
      PROVE  /\ Aporte(f) = Signo(m) /\ m.de = Ninguna
             /\ m.importe = registro[f].importe /\ m.sentido = "DEBITO"
  <2>1. m \in movimientos /\ m.id # 0
    BY LosIds DEF IInv, TypeOK, Movimiento, Vivos
  <2>2. Nombrado(registro[f], movimientos)
    BY <1>1, <1>5, <2>1 DEF IInv, RegistrosSegun, FilaSegun, RetiroSegun, PagoSegun,
                            ConMovimiento
  <2>3. PICK n \in movimientos :
           /\ n.id = registro[f].mov /\ n.de = Ninguna /\ n.revierte = 0
           /\ n.importe = registro[f].importe /\ n.sentido = "DEBITO"
    BY <2>2 DEF Nombrado
  <2>4. n = m
    BY <1>5, <2>1, <2>3 DEF IInv, IdsUnicos, Distintos
  <2>5. Propios(f) = {m}
    <3>1. m \in Propios(f)
      BY <1>5, <2>3, <2>4 DEF Propios, EsDe
    <3>2. \A o \in Propios(f) : o = m
      BY <1>3, <1>5, <2>1 DEF Propios, Vivos, IInv, IdsUnicos, Distintos
    <3>3. QED
      BY <3>1, <3>2
  <2>6. Aporte(f) = Suma(ConSigno, {m})
    BY <2>5, Zenon DEF Aporte
  <2>7. QED
    BY <2>3, <2>4, <2>6, DeUnMovimiento
<1>6. QED
  BY <1>4, <1>5

\* What a payment spent, and what a withdrawal took.
Gastado(v) == IF registro[v].mov = 0 THEN 0 ELSE registro[v].importe
Retirado(w) == IF registro[w].estado = "ANULADO" THEN 0 ELSE registro[w].importe

\* What a vehicle payment names is its debit.
LEMMA AporteDePago ==
    ASSUME IInv, NEW v \in Pagos, Existe(v)
    PROVE  Aporte(v) = -Gastado(v) /\ Gastado(v) \in Int
<1>1. v \in Filas /\ v \in ConMovimiento
  BY DEF Filas, ConMovimiento
<1>2. registro[v] \in Pago /\ PagoSegun(registro[v], movimientos)
  BY <1>1, Tablas DEF IInv, TypeOK, Existe, RegistrosSegun, FilaSegun
<1>3. registro[v].importe \in Nat
  BY <1>2, CotasNaturales DEF Pago, Importes
<1>4. CASE registro[v].mov = 0
  <2>1. \A m \in Vivos(movimientos) : m.id # registro[v].mov
    BY <1>4, LosIds DEF Vivos, IInv, TypeOK, Movimiento
  <2>2. QED
    BY <1>1, <1>4, <2>1, AporteDelNombrado DEF Gastado
<1>5. CASE registro[v].mov # 0
  <2>1. PICK m \in Vivos(movimientos) : m.id = registro[v].mov
    BY <1>2, <1>5 DEF PagoSegun
  <2>2. Aporte(v) = Signo(m) /\ m.importe = registro[v].importe /\ m.sentido = "DEBITO"
    BY <1>1, <2>1, AporteDelNombrado
  <2>3. QED
    BY <1>3, <1>5, <2>2 DEF Gastado, Signo
<1>6. QED
  BY <1>4, <1>5

\* A withdrawal that stands took its amount.
LEMMA AporteDeRetiro ==
    ASSUME IInv, NEW w \in Retiros, Existe(w)
    PROVE  Aporte(w) = -Retirado(w) /\ Retirado(w) \in Int
<1>1. w \in Filas /\ w \in ConMovimiento
  BY DEF Filas, ConMovimiento
<1>2. registro[w] \in Retiro /\ RetiroSegun(registro[w], movimientos)
  BY <1>1, Tablas DEF IInv, TypeOK, Existe, RegistrosSegun, FilaSegun
<1>3. /\ registro[w].importe \in Nat /\ registro[w].estado \in {"REGISTRADO", "ANULADO"}
  BY <1>2, CotasNaturales DEF Retiro, Importes
<1>4. CASE registro[w].estado = "ANULADO"
  <2>1. \A m \in Vivos(movimientos) : m.id # registro[w].mov
    BY <1>2, <1>4 DEF RetiroSegun
  <2>2. QED
    BY <1>1, <1>4, <2>1, AporteDelNombrado DEF Retirado
<1>5. CASE registro[w].estado = "REGISTRADO"
  <2>1. PICK m \in Vivos(movimientos) : m.id = registro[w].mov
    BY <1>2, <1>5 DEF RetiroSegun
  <2>2. Aporte(w) = Signo(m) /\ m.importe = registro[w].importe /\ m.sentido = "DEBITO"
    BY <1>1, <2>1, AporteDelNombrado
  <2>3. QED
    BY <1>3, <1>5, <2>2 DEF Retirado, Signo
<1>6. QED
  BY <1>3, <1>4, <1>5

EnTabla(T) == {f \in T : Existe(f)}

\* The totals of SaldosCuadran.
TotalMovido(tipo) ==
    MapThenSumSet(LAMBDA f : settledAmount(movimientos, f, tipo), EnTabla(Deudas))
TotalGastado == MapThenSumSet(Gastado, EnTabla(Pagos))
TotalRetirado == MapThenSumSet(Retirado, EnTabla(Retiros))

Aportes == [f \in Existentes |-> Aporte(f)]

\* The records of each table, and of all of them.
LEMMA PorTablas ==
    ASSUME IInv
    PROVE  /\ Suma(Aportes, Existentes) =
                  Suma(Aportes, EnTabla(Deudas)) + Suma(Aportes, EnTabla(Pagos))
                    + Suma(Aportes, EnTabla(Retiros))
                    + Suma(Aportes, EnTabla(Transferencias))
           /\ \A T \in {Deudas, Pagos, Retiros, Transferencias} :
                 /\ IsFiniteSet(EnTabla(T)) /\ EnTabla(T) \subseteq Existentes
                 /\ Enteros(Aportes, EnTabla(T))
<1> DEFINE D == EnTabla(Deudas)
           P == EnTabla(Pagos)
           R == EnTabla(Retiros)
           T == EnTabla(Transferencias)
<1>1. /\ Existentes = ((D \cup P) \cup R) \cup T
      /\ D \cap P = {} /\ (D \cup P) \cap R = {} /\ ((D \cup P) \cup R) \cap T = {}
  BY TablasDisjuntas DEF Existentes, EnTabla, Filas
<1>2. \A f \in Existentes : Aportes[f] \in Int
  <2>1. SUFFICES ASSUME NEW f \in Existentes PROVE Aportes[f] \in Int
    OBVIOUS
  <2>2. Propios(f) \in SUBSET Vivos(movimientos)
    BY DEF Propios
  <2>3. IsFiniteSet(Propios(f)) /\ Enteros(ConSigno, Propios(f))
    BY <2>2, VivosSumables
  <2>4. Suma(ConSigno, Propios(f)) \in Int
    BY <2>3, SumaEntera
  <2>5. QED
    BY <2>4 DEF Aportes, Aporte
<1>3. \A S \in SUBSET Existentes : IsFiniteSet(S) /\ Enteros(Aportes, S)
  BY <1>2, FS_Subset DEF IInv, Finitos, Enteros
<1>4. D \subseteq Existentes /\ P \subseteq Existentes /\ R \subseteq Existentes
      /\ T \subseteq Existentes
  BY <1>1
<1> HIDE DEF D, P, R, T
<1>5. Suma(Aportes, D \cup P) = Suma(Aportes, D) + Suma(Aportes, P)
  <2>1. IsFiniteSet(D) /\ Enteros(Aportes, D) /\ IsFiniteSet(P) /\ Enteros(Aportes, P)
    BY <1>3, <1>4
  <2>2. QED
    BY <1>1, <2>1, SumaUnion
<1>6. Suma(Aportes, (D \cup P) \cup R) = Suma(Aportes, D \cup P) + Suma(Aportes, R)
  <2>1. D \cup P \in SUBSET Existentes
    BY <1>4
  <2>2. /\ IsFiniteSet(D \cup P) /\ Enteros(Aportes, D \cup P)
        /\ IsFiniteSet(R) /\ Enteros(Aportes, R)
    BY <1>3, <1>4, <2>1
  <2>3. QED
    BY <1>1, <2>2, SumaUnion
<1>7. Suma(Aportes, ((D \cup P) \cup R) \cup T) =
          Suma(Aportes, (D \cup P) \cup R) + Suma(Aportes, T)
  <2>1. (D \cup P) \cup R \in SUBSET Existentes
    BY <1>4
  <2>2. /\ IsFiniteSet((D \cup P) \cup R) /\ Enteros(Aportes, (D \cup P) \cup R)
        /\ IsFiniteSet(T) /\ Enteros(Aportes, T)
    BY <1>3, <1>4, <2>1
  <2>3. QED
    BY <1>1, <2>2, SumaUnion
<1>8. Suma(Aportes, Existentes) = Suma(Aportes, ((D \cup P) \cup R) \cup T)
  BY <1>1, Zenon
<1>9. Suma(Aportes, Existentes) =
          Suma(Aportes, D) + Suma(Aportes, P) + Suma(Aportes, R) + Suma(Aportes, T)
  BY <1>5, <1>6, <1>7, <1>8
<1>10. QED
  BY <1>3, <1>4, <1>9 DEF D, P, R, T

\* The records that collect and pay put in the accounts what they moved.
LEMMA AportesDeDeudas ==
    ASSUME IInv
    PROVE  /\ Suma(Aportes, EnTabla(Deudas)) = TotalMovido("INGRESO") - TotalMovido("EGRESO")
           /\ TotalMovido("INGRESO") \in Int /\ TotalMovido("EGRESO") \in Int
<1> DEFINE D == EnTabla(Deudas)
           F == [f \in D |-> settledAmount(movimientos, f, "INGRESO")]
           G == [f \in D |-> settledAmount(movimientos, f, "EGRESO")]
<1>1. TotalMovido("INGRESO") = Suma(F, D) /\ TotalMovido("EGRESO") = Suma(G, D)
  <2> HIDE DEF D
  <2> QED BY DEF D, TotalMovido, Suma, MapThenSumSet, MapThenFoldSet
<1>2. IsFiniteSet(D) /\ D \subseteq Existentes
  BY PorTablas
<1>3. \A f \in D : /\ F[f] \in Int /\ G[f] \in Int
                   /\ Aportes[f] = F[f] - G[f]
  BY <1>2, AporteDeDeuda DEF EnTabla, Aportes
<1> HIDE DEF D, F, G
<1>4. Suma(Aportes, D) = Suma(F, D) - Suma(G, D)
  BY <1>2, <1>3, SumaResta DEF Enteros
<1>5. Suma(F, D) \in Int /\ Suma(G, D) \in Int
  BY <1>2, <1>3, SumaEntera DEF Enteros
<1>6. QED
  BY <1>1, <1>4, <1>5 DEF D

\* The records of S take from the accounts what F says.
LEMMA AportesDe ==
    ASSUME IInv, NEW S \in SUBSET Existentes, NEW F,
           \A f \in S : F[f] \in Int /\ Aporte(f) = -F[f]
    PROVE  Suma(Aportes, S) = -Suma(F, S) /\ Suma(F, S) \in Int
<1> DEFINE Cero == [f \in S |-> 0]
<1>1. IsFiniteSet(S)
  BY FS_Subset DEF IInv, Finitos
<1>2. \A f \in S : Cero[f] = 0 /\ Aportes[f] = Cero[f] - F[f]
  BY DEF Aportes
<1>3. Enteros(Cero, S) /\ Enteros(F, S)
  BY DEF Enteros
<1> HIDE DEF Cero
<1>4. Suma(Aportes, S) = Suma(Cero, S) - Suma(F, S)
  BY <1>1, <1>2, <1>3, SumaResta
<1>5. Suma(Cero, S) = 0 * Cardinality(S) /\ Cardinality(S) \in Nat
  BY <1>1, <1>2, SumaConstante, FS_CardinalityType
<1>6. Suma(F, S) \in Int
  BY <1>1, <1>3, SumaEntera
<1>7. QED
  BY <1>4, <1>5, <1>6

\* The accounts hold what the records say.
LEMMA SaldosDeLosRegistros ==
    ASSUME IInv
    PROVE  MapThenSumSet(Saldo, Cuentas) =
               TotalMovido("INGRESO") - TotalMovido("EGRESO")
                 - TotalGastado - TotalRetirado
<1> DEFINE P == EnTabla(Pagos)
           R == EnTabla(Retiros)
           T == EnTabla(Transferencias)
           FP == [v \in P |-> Gastado(v)]
           FR == [w \in R |-> Retirado(w)]
           FT == [t \in T |-> 0]
<1>1. P \in SUBSET Existentes /\ R \in SUBSET Existentes /\ T \in SUBSET Existentes
  BY PorTablas
<1>2. TotalGastado = Suma(FP, P)
  <2> HIDE DEF P
  <2> QED BY DEF P, TotalGastado, Suma, MapThenSumSet, MapThenFoldSet
<1>3. TotalRetirado = Suma(FR, R)
  <2> HIDE DEF R
  <2> QED BY DEF R, TotalRetirado, Suma, MapThenSumSet, MapThenFoldSet
<1>4. \A v \in P : FP[v] \in Int /\ Aporte(v) = -FP[v]
  BY AporteDePago DEF EnTabla
<1>5. \A w \in R : FR[w] \in Int /\ Aporte(w) = -FR[w]
  BY AporteDeRetiro DEF EnTabla
<1>6. \A t \in T : Aportes[t] = 0
  BY <1>1, AporteDeTransferencia DEF EnTabla, Aportes
<1> HIDE DEF P, R, T, FP, FR
<1>7. Suma(Aportes, P) = -TotalGastado /\ TotalGastado \in Int
  BY <1>1, <1>2, <1>4, AportesDe
<1>8. Suma(Aportes, R) = -TotalRetirado /\ TotalRetirado \in Int
  BY <1>1, <1>3, <1>5, AportesDe
<1>9. Suma(Aportes, T) = 0
  <2>1. IsFiniteSet(T)
    BY <1>1, FS_Subset DEF IInv, Finitos
  <2>2. Suma(Aportes, T) = 0 * Cardinality(T) /\ Cardinality(T) \in Nat
    BY <1>6, <2>1, SumaConstante, FS_CardinalityType
  <2>3. QED
    BY <2>2
<1>10. MapThenSumSet(Saldo, Cuentas) = Suma(Aportes, Existentes)
  BY EnCuentas, DeFilas DEF Aportes
<1>11. Suma(Aportes, Existentes) =
           Suma(Aportes, EnTabla(Deudas)) + Suma(Aportes, P) + Suma(Aportes, R)
             + Suma(Aportes, T)
  BY PorTablas DEF P, R, T
<1>12. QED
  BY <1>7, <1>8, <1>9, <1>10, <1>11, AportesDeDeudas

\* They are the totals of the property.
LEMMA SonLosTotales ==
    MapThenSumSet(Saldo, Cuentas) =
        TotalMovido("INGRESO") - TotalMovido("EGRESO") - TotalGastado - TotalRetirado
    => SaldosCuadran
BY DEF SaldosCuadran, TotalMovido, TotalGastado, TotalRetirado, EnTabla, Gastado, Retirado,
       MapThenSumSet, MapThenFoldSet

\* The line of a movement in the balance, and that of what nobody moved.
Linea(m) == [partner |-> ResponsableDe[m.caja], amount |-> m.importe,
             paid |-> TRUE, mov |-> m.id]
LineaResto(fila, x) == [partner |-> "NONE", amount |-> x,
                        paid |-> fila.estado = "PAGADO", mov |-> 0]

\* The movements the balance shows of a record.
Mostradas(f) == Suyas(movimientos, f, TipoPropio(f))

\* The lines of a record are those of its movements, one each, and that of the
\* rest.
LEMMA LineasSon ==
    ASSUME IInv, NEW f \in Deudas, Existe(f)
    PROVE  LET x == registro[f].importe - settledAmount(movimientos, f, TipoPropio(f))
           IN  Balance(f) = {Linea(m) : m \in Mostradas(f)}
                              \cup (IF x > 0 THEN {LineaResto(registro[f], x)} ELSE {})
BY DEF Balance, LineasDeDeuda, splitByAccounts, settledAmount, Mostradas, Suyas, Linea,
       LineaResto

\* The lines of an income, an expense or a purchase amount to it, and they are
\* all paid when it is.
LEMMA BalanceDeDeuda ==
    ASSUME IInv, NEW f \in Deudas, Existe(f)
    PROVE  /\ MapThenSumSet(LAMBDA e : e.amount, Balance(f)) = registro[f].importe
           /\ (\A e \in Balance(f) : e.paid) <=> registro[f].estado = "PAGADO"
<1> DEFINE S == Mostradas(f)
           F == [m \in movimientos |-> m.importe]
           h == [m \in S |-> Linea(m)]
           B == Balance(f)
           G == [e \in B |-> e.amount]
<1>1. PICK c, x, i : /\ c = settledAmount(movimientos, f, TipoPropio(f))
                     /\ i = registro[f].importe /\ x = i - c
  OBVIOUS
<1>2. TipoPropio(f) \in {"INGRESO", "EGRESO"}
  BY DEF TipoPropio
<1>3. /\ registro[f] \in Deuda /\ DeudaSegun(f, registro[f], movimientos)
  BY FilaDeDeuda
<1>4. i \in Nat /\ i > 0
  BY <1>1, <1>3, CotasNaturales DEF Deuda, Importes
<1>5. c \in Nat
  BY <1>1, TotalMenor DEF IInv, TypeOK, Finitos
<1>6. c <= i /\ registro[f].estado = paymentStatus(c, i)
  BY <1>1, <1>2, <1>3 DEF DeudaSegun
<1>7. /\ B = {h[m] : m \in S} \cup (IF x > 0 THEN {LineaResto(registro[f], x)} ELSE {})
  <2>1. {h[m] : m \in S} = {Linea(m) : m \in S}
    OBVIOUS
  <2>2. B = {Linea(m) : m \in S}
              \cup (IF x > 0 THEN {LineaResto(registro[f], x)} ELSE {})
    BY <1>1, LineasSon
  <2>3. QED
    BY <2>1, <2>2
<1>8. S \subseteq movimientos /\ IsFiniteSet(S) /\ Enteros(F, S)
      /\ \A m \in S : m.id # 0
  <2>1. S \in SUBSET Vivos(movimientos)
    BY DEF Mostradas, Suyas
  <2>2. \A m \in S : m \in movimientos /\ m.importe \in Int
    BY <2>1, VivosSumables
  <2>3. \A m \in movimientos : m.id # 0
    BY LosIds DEF IInv, TypeOK, Movimiento
  <2>4. QED
    BY <2>1, <2>2, <2>3, VivosSumables DEF Enteros
<1>9. \A m \in S : /\ h[m].mov = m.id /\ h[m].amount = F[m] /\ h[m].paid = TRUE
                   /\ h[m] \in B
  BY <1>7, <1>8 DEF Linea
<1>10. \A m, n \in S : h[m] = h[n] => m = n
  BY <1>8, <1>9 DEF IInv, IdsUnicos, Distintos
<1>11. c = Suma(F, S)
  <2>1. movimientos \subseteq Movimiento
    BY DEF IInv, TypeOK
  <2>2. QED
    BY <1>1, <2>1, TotalEsSuma DEF Mostradas
<1>12. MapThenSumSet(LAMBDA e : e.amount, B) = Suma(G, B)
  <2> HIDE DEF B
  <2> QED BY DEF Suma, MapThenSumSet, MapThenFoldSet
<1> DEFINE A == {h[m] : m \in S}
<1> HIDE DEF S, F, h
<1>13. \A m \in S : G[h[m]] = F[m]
  BY <1>9
<1>14. Suma(G, A) = Suma(F, S) /\ IsFiniteSet(A)
  <2> HIDE DEF G
  <2> QED BY <1>8, <1>10, <1>13, SumaImagen
<1>15. \A e \in A : e.paid /\ e.mov # 0
  BY <1>8, <1>9
<1>16. CASE x > 0
  <2> DEFINE e0 == LineaResto(registro[f], x)
  <2>1. e0.mov = 0 /\ e0.amount = x /\ e0.paid = (registro[f].estado = "PAGADO")
    BY DEF LineaResto
  <2> HIDE DEF e0
  <2>2. B = A \cup {e0} /\ e0 \notin A
    BY <1>7, <1>15, <1>16, <2>1 DEF e0
  <2>3. IsFiniteSet(A) /\ Enteros(G, A)
    <3>1. Enteros(G, A)
      BY <1>8, <1>13 DEF Enteros
    <3>2. QED
      BY <1>14, <3>1
  <2>4. G[e0] = x /\ x \in Int
    BY <1>1, <1>4, <1>5, <2>1, <2>2
  <2> HIDE DEF G, A, B
  <2>5. Suma(G, A \cup {e0}) = G[e0] + Suma(G, A)
    BY <2>2, <2>3, <2>4, SumaMas
  <2>6. Suma(G, B) = G[e0] + Suma(G, A)
    BY <2>2, <2>5, Zenon
  <2>7. Suma(G, B) = i
    <3>1. Suma(G, B) = x + c
      BY <1>11, <1>14, <2>4, <2>6, Zenon
    <3>2. x + c = i
      BY <1>1, <1>4, <1>5
    <3>3. QED
      BY <3>1, <3>2, Zenon
  <2>8. registro[f].estado # "PAGADO"
    BY <1>1, <1>4, <1>5, <1>6, <1>16 DEF paymentStatus
  <2>9. ~ e0.paid /\ e0 \in B
    BY <2>1, <2>2, <2>8
  <2>10. ~ \A e \in B : e.paid
    BY <2>9
  <2>11. QED
    BY <1>1, <1>12, <2>7, <2>8, <2>10 DEF B, G
<1>17. CASE ~ (x > 0)
  <2>1. B = A
    BY <1>7, <1>17
  <2>2. c = i
    BY <1>1, <1>4, <1>5, <1>6, <1>17
  <2>3. registro[f].estado = "PAGADO"
    BY <1>4, <1>6, <2>2 DEF paymentStatus
  <2>4. \A e \in B : e.paid
    BY <1>15, <2>1
  <2> HIDE DEF G, A, B
  <2>5. Suma(G, B) = i
    BY <1>11, <1>14, <2>1, <2>2, Zenon
  <2>6. QED
    BY <1>1, <1>12, <2>3, <2>4, <2>5 DEF B, G
<1>18. QED
  BY <1>16, <1>17

\* The line of a vehicle payment is its own.
LEMMA BalanceDePago ==
    ASSUME IInv, NEW f \in Pagos, Existe(f)
    PROVE  /\ MapThenSumSet(LAMBDA e : e.amount, Balance(f)) = registro[f].importe
           /\ (\A e \in Balance(f) : e.paid) <=> registro[f].estado = "PAGADO"
<1> DEFINE e0 == LineaDePago(f)
           B == Balance(f)
           G == [e \in B |-> e.amount]
<1>1. B = {e0}
  BY TablasDisjuntas DEF Balance, Deudas
<1>2. /\ e0.amount = registro[f].importe /\ e0.paid = (registro[f].estado = "PAGADO")
      /\ e0.amount \in Int
  <2>1. f \in Filas /\ registro[f] \in Pago
    BY Tablas DEF IInv, TypeOK, Existe, Filas
  <2>2. registro[f].importe \in Int
    BY <2>1 DEF Pago, Importes
  <2>3. QED
    BY <2>2 DEF LineaDePago
<1>3. MapThenSumSet(LAMBDA e : e.amount, B) = Suma(G, B)
  <2> HIDE DEF B
  <2> QED BY DEF Suma, MapThenSumSet, MapThenFoldSet
<1> HIDE DEF e0, B
<1>4. G[e0] = e0.amount
  BY <1>1
<1> HIDE DEF G
<1>5. Suma(G, {e0}) = e0.amount
  BY <1>2, <1>4, SumaDeUno
<1>6. Suma(G, B) = e0.amount
  BY <1>1, <1>5, Zenon
<1>7. QED
  BY <1>1, <1>2, <1>3, <1>6 DEF B, G

\* The accounts hold what the records collected and recovered less what they
\* paid, spent and withdrew, and the lines the monthly balance shows of a record
\* amount to it and are all paid when it is, whatever the handlers did: the
\* entries they write and take back together never lose or count money twice.
THEOREM CuentasCorrectas == Spec => []CuentasCuadran
<1>1. IInv => SaldosCuadran
  BY SaldosDeLosRegistros, SonLosTotales
<1>2. IInv => BalanceCuadra
  <2> SUFFICES ASSUME IInv, NEW f \in Deudas \cup Pagos, Existe(f)
               PROVE  /\ MapThenSumSet(LAMBDA e : e.amount, Balance(f)) = registro[f].importe
                      /\ (\A e \in Balance(f) : e.paid) <=> registro[f].estado = "PAGADO"
    BY DEF BalanceCuadra
  <2>1. QED
    BY BalanceDeDeuda, BalanceDePago
<1>3. IInv => CuentasCuadran
  BY <1>1, <1>2 DEF CuentasCuadran
<1>4. QED
  BY <1>3, Inductive, PTL

-------------------------------------------------------------------------------
(* The ledger all the handlers keep together *)

Asiento(m) ==
    [id |-> m.id, caja |-> m.caja, sentido |-> m.sentido, importe |-> m.importe,
     revierte |-> m.revierte]

\* What Libro calls asientos.
Asientos == {[id |-> m.id, caja |-> m.caja, sentido |-> m.sentido,
              importe |-> m.importe, revierte |-> m.revierte] : m \in movimientos}

\* The entries of the ledger are the movements.
LEMMA AsientosSon ==
    ASSUME NEW movs, movimientos' = movimientos \cup movs
    PROVE  /\ Asientos = {Asiento(m) : m \in movimientos}
           /\ Asientos' = Asientos \cup {Asiento(m) : m \in movs}
BY DEF Asientos, Asiento

\* A movement nobody had is a new entry.
LEMMA AsientoNuevo ==
    ASSUME NEW movs, movimientos' = movimientos \cup movs,
           SinComunes(movs, movimientos), NEW m \in movs
    PROVE  Libro!Libre(Asiento(m).id) /\ Asiento(m) \in Libro!Nuevos
<1>1. \A a \in Asientos : a.id # m.id
  BY DEF Asientos, SinComunes
<1>2. Asiento(m).id = m.id /\ Asiento(m) \in Asientos'
  BY AsientosSon DEF Asiento
<1>3. QED
  BY <1>1, <1>2 DEF Libro!Libre, Libro!Nuevos, Asientos

\* Credit and debit are opposite.
LEMMA Opuestos == Libro!Opuesto("CREDITO") = "DEBITO" /\ Libro!Opuesto("DEBITO") = "CREDITO"
BY DEF Libro!Opuesto, Libro!Sentidos

\* What takes back a movement that stands takes back its entry.
LEMMA ContraAsiento ==
    ASSUME IInv, NEW r \in Movimiento, NEW m \in Vivos(movimientos), Deshace(r, m),
           Libro!Libre(Asiento(r).id)
    PROVE  Asiento(m) \in Asientos /\ Libro!Contra(Asiento(r), Asiento(m))
<1>1. m \in movimientos /\ m.revierte = 0 /\ \A n \in movimientos : n.revierte # m.id
  BY DEF Vivos, Original, Devuelto
<1>2. m.sentido \in {"CREDITO", "DEBITO"}
  BY <1>1 DEF IInv, TypeOK, Movimiento
<1>3. r.sentido = Libro!Opuesto(m.sentido)
  BY <1>2, Opuestos DEF Deshace
<1>4. Asiento(m) \in Asientos
  BY <1>1 DEF Asiento, Asientos
<1>5. \A b \in Asientos : b.revierte # m.id
  BY <1>1 DEF Asientos
<1>6. Asiento(r) = [id |-> Asiento(r).id, caja |-> Asiento(m).caja,
                    sentido |-> Libro!Opuesto(Asiento(m).sentido),
                    importe |-> Asiento(m).importe, revierte |-> Asiento(m).id]
  BY <1>3 DEF Asiento, Deshace
<1>7. Asiento(m).revierte = 0 /\ Asiento(m).id = m.id
  BY <1>1 DEF Asiento
<1>8. QED
  BY <1>4, <1>5, <1>6, <1>7 DEF Libro!Contra, Libro!Devuelto, Asientos


\* What a commit adds to the movements is a step of the ledger.
LEMMA ConfirmarAsienta ==
    ASSUME IInv, NEW t \in enCurso, Confirmar(t)
    PROVE  Asientos' = Asientos \/ Libro!Next
<1>1. /\ movimientos' = movimientos \cup t.movs /\ SinComunes(t.movs, movimientos)
      /\ t.movs \subseteq Movimiento /\ Forma(t.movs)
      /\ \A r \in t.movs : Posteable(r, t.fila)
  BY DEF Confirmar, IInv, TypeOK, IdsUnicos, EnCursoOK, TransaccionOK
<1>2. Asientos' = Asientos \cup {Asiento(m) : m \in t.movs}
  BY <1>1, AsientosSon
<1>3. \A m \in t.movs : Libro!Libre(Asiento(m).id) /\ Asiento(m) \in Libro!Nuevos
  BY <1>1, AsientoNuevo
<1>4. ASSUME NEW r \in t.movs, r.revierte # 0
      PROVE  \E a \in Asientos : /\ a.id = r.revierte /\ Libro!Contra(Asiento(r), a)
  <2>1. PICK m \in Vivos(movimientos) : Deshace(r, m)
    BY <1>1, <1>4 DEF Posteable
  <2>2. Asiento(m) \in Asientos /\ Libro!Contra(Asiento(r), Asiento(m))
    BY <1>1, <1>3, <2>1, ContraAsiento
  <2>3. Asiento(m).id = r.revierte
    BY <2>1 DEF Asiento, Deshace
  <2>4. QED
    BY <2>2, <2>3
<1>5. \A m : Asiento(m).revierte = m.revierte /\ Asiento(m).id = m.id
  BY DEF Asiento
<1>6. CASE t.movs = {}
  BY <1>2, <1>6
<1>7. ASSUME NEW m \in t.movs, t.movs = {m}
      PROVE  Libro!Next
  <2>1. Asientos' = Asientos \cup {Asiento(m)}
    BY <1>2, <1>7
  <2>2. CASE m.revierte = 0
    <3>1. Libro!Post(Asiento(m))
      BY <1>3, <1>5, <2>1, <2>2 DEF Libro!Post, Asientos
    <3>2. QED
      BY <1>3, <3>1 DEF Libro!Next
  <2>3. CASE m.revierte # 0
    <3>1. PICK a \in Asientos : Libro!Contra(Asiento(m), a)
      BY <1>4, <2>3
    <3>2. Libro!Reverse(Asiento(m), a)
      BY <2>1, <3>1 DEF Libro!Reverse, Asientos
    <3>3. QED
      BY <1>3, <3>1, <3>2 DEF Libro!Next, Asientos
  <2>4. QED
    BY <2>2, <2>3
<1>8. ASSUME NEW r \in t.movs, NEW q \in t.movs, t.movs = {r, q},
             r.id # q.id, r.revierte # 0, q.revierte # r.revierte
      PROVE  Libro!Next
  <2>1. Asientos' = Asientos \cup {Asiento(r), Asiento(q)}
    BY <1>2, <1>8
  <2>2. PICK a \in Asientos : a.id = r.revierte /\ Libro!Contra(Asiento(r), a)
    BY <1>4, <1>8
  <2>3. CASE q.revierte = 0
    <3>1. Libro!Replace(Asiento(r), a, Asiento(q))
      BY <1>3, <1>5, <1>8, <2>1, <2>2, <2>3 DEF Libro!Replace, Asientos
    <3>2. QED
      BY <1>3, <2>2, <3>1 DEF Libro!Next, Asientos
  <2>4. CASE q.revierte # 0
    <3>1. PICK b \in Asientos : b.id = q.revierte /\ Libro!Contra(Asiento(q), b)
      BY <1>4, <2>4
    <3>2. Libro!ReverseTransfer(Asiento(r), a, Asiento(q), b)
      BY <1>5, <1>8, <2>1, <2>2, <3>1 DEF Libro!ReverseTransfer, Asientos
    <3>3. QED
      BY <1>3, <2>2, <3>1, <3>2 DEF Libro!Next, Asientos
  <2>5. QED
    BY <2>3, <2>4
<1>9. QED
  BY <1>1, <1>6, <1>7, <1>8 DEF Forma

\* A row inserted with at most one movement.
LEMMA InsertarAsienta ==
    ASSUME IInv, NEW m \in Movimiento, m.id \notin IdsUsados, m.revierte = 0,
           movimientos' = movimientos \cup {m}
    PROVE  Libro!Next
<1>1. SinComunes({m}, movimientos)
  BY DEF SinComunes, IdsUsados
<1>2. Asientos' = Asientos \cup {Asiento(m)}
  BY AsientosSon
<1>3. Libro!Libre(Asiento(m).id) /\ Asiento(m) \in Libro!Nuevos
  BY <1>1, AsientoNuevo
<1>4. Asiento(m).revierte = 0
  BY DEF Asiento
<1>5. Libro!Post(Asiento(m))
  BY <1>2, <1>3, <1>4 DEF Libro!Post, Asientos
<1>6. QED
  BY <1>3, <1>5 DEF Libro!Next

\* The two movements of a transfer are one step of the ledger.
LEMMA TransferirAsienta ==
    ASSUME IInv, NEW t \in Transferencias, NEW c \in Cuentas, NEW d \in Cuentas,
           NEW x \in Importes, NEW k \in Claves, createTransfer(t, c, d, x, k)
    PROVE  Libro!Next
<1>0. PICK a, b :
         /\ a = Mov(IdNuevo(1), c, "TRANSFERENCIA_SALIENTE", "DEBITO", x, t, k)
         /\ b = Mov(IdNuevo(2), d, "TRANSFERENCIA_ENTRANTE", "CREDITO", x, t, k)
  OBVIOUS
<1>1. HayIds(2) /\ c # d /\ movimientos' = movimientos \cup {a, b}
  BY <1>0 DEF createTransfer, Insertar
<1>2. /\ IdNuevo(1) \in Ids \ IdsUsados /\ IdNuevo(2) \in Ids \ IdsUsados
      /\ IdNuevo(1) # IdNuevo(2)
  BY <1>1, IdsNuevos DEF IInv
<1>3. /\ a.id = IdNuevo(1) /\ a.caja = c /\ a.sentido = "DEBITO" /\ a.importe = x
      /\ b.id = IdNuevo(2) /\ b.caja = d /\ b.sentido = "CREDITO" /\ b.importe = x
      /\ a.revierte = 0 /\ b.revierte = 0
  BY <1>0 DEF Mov
<1>4. SinComunes({a, b}, movimientos)
  BY <1>2, <1>3 DEF SinComunes, IdsUsados
<1>5. Asientos' = Asientos \cup {Asiento(a), Asiento(b)}
  <2> DEFINE dos == {a, b}
  <2>1. Asientos' = Asientos \cup {Asiento(m) : m \in dos}
    BY <1>1, AsientosSon
  <2>2. QED
    BY <2>1
<1>6. /\ Libro!Libre(Asiento(a).id) /\ Asiento(a) \in Libro!Nuevos
      /\ Libro!Libre(Asiento(b).id) /\ Asiento(b) \in Libro!Nuevos
  BY <1>1, <1>4, AsientoNuevo
<1>7. \A m : /\ Asiento(m).id = m.id /\ Asiento(m).caja = m.caja
             /\ Asiento(m).sentido = m.sentido /\ Asiento(m).importe = m.importe
             /\ Asiento(m).revierte = m.revierte
  BY DEF Asiento
<1>8. Libro!Transfer(Asiento(a), Asiento(b))
  BY <1>1, <1>2, <1>3, <1>5, <1>6, <1>7 DEF Libro!Transfer, Asientos
<1>9. QED
  BY <1>6, <1>8 DEF Libro!Next

\* Every step of the handlers is a step of the ledger or none.
LEMMA PasoDelLibro ==
    ASSUME IInv, [Next]_vars
    PROVE  Asientos' = Asientos \/ Libro!Next
<1>1. ASSUME movimientos' = movimientos PROVE Asientos' = Asientos
  BY <1>1 DEF Asientos
<1>2. CASE UNCHANGED vars
  BY <1>1, <1>2 DEF vars
<1>3. CASE AccountNext
  BY <1>1, <1>3 DEF AccountNext, createAccount, updateAccount
<1>4. ASSUME NEW f, NEW fila, Insertar(f, {}, fila)
      PROVE  Asientos' = Asientos
  BY <1>1, <1>4 DEF Insertar
<1>5. CASE CreateNext
  BY <1>4, <1>5 DEF CreateNext, CreateIncome, CreateExpense, CreatePurchase
<1>6. ASSUME NEW f, NEW movs, NEW fila, Abrir(f, movs, fila)
      PROVE  Asientos' = Asientos
  BY <1>1, <1>6 DEF Abrir
<1>7. CASE UpdateNext
  BY <1>6, <1>7 DEF UpdateNext, UpdateIncome, UpdateExpense, UpdatePurchase
<1>8. CASE \E i \in Ingresos : confirmHandover(i)
  BY <1>6, <1>8 DEF confirmHandover
<1>9. CASE \E t \in enCurso : Confirmar(t)
  BY <1>9, ConfirmarAsienta
<1>10. CASE \E t \in enCurso : Deshacer(t)
  BY <1>1, <1>10 DEF Deshacer
<1>11. ASSUME NEW v, NEW e, NEW x \in Importes, NEW c \in Cuentas \cup {Ninguna},
              CreateVehiclePayment(v, e, x, c)
       PROVE  Asientos' = Asientos \/ Libro!Next
  <2>1. CASE e = "PAGADO" /\ c # Ninguna
    <3>1. HayIds(1) /\ movimientos' = movimientos \cup {Debito(1, c, x)}
      BY <1>11, <2>1 DEF CreateVehiclePayment, Insertar
    <3>2. IdNuevo(1) \in Ids \ IdsUsados
      BY <3>1, IdsNuevos DEF IInv
    <3>3. QED
      BY <2>1, <3>1, <3>2, DebitoEs, InsertarAsienta
  <2>2. CASE ~(e = "PAGADO" /\ c # Ninguna)
    BY <1>1, <1>11, <2>2 DEF CreateVehiclePayment, Insertar
  <2>3. QED
    BY <2>1, <2>2
<1>12. ASSUME NEW v, NEW e, NEW x, NEW c, NEW otraFecha,
              UpdateVehiclePayment(v, e, x, c, otraFecha)
       PROVE  Asientos' = Asientos
  BY <1>6, <1>12 DEF UpdateVehiclePayment
<1>13. CASE VehicleNext
  BY <1>11, <1>12, <1>13 DEF VehicleNext, ImportesValidos
<1>14. ASSUME NEW f, NEW c, NEW tipo, NEW sentido, NEW x, NEW k,
              registerEntityMovement(f, c, tipo, sentido, x, k)
       PROVE  Asientos' = Asientos
  BY <1>6, <1>14 DEF registerEntityMovement
<1>15. ASSUME NEW f, NEW m, NEW k, reverseEntityMovement(f, m, k)
       PROVE  Asientos' = Asientos
  BY <1>6, <1>15 DEF reverseEntityMovement
<1>16. ASSUME NEW w \in Retiros, NEW c \in Cuentas, NEW x \in Importes, NEW k \in Claves,
              CreateWithdrawal(w, c, x, k)
       PROVE  Libro!Next
  <2> DEFINE m == Mov(IdNuevo(1), c, "AJUSTE", "DEBITO", x, Ninguna, k)
  <2>1. HayIds(1) /\ movimientos' = movimientos \cup {m}
    BY <1>16 DEF CreateWithdrawal, Insertar
  <2>2. IdNuevo(1) \in Ids \ IdsUsados
    BY <2>1, IdsNuevos DEF IInv
  <2>3. m \in Movimiento /\ m.id = IdNuevo(1) /\ m.revierte = 0
    BY <2>2 DEF Mov, Movimiento
  <2> HIDE DEF m
  <2>4. QED
    BY <2>1, <2>2, <2>3, InsertarAsienta
<1>17. ASSUME NEW t, NEW k, reverseTransfer(t, k) PROVE Asientos' = Asientos
  BY <1>6, <1>17 DEF reverseTransfer
<1>18. ASSUME NEW w, NEW k, ReverseWithdrawal(w, k) PROVE Asientos' = Asientos
  BY <1>6, <1>18 DEF ReverseWithdrawal
<1>19. CASE MoneyNext
  BY <1>14, <1>15, <1>16, <1>17, <1>18, <1>19, TransferirAsienta
     DEF MoneyNext, ImportesValidos, Collect, PayExpense, Recover, addMovement,
         PayPurchase, ReverseIncome, ReverseExpense, ReversePurchase
<1>20. QED
  BY <1>2, <1>3, <1>5, <1>7, <1>8, <1>9, <1>10, <1>13, <1>19 DEF Next

\* All the handlers together keep a ledger: each commit posts one entry, a
\* transfer, or the opposite of entries that stand, and changes none.
THEOREM EsUnLibro == Spec => ImplementaLibro
<1>1. Init => Libro!Init
  BY DEF Init, Libro!Init
<1>2. IInv /\ [Next]_vars => [Libro!Next]_Asientos
  BY PasoDelLibro
<1>3. QED
  BY <1>1, <1>2, Inductive, PTL DEF Spec, ImplementaLibro, Libro!Spec, Asientos


===============================================================================
