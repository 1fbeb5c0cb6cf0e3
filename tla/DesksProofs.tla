------------------------------ MODULE DesksProofs ------------------------------
(***************************************************************************)
(* Theorems about Desks, for any number of service orders, sales, units,   *)
(* clients, keys, policies and requests in flight.                         *)
(*                                                                         *)
(* Three of the desks write what they read earlier.  IInv says of a request*)
(* of the workshop what the order will be if its version is still the one  *)
(* that was read; of an inquiry, what its step has found out about the key *)
(* and the document; of a resolved reminder, that it is today's.           *)
(* The policies are numbered as they were created: that makes the last of  *)
(* the applicable ones the new one on every day of its range.              *)
(***************************************************************************)
EXTENDS Desks, Sums, TLAPS, FiniteSetTheorems, SequenceTheorems

-------------------------------------------------------------------------------
(* The inductive invariant *)

Destinos == [orden : Ordenes \cup {NoHay}, patente : Ventas \cup {NoHay}]

Ingreso ==
    [de : Destinos, importe : Importes \ {0},
     estado : {"PENDIENTE", "PAGO_PARCIAL", "PAGADO"}]

\* The incomes of the charges and their movements.
RecibosInv == ingresos \in Seq(Ingreso) /\ RecibosOK

Columna(r, c, k) == IF k \in DOMAIN r.columnas THEN r.columnas[k] ELSE c[k]

Firma(r) == "mecanico" \in DOMAIN r.columnas /\ r.columnas["mecanico"]

\* The row a request will write, whose income and version the commit decides.
Escrita(r, c) ==
    [k \in DOMAIN c |-> IF k \in {"ingreso", "version"} THEN c[k] ELSE Columna(r, c, k)]

\* What a request computed from an order c, signed with the tasks f, is still
\* right: it signs the work that the order will have, or leaves it as signed,
\* and charges exactly a delivery, which was not made yet.
Vigente(r, c, f) ==
    LET d == Escrita(r, c)
    IN  /\ d \in Orden /\ d.numero = c.numero /\ c.estado # "ENTREGADA"
        /\ "ingreso" \notin DOMAIN r.columnas
        /\ d.estado \in {"TERMINADA", "ENTREGADA"} =>
              /\ d.mecanico /\ d.terminada # NoHay /\ Firmable(d.tareas)
              /\ d.tareas = IF Firma(r) THEN r.columnas["tareas"] ELSE f
        /\ IF d.estado = "ENTREGADA" THEN d.importe = r.cobro.importe
           ELSE r.cobro.importe = 0

\* A request speaks of an order of the past or of the order as it is.
PedidosOK ==
    \A p \in Procesos : ~ Libre(p) =>
        LET r == pedidos[p]
        IN  /\ r.orden \in Recibidas /\ r.version <= ordenes[r.orden].version
            /\ r.version \in Nat /\ r.cobro.importe \in Importes \cup {0}
            /\ r.cobro.importe > 0 => r.cobro.clave \in Claves
            /\ MismaVersion(r.orden, r.version) =>
                  Vigente(r, ordenes[r.orden], firmado[r.orden])

\* A delivered order that charged says its income.
EntregadaConIngreso ==
    \A o \in Recibidas :
        (ordenes[o].estado = "ENTREGADA" /\ ordenes[o].importe > 0) =>
            ordenes[o].ingreso # NoHay

TallerInv ==
    /\ tipos \in [Tipos -> Tipo \cup {NoHay}]
    /\ ordenes \in [Ordenes -> Orden \cup {NoHay}]
    /\ DOMAIN pedidos = Procesos /\ DOMAIN firmado = Ordenes
    /\ IsFiniteSet(Recibidas) /\ TallerOK
    /\ PedidosOK /\ EntregadaConIngreso /\ EntregadaCompleta

Tramite == [patente : Patentes, cobro : Cobros]

\* A plate that is being registered is still of no other unit and of no other
\* request, but for the ones that history knows of.
TramitesPatenteOK ==
    \A o \in Ventas : ~ SinBloqueo(o) =>
        LET patente == enTramite[o].patente
        IN  \/ normalizeLicensePlate(patente) \in carreras
            \/ /\ ~ Duplicada(ventas[o].unidad, patente)
               /\ \A v \in Ventas \ {o} : ~ SinBloqueo(v) =>
                     normalizeLicensePlate(enTramite[v].patente)
                        # normalizeLicensePlate(patente)

PatentesInv ==
    /\ ventas \in [Ventas -> Venta]
    /\ placas \in [Unidades -> Patentes \cup {NoHay}]
    /\ enTramite \in [Ventas -> Tramite \cup {NoHay}]
    /\ PatentesOK /\ TramitesPatenteOK /\ PatenteUnica

\* Who was called was called about the reminder that is today's.
RecordatoriosInv ==
    /\ RecordatoriosOK
    /\ llamadas \subseteq Unidades /\ \A u \in llamadas : Aviso(u) \in avisos

Politica ==
    [id : Nat \ {0}, alcance : Alcances, desde : Dias, hasta : Dias \cup {Siempre},
     activa : BOOLEAN, provista : BOOLEAN]

\* The policies are numbered as they were created.
Numeradas(ps) ==
    /\ IsFiniteSet(ps) /\ {p.id : p \in ps} = 1..Cardinality(ps)
    /\ \A p, q \in ps : p.id = q.id => p = q

PreciosInv ==
    /\ politicas \subseteq Politica /\ Numeradas(politicas) /\ PreciosOK /\ SinSolapes

\* A client has a document that no edition touched.
DocFirme(c, doc) ==
    clientes[c] # SinDato /\ (clientes[c].doc = doc \/ doc \in editados)

\* A request in flight.
EnCurso ==
    [fase : {"buscar", "registrar", "confirmar", "releer"}, clave : LlavesConsulta,
     pedido : Pedidos, cliente : Clientes \cup {SinDato}]

\* What the step of a request has found out.
TramiteOK(p) ==
    LET r == tramites[p]
        doc == r.pedido.doc
    IN  /\ r.fase = "confirmar" =>
              /\ doc \in bloqueos
              /\ \A q \in Mostrador \ {p} :
                    En(q, "confirmar") => tramites[q].pedido.doc # doc
              /\ IF r.cliente = SinDato THEN ClientesCon(doc) = {} \/ doc \in editados
                 ELSE DocFirme(r.cliente, doc)
        /\ r.fase = "releer" => ConClave(r.clave) # {} \/ doc \in editados

RespuestaOK(r) ==
    /\ r.resultado = "consulta" =>
          [clave |-> r.clave, pedido |-> r.pedido, cliente |-> r.cliente] \in consultas
    /\ r.resultado = "otro pedido" => \E q \in ConClave(r.clave) : q.pedido # r.pedido
    /\ r.resultado = "conflicto" => r.pedido.doc \in editados

DocumentosUnicos ==
    \A c, d \in Clientes :
        (clientes[c] # SinDato /\ clientes[d] # SinDato
            /\ clientes[c].doc # SinDato /\ clientes[c].doc = clientes[d].doc) => c = d

Consulta == [clave : LlavesConsulta, pedido : Pedidos, cliente : Clientes]

ConsultasInv ==
    /\ clientes \in [Clientes -> Cliente \cup {SinDato}] /\ DocumentosUnicos
    /\ bloqueos \subseteq Documentos /\ editados \subseteq Documentos
    /\ consultas \subseteq Consulta
    /\ \A q, x \in consultas : q.clave = x.clave => q = x
    /\ \A q \in consultas : DocFirme(q.cliente, q.pedido.doc)
    /\ tramites \in [Mostrador -> EnCurso \cup {SinDato}]
    /\ \A p \in Mostrador : tramites[p] # SinDato => TramiteOK(p)
    /\ \A r \in respuestas : RespuestaOK(r)

IInv ==
    /\ RecibosInv /\ TallerInv /\ PatentesInv /\ RecordatoriosInv
    /\ PreciosInv /\ ConsultasInv /\ quedan \in Presupuesto

-------------------------------------------------------------------------------
(* The incomes *)

\* The movements that stand of an income.
Cobrados(ms, i) == {m \in ms : m.ingreso = i /\ m.activo}

\* What is collected of an income depends on them alone.
LEMMA CobradoEsSuma ==
    ASSUME NEW ms, NEW i
    PROVE  settledAmount(ms, i) = Suma([m \in Cobrados(ms, i) |-> m.monto], Cobrados(ms, i))
<1> DEFINE S == Cobrados(ms, i)
<1>1. MapThenSumSet(LAMBDA m : m.monto, S) = Suma([m \in S |-> m.monto], S)
  <2> HIDE DEF S
  <2> QED BY DEF Suma, MapThenSumSet, MapThenFoldSet
<1>2. QED
  BY <1>1 DEF settledAmount, Cobrados

LEMMA MismosCobros ==
    ASSUME NEW ms, NEW ns, NEW i, Cobrados(ms, i) = Cobrados(ns, i)
    PROVE  settledAmount(ms, i) = settledAmount(ns, i)
BY CobradoEsSuma, Zenon

\* Nothing is collected of an income without movements.
LEMMA SinCobros ==
    ASSUME NEW ms, NEW i, Cobrados(ms, i) = {}
    PROVE  settledAmount(ms, i) = 0
BY CobradoEsSuma, SumaVacia

\* The incomes there were stay, and what delivery they come from.
Conserva ==
    \A i \in DOMAIN ingresos :
        i \in DOMAIN ingresos' /\ ingresos'[i].de.orden = ingresos[i].de.orden

\* The new ones are for d.
NuevosDe(d) == \A i \in DOMAIN ingresos' \ DOMAIN ingresos : ingresos'[i].de = d

\* A new income, with its movement or none.
LEMMA IngresoNuevo ==
    ASSUME RecibosInv, NEW d \in Destinos,
           NEW importe \in Importes \ {0}, NEW ms,
           ingresos' = Append(ingresos, [de |-> d, importe |-> importe,
               estado |-> paymentStatus(settledAmount(ms, Len(ingresos) + 1), importe)]),
           movimientos' = ms, movimientos \subseteq ms,
           \A m \in ms \ movimientos : /\ m.ingreso = Len(ingresos) + 1
                                       /\ m.clave \in Claves /\ ~ Usada(m.clave)
                                       /\ \A n \in ms \ movimientos : n = m
    PROVE  /\ RecibosInv' /\ Conserva /\ NuevosDe(d)
           /\ DOMAIN ingresos' = DOMAIN ingresos \cup {Len(ingresos) + 1}
           /\ Len(ingresos) + 1 \notin DOMAIN ingresos
<1> DEFINE n == Len(ingresos)
           e == [de |-> d, importe |-> importe,
                 estado |-> paymentStatus(settledAmount(ms, n + 1), importe)]
<1>1. e \in Ingreso
  BY DEF Ingreso, paymentStatus
<1>2. n \in Nat /\ DOMAIN ingresos = 1..n
  BY LenProperties DEF RecibosInv
<1>3. /\ ingresos' \in Seq(Ingreso) /\ Len(ingresos') = n + 1
      /\ \A i \in 1..n : ingresos'[i] = ingresos[i]
      /\ ingresos'[n + 1] = e
  BY <1>1, AppendProperties DEF RecibosInv
<1>4. DOMAIN ingresos' = 1..(n + 1)
  BY <1>3, LenProperties
<1>5. Conserva /\ NuevosDe(d) /\ DOMAIN ingresos' = DOMAIN ingresos \cup {n + 1}
      /\ n + 1 \notin DOMAIN ingresos
  BY <1>2, <1>3, <1>4 DEF Conserva, NuevosDe
<1>6. ASSUME NEW i \in DOMAIN ingresos'
      PROVE  /\ ingresos'[i].importe \in Importes \ {0}
             /\ ingresos'[i].estado =
                   paymentStatus(settledAmount(ms, i), ingresos'[i].importe)
  <2>1. CASE i = n + 1
    BY <1>3, <2>1
  <2>2. CASE i \in 1..n
    <3>1. Cobrados(ms, i) = Cobrados(movimientos, i)
      BY <1>2, <2>2 DEF Cobrados
    <3>2. settledAmount(ms, i) = settledAmount(movimientos, i)
      BY <3>1, MismosCobros
    <3>3. ingresos'[i] = ingresos[i]
      BY <1>3, <2>2
    <3>4. /\ ingresos[i].importe \in Importes \ {0}
          /\ ingresos[i].estado =
                paymentStatus(settledAmount(movimientos, i), ingresos[i].importe)
      BY <1>2, <2>2 DEF RecibosInv, RecibosOK, IngresosOK
    <3>5. QED
      BY <3>2, <3>3, <3>4
  <2>3. QED
    BY <1>2, <1>4, <2>1, <2>2
<1>7. MovimientosOK'
  <2> SUFFICES ASSUME NEW m \in ms
               PROVE  /\ m.clave \in Claves /\ m.ingreso \in DOMAIN ingresos'
                      /\ \A x \in ms : x.clave = m.clave => x = m
    BY DEF MovimientosOK
  <2>1. MovimientosOK
    BY DEF RecibosInv, RecibosOK
  <2>2. m.clave \in Claves /\ m.ingreso \in DOMAIN ingresos'
    BY <1>5, <2>1 DEF MovimientosOK
  <2>3. ASSUME NEW x \in ms, x.clave = m.clave PROVE x = m
    BY <2>1, <2>3 DEF MovimientosOK, Usada
  <2>4. QED
    BY <2>2, <2>3
<1>8. IngresosOK'
  BY <1>6 DEF IngresosOK
<1>9. QED
  BY <1>3, <1>5, <1>7, <1>8 DEF RecibosInv, RecibosOK

\* A charge with its collection.
LEMMA CobraSuma ==
    ASSUME RecibosInv, NEW d \in Destinos,
           NEW importe \in Importes \ {0}, NEW clave \in Claves, Cobra(d, importe, clave)
    PROVE  /\ RecibosInv' /\ Conserva /\ NuevosDe(d)
           /\ DOMAIN ingresos' = DOMAIN ingresos \cup {Len(ingresos) + 1}
           /\ Len(ingresos) + 1 \notin DOMAIN ingresos
<1> DEFINE m0 == [clave |-> clave, ingreso |-> Len(ingresos) + 1, monto |-> importe,
                  activo |-> TRUE]
           ms == movimientos \cup {m0}
           i == Len(ingresos) + 1
           e == [de |-> d, importe |-> importe,
                 estado |-> paymentStatus(settledAmount(ms, i), importe)]
<1>1. /\ movimientos' = ms /\ ~ Usada(clave) /\ ingresos' = Append(ingresos, e)
  BY DEF Cobra
<1>2. /\ movimientos \subseteq ms
      /\ \A m \in ms \ movimientos :
            /\ m.ingreso = Len(ingresos) + 1 /\ m.clave \in Claves /\ ~ Usada(m.clave)
            /\ \A n \in ms \ movimientos : n = m
  <2>1. m0.clave = clave /\ m0.ingreso = Len(ingresos) + 1
    OBVIOUS
  <2> HIDE DEF m0
  <2>2. QED
    BY <1>1, <2>1
<1> HIDE DEF ms
<1>3. QED
  BY <1>1, <1>2, IngresoNuevo

\* An income nobody collected yet.
LEMMA createIncomeSuma ==
    ASSUME RecibosInv, NEW o \in Ventas, NEW importe \in Importes \ {0},
           createIncome(DePatente(o), importe)
    PROVE  RecibosInv' /\ Conserva /\ NuevosDe(DePatente(o))
<1>1. Cobrados(movimientos, Len(ingresos) + 1) = {}
  <2>1. Len(ingresos) + 1 \notin DOMAIN ingresos
    BY LenProperties DEF RecibosInv
  <2>2. QED
    BY <2>1 DEF Cobrados, RecibosInv, RecibosOK, MovimientosOK
<1>2. paymentStatus(settledAmount(movimientos, Len(ingresos) + 1), importe) = "PENDIENTE"
  BY <1>1, SinCobros DEF paymentStatus
<1>3. /\ movimientos' = movimientos
      /\ ingresos' = Append(ingresos, [de |-> DePatente(o), importe |-> importe,
            estado |-> paymentStatus(settledAmount(movimientos, Len(ingresos) + 1), importe)])
  BY <1>2 DEF createIncome
<1>4. DePatente(o) \in Destinos
  BY DEF DePatente, Destinos
<1>5. QED
  BY <1>3, <1>4, IngresoNuevo

\* An income whose movements or amount changed has the status they add up to.
LEMMA OtroEstado ==
    ASSUME RecibosInv, NEW i \in DOMAIN ingresos, NEW ms, movimientos' = ms,
           NEW e \in Ingreso, ingresos' = [ingresos EXCEPT ![i] = e],
           e.de.orden = ingresos[i].de.orden,
           e.estado = paymentStatus(settledAmount(ms, i), e.importe),
           \A j \in DOMAIN ingresos \ {i} : Cobrados(ms, j) = Cobrados(movimientos, j),
           \A m \in ms : m.clave \in Claves /\ m.ingreso \in DOMAIN ingresos,
           \A m, n \in ms : m.clave = n.clave => m = n
    PROVE  RecibosInv' /\ Conserva /\ DOMAIN ingresos' = DOMAIN ingresos
<1>1. /\ DOMAIN ingresos = 1..Len(ingresos) /\ \A j \in DOMAIN ingresos : ingresos[j] \in Ingreso
  BY LenProperties DEF RecibosInv
<1>2. ingresos' \in Seq(Ingreso) /\ DOMAIN ingresos' = DOMAIN ingresos
  BY DEF RecibosInv
<1>3. ingresos'[i] = e /\ \A j \in DOMAIN ingresos \ {i} : ingresos'[j] = ingresos[j]
  OBVIOUS
<1>4. Conserva
  BY <1>2, <1>3 DEF Conserva
<1>5. ASSUME NEW j \in DOMAIN ingresos
      PROVE  /\ ingresos'[j].importe \in Importes \ {0}
             /\ ingresos'[j].estado =
                   paymentStatus(settledAmount(ms, j), ingresos'[j].importe)
  <2>1. CASE j = i
    BY <1>3, <2>1 DEF Ingreso
  <2>2. CASE j # i
    <3>1. settledAmount(ms, j) = settledAmount(movimientos, j)
      BY <2>2, MismosCobros
    <3>2. ingresos[j].estado =
             paymentStatus(settledAmount(movimientos, j), ingresos[j].importe)
      BY DEF RecibosInv, RecibosOK, IngresosOK
    <3>3. QED
      BY <1>1, <1>3, <2>2, <3>1, <3>2 DEF Ingreso
  <2>3. QED
    BY <2>1, <2>2
<1>6. IngresosOK'
  BY <1>2, <1>5 DEF IngresosOK
<1>7. MovimientosOK'
  BY <1>2 DEF MovimientosOK
<1>8. QED
  BY <1>2, <1>4, <1>6, <1>7 DEF RecibosInv, RecibosOK

\* The row of an income after its movements changed.
LEMMA ConEstadoEs ==
    ASSUME RecibosInv, NEW i \in DOMAIN ingresos, NEW ms
    PROVE  LET e == ConEstado(i, ingresos[i].importe, ms)
           IN  /\ e \in Ingreso /\ e.de = ingresos[i].de
               /\ e.importe = ingresos[i].importe
               /\ e.estado = paymentStatus(settledAmount(ms, i), e.importe)
<1>1. ingresos[i] \in Ingreso
  BY LenProperties DEF RecibosInv
<1>2. QED
  BY <1>1 DEF ConEstado, Ingreso, paymentStatus

LEMMA registerCollectionEstado ==
    ASSUME RecibosInv, NEW i \in DOMAIN ingresos, NEW monto, NEW clave \in Claves,
           registerCollection(i, monto, clave)
    PROVE  RecibosInv' /\ Conserva /\ DOMAIN ingresos' = DOMAIN ingresos
<1> DEFINE m0 == [clave |-> clave, ingreso |-> i, monto |-> monto, activo |-> TRUE]
           ms == movimientos \cup {m0}
<1>1. /\ movimientos' = ms /\ ~ Usada(clave)
      /\ ingresos' = [ingresos EXCEPT ![i] = ConEstado(i, ingresos[i].importe, ms)]
  BY DEF registerCollection
<1>2. \A j \in DOMAIN ingresos \ {i} : Cobrados(ms, j) = Cobrados(movimientos, j)
  BY DEF Cobrados
<1>3. MovimientosOK
  BY DEF RecibosInv, RecibosOK
<1>4. m0.clave = clave /\ m0.ingreso = i
  OBVIOUS
<1> HIDE DEF m0
<1>5. \A m \in ms : m.clave \in Claves /\ m.ingreso \in DOMAIN ingresos
  BY <1>3, <1>4 DEF MovimientosOK
<1>6. \A m, n \in ms : m.clave = n.clave => m = n
  BY <1>1, <1>3, <1>4 DEF MovimientosOK, Usada
<1> HIDE DEF ms
<1>7. PICK e : e = ConEstado(i, ingresos[i].importe, ms)
  OBVIOUS
<1>8. /\ e \in Ingreso /\ e.de = ingresos[i].de
      /\ e.estado = paymentStatus(settledAmount(ms, i), e.importe)
  BY <1>7, ConEstadoEs
<1>9. QED
  BY <1>1, <1>2, <1>5, <1>6, <1>7, <1>8, OtroEstado

LEMMA reverseEstado ==
    ASSUME RecibosInv, NEW m \in movimientos, reverse(m)
    PROVE  RecibosInv' /\ Conserva /\ DOMAIN ingresos' = DOMAIN ingresos
<1> DEFINE m0 == [m EXCEPT !.activo = FALSE]
           i == m.ingreso
           ms == (movimientos \ {m}) \cup {m0}
<1>1. /\ movimientos' = ms
      /\ ingresos' = [ingresos EXCEPT ![i] = ConEstado(i, ingresos[i].importe, ms)]
  BY DEF reverse
<1>2. MovimientosOK
  BY DEF RecibosInv, RecibosOK
<1>3. m0.ingreso = i /\ m0.clave = m.clave
  OBVIOUS
<1>4. \A j \in DOMAIN ingresos \ {i} : Cobrados(ms, j) = Cobrados(movimientos, j)
  <2> HIDE DEF m0
  <2> QED BY <1>3 DEF Cobrados
<1>5. i \in DOMAIN ingresos
  BY <1>2 DEF MovimientosOK
<1> HIDE DEF m0
<1>6. \A n \in ms : n.clave \in Claves /\ n.ingreso \in DOMAIN ingresos
  BY <1>2, <1>3 DEF MovimientosOK
<1>7. \A n, x \in ms : n.clave = x.clave => n = x
  BY <1>2, <1>3 DEF MovimientosOK
<1> HIDE DEF ms, i
<1>8. PICK e : e = ConEstado(i, ingresos[i].importe, ms)
  OBVIOUS
<1>9. /\ e \in Ingreso /\ e.de = ingresos[i].de
      /\ e.estado = paymentStatus(settledAmount(ms, i), e.importe)
  BY <1>5, <1>8, ConEstadoEs
<1>10. QED
  BY <1>1, <1>4, <1>5, <1>6, <1>7, <1>8, <1>9, OtroEstado

\* The finance office's edit.
LEMMA updateIncomeEstado ==
    ASSUME RecibosInv, NEW i \in DOMAIN ingresos, NEW v \in Ventas \cup {NoHay},
           NEW importe \in Importes \ {0}, updateIncome(i, v, importe)
    PROVE  RecibosInv' /\ Conserva /\ DOMAIN ingresos' = DOMAIN ingresos
<1>1. PICK e : e = [ConEstado(i, importe, movimientos) EXCEPT
                       !.importe = importe, !.de.patente = v]
  OBVIOUS
<1>2. /\ movimientos' = movimientos /\ ingresos' = [ingresos EXCEPT ![i] = e]
  BY <1>1 DEF updateIncome
<1>3. ingresos[i] \in Ingreso
  BY LenProperties DEF RecibosInv
<1>4. /\ e \in Ingreso /\ e.de.orden = ingresos[i].de.orden
      /\ e.estado = paymentStatus(settledAmount(movimientos, i), e.importe)
  BY <1>1, <1>3 DEF ConEstado, Ingreso, Destinos, paymentStatus
<1>5. /\ \A m \in movimientos : m.clave \in Claves /\ m.ingreso \in DOMAIN ingresos
      /\ \A m, n \in movimientos : m.clave = n.clave => m = n
  BY DEF RecibosInv, RecibosOK, MovimientosOK
<1>6. QED
  BY <1>2, <1>4, <1>5, OtroEstado

-------------------------------------------------------------------------------
(* The workshop *)

Columnas == {"numero", "tipo", "tareas", "estado", "mecanico", "terminada", "unidad",
             "importe", "ingreso", "version"}

\* The row a request will write, column by column.
LEMMA EscritaEs ==
    ASSUME NEW r, NEW c \in Orden
    PROVE  /\ DOMAIN c = Columnas
           /\ Escrita(r, c) =
                [numero |-> Columna(r, c, "numero"), tipo |-> Columna(r, c, "tipo"),
                 tareas |-> Columna(r, c, "tareas"), estado |-> Columna(r, c, "estado"),
                 mecanico |-> Columna(r, c, "mecanico"),
                 terminada |-> Columna(r, c, "terminada"),
                 unidad |-> Columna(r, c, "unidad"), importe |-> Columna(r, c, "importe"),
                 ingreso |-> c.ingreso, version |-> c.version]
<1>1. DOMAIN c = Columnas
  BY DEF Orden, Columnas
<1> DEFINE d == Escrita(r, c)
           e == [numero |-> Columna(r, c, "numero"), tipo |-> Columna(r, c, "tipo"),
                 tareas |-> Columna(r, c, "tareas"), estado |-> Columna(r, c, "estado"),
                 mecanico |-> Columna(r, c, "mecanico"),
                 terminada |-> Columna(r, c, "terminada"),
                 unidad |-> Columna(r, c, "unidad"), importe |-> Columna(r, c, "importe"),
                 ingreso |-> c.ingreso, version |-> c.version]
<1>2. d = [k \in Columnas |-> IF k \in {"ingreso", "version"} THEN c[k] ELSE Columna(r, c, k)]
  BY <1>1 DEF Escrita
<1>3. e = [k \in Columnas |-> e[k]]
  BY DEF Columnas
<1>4. \A k \in Columnas :
         e[k] = IF k \in {"ingreso", "version"} THEN c[k] ELSE Columna(r, c, k)
  BY DEF Columnas
<1>5. d = e
  <2> HIDE DEF d, e
  <2> QED BY <1>2, <1>3, <1>4
<1>6. QED
  BY <1>1, <1>5

\* It is a row when the columns the request changes are of their types.
LEMMA EscritaOK ==
    ASSUME NEW r, NEW c \in Orden, NEW columnas, r.columnas = columnas,
           DOMAIN columnas \subseteq Columnas \ {"numero", "ingreso", "version"},
           "tipo" \in DOMAIN columnas => columnas["tipo"] \in Tipos \cup Otros,
           "tareas" \in DOMAIN columnas => columnas["tareas"] \in Tareas,
           "estado" \in DOMAIN columnas =>
               columnas["estado"] \in {"EN_TALLER", "TERMINADA", "ENTREGADA", "CANCELADA"},
           "mecanico" \in DOMAIN columnas => columnas["mecanico"] \in BOOLEAN,
           "terminada" \in DOMAIN columnas => columnas["terminada"] \in 0..MaxDia \cup {NoHay},
           "unidad" \in DOMAIN columnas => columnas["unidad"] \in Unidades \cup {NoHay},
           "importe" \in DOMAIN columnas => columnas["importe"] \in Importes
    PROVE  LET d == Escrita(r, c)
           IN  /\ d \in Orden /\ d.numero = c.numero
               /\ d.estado = Columna(r, c, "estado") /\ d.tareas = Columna(r, c, "tareas")
               /\ d.mecanico = Columna(r, c, "mecanico")
               /\ d.terminada = Columna(r, c, "terminada")
               /\ d.importe = Columna(r, c, "importe")
<1> DEFINE t == Columna(r, c, "tipo")
           ta == Columna(r, c, "tareas")
           es == Columna(r, c, "estado")
           me == Columna(r, c, "mecanico")
           te == Columna(r, c, "terminada")
           un == Columna(r, c, "unidad")
           im == Columna(r, c, "importe")
           nu == Columna(r, c, "numero")
<1>1. /\ c.numero \in Nat \ {0} /\ c.tipo \in Tipos \cup Otros /\ c.tareas \in Tareas
      /\ c.estado \in {"RECIBIDA", "EN_TALLER", "TERMINADA", "ENTREGADA", "CANCELADA"}
      /\ c.mecanico \in BOOLEAN /\ c.terminada \in 0..MaxDia \cup {NoHay}
      /\ c.unidad \in Unidades \cup {NoHay} /\ c.importe \in Importes \cup {NoHay}
      /\ c.ingreso \in Nat \cup {NoHay} /\ c.version \in Nat
  BY DEF Orden
<1>2. t \in Tipos \cup Otros
  BY <1>1 DEF Columna
<1>3. ta \in Tareas
  BY <1>1 DEF Columna
<1>4. es \in {"RECIBIDA", "EN_TALLER", "TERMINADA", "ENTREGADA", "CANCELADA"}
  BY <1>1 DEF Columna
<1>5. me \in BOOLEAN
  BY <1>1 DEF Columna
<1>6. te \in 0..MaxDia \cup {NoHay}
  BY <1>1 DEF Columna
<1>7. un \in Unidades \cup {NoHay}
  BY <1>1 DEF Columna
<1>8. im \in Importes \cup {NoHay}
  BY <1>1 DEF Columna
<1>9. nu = c.numero
  BY DEF Columna
<1>10. Escrita(r, c) =
         [numero |-> nu, tipo |-> t, tareas |-> ta, estado |-> es, mecanico |-> me,
          terminada |-> te, unidad |-> un, importe |-> im, ingreso |-> c.ingreso,
          version |-> c.version]
  BY EscritaEs
<1> HIDE DEF t, ta, es, me, te, un, im, nu
<1>11. Escrita(r, c) \in Orden
  BY <1>1, <1>2, <1>3, <1>4, <1>5, <1>6, <1>7, <1>8, <1>9, <1>10 DEF Orden
<1>12. /\ Escrita(r, c).numero = nu /\ Escrita(r, c).estado = es /\ Escrita(r, c).tareas = ta
       /\ Escrita(r, c).mecanico = me /\ Escrita(r, c).terminada = te
       /\ Escrita(r, c).importe = im
  BY <1>10
<1>13. QED
  BY <1>9, <1>11, <1>12 DEF ta, es, me, te, im

\* A request that keeps every column as it was has the row there is.
LEMMA load_TallerInv ==
    ASSUME TallerInv, NEW p \in Procesos, NEW o \in Recibidas, NEW columnas, NEW cobro,
           load(p, o, columnas, cobro), UNCHANGED recibosVars,
           cobro.importe \in Importes \cup {0}, cobro.importe > 0 => cobro.clave \in Claves,
           Vigente([orden |-> o, version |-> ordenes[o].version, columnas |-> columnas,
                    cobro |-> cobro], ordenes[o], firmado[o])
    PROVE  TallerInv'
<1> DEFINE r == [orden |-> o, version |-> ordenes[o].version, columnas |-> columnas,
                 cobro |-> cobro]
<1>1. /\ pedidos' = [pedidos EXCEPT ![p] = r] /\ DOMAIN pedidos = Procesos
      /\ tipos' = tipos /\ ordenes' = ordenes /\ firmado' = firmado /\ ingresos' = ingresos
  BY DEF load, recibosVars, TallerInv
<1>2. /\ r.orden = o /\ r.version = ordenes[o].version /\ r.cobro = cobro
      /\ Vigente(r, ordenes[o], firmado[o])
  OBVIOUS
<1>3. ordenes[o].version \in Nat
  BY DEF TallerInv, Recibidas, Orden
<1> HIDE DEF r
<1>4. PedidosOK'
  <2> SUFFICES ASSUME NEW q \in Procesos, pedidos'[q] # NoHay
               PROVE  LET x == pedidos'[q]
                      IN  /\ x.orden \in Recibidas
                          /\ x.version <= ordenes[x.orden].version
                          /\ x.version \in Nat /\ x.cobro.importe \in Importes \cup {0}
                          /\ x.cobro.importe > 0 => x.cobro.clave \in Claves
                          /\ MismaVersion(x.orden, x.version) =>
                                Vigente(x, ordenes[x.orden], firmado[x.orden])
    BY <1>1 DEF PedidosOK, Recibidas, MismaVersion, Libre
  <2>1. CASE q = p
    BY <1>1, <1>2, <1>3, <2>1
  <2>2. CASE q # p
    BY <1>1, <2>2 DEF TallerInv, PedidosOK, Libre
  <2>3. QED
    BY <2>1, <2>2
<1>5. TallerOK' /\ EntregadaConIngreso' /\ EntregadaCompleta' /\ IsFiniteSet(Recibidas')
  <2>1. Recibidas' = Recibidas /\ EntregadaConIngreso' /\ FirmadaSinCambios'
    BY <1>1 DEF TallerInv, EntregadaConIngreso, EntregadaCompleta, FirmadaSinCambios,
                Recibidas
  <2>2. TallerOK'
    BY <1>1, <2>1 DEF TallerInv, TallerOK, TiposOK, OrdenesOK
  <2>3. CobradaUnaVez'
    BY <1>1 DEF TallerInv, EntregadaCompleta, CobradaUnaVez, Esta, IngresosService
  <2>4. QED
    BY <2>1, <2>2, <2>3 DEF TallerInv, EntregadaCompleta
<1>6. DOMAIN pedidos' = Procesos
  BY <1>1
<1>7. QED
  BY <1>1, <1>4, <1>5, <1>6 DEF TallerInv

LEMMA OrdenRecibida ==
    ASSUME TallerInv, NEW o \in Ordenes, ordenes[o] # NoHay
    PROVE  o \in Recibidas /\ ordenes[o] \in Orden
BY DEF TallerInv, Recibidas

LEMMA cancelSigue ==
    ASSUME TallerInv, NEW p \in Procesos, NEW o \in Ordenes, cancel(p, o),
           UNCHANGED recibosVars
    PROVE  TallerInv'
<1> DEFINE columnas == [estado |-> "CANCELADA"]
           r == [orden |-> o, version |-> ordenes[o].version, columnas |-> columnas,
                 cobro |-> Nada]
           c == ordenes[o]
           d == Escrita(r, c)
<1>1. o \in Recibidas /\ c \in Orden /\ c.estado # "ENTREGADA" /\ load(p, o, columnas, Nada)
  BY OrdenRecibida DEF cancel, Esta, OPEN_STATES
<1>2. /\ r.columnas = columnas /\ r.cobro.importe = 0 /\ Nada.importe = 0
      /\ DOMAIN columnas = {"estado"} /\ columnas["estado"] = "CANCELADA"
  BY DEF Nada
<1> HIDE DEF r, c, d, columnas
<1>3. d \in Orden /\ d.numero = c.numero /\ d.estado = "CANCELADA"
  BY <1>1, <1>2, EscritaOK DEF Columna, Columnas, d
<1>4. Vigente(r, c, firmado[o])
  BY <1>1, <1>2, <1>3 DEF Vigente, d
<1>5. QED
  BY <1>1, <1>2, <1>4, load_TallerInv DEF r, c

LEMMA reopenSigue ==
    ASSUME TallerInv, NEW p \in Procesos, NEW o \in Ordenes, reopen(p, o),
           UNCHANGED recibosVars
    PROVE  TallerInv'
<1> DEFINE columnas == [estado |-> "EN_TALLER", mecanico |-> FALSE, terminada |-> NoHay]
           r == [orden |-> o, version |-> ordenes[o].version, columnas |-> columnas,
                 cobro |-> Nada]
           c == ordenes[o]
           d == Escrita(r, c)
<1>1. o \in Recibidas /\ c \in Orden /\ c.estado # "ENTREGADA" /\ load(p, o, columnas, Nada)
  BY OrdenRecibida DEF reopen, Esta
<1>2. /\ r.columnas = columnas /\ r.cobro.importe = 0 /\ Nada.importe = 0
      /\ DOMAIN columnas = {"estado", "mecanico", "terminada"}
      /\ columnas["estado"] = "EN_TALLER" /\ columnas["mecanico"] = FALSE
      /\ columnas["terminada"] = NoHay
  BY DEF Nada
<1> HIDE DEF r, c, d, columnas
<1>3. d \in Orden /\ d.numero = c.numero /\ d.estado = "EN_TALLER"
  BY <1>1, <1>2, EscritaOK DEF Columna, Columnas, d
<1>4. Vigente(r, c, firmado[o])
  BY <1>1, <1>2, <1>3 DEF Vigente, d
<1>5. QED
  BY <1>1, <1>2, <1>4, load_TallerInv DEF r, c

LEMMA saveWorkSigue ==
    ASSUME TallerInv, NEW p \in Procesos, NEW o \in Ordenes, NEW tareas \in Listas,
           saveWork(p, o, tareas), UNCHANGED recibosVars
    PROVE  TallerInv'
<1> DEFINE columnas == [estado |-> "EN_TALLER", tareas |-> tareas]
           r == [orden |-> o, version |-> ordenes[o].version, columnas |-> columnas,
                 cobro |-> Nada]
           c == ordenes[o]
           d == Escrita(r, c)
<1>1. o \in Recibidas /\ c \in Orden /\ c.estado # "ENTREGADA" /\ load(p, o, columnas, Nada)
  BY OrdenRecibida DEF saveWork, Esta, OPEN_STATES
<1>2. /\ r.columnas = columnas /\ r.cobro.importe = 0 /\ Nada.importe = 0
      /\ DOMAIN columnas = {"estado", "tareas"}
      /\ columnas["estado"] = "EN_TALLER" /\ columnas["tareas"] \in Tareas
  BY DatosEnviados DEF Nada
<1> HIDE DEF r, c, d, columnas
<1>3. d \in Orden /\ d.numero = c.numero /\ d.estado = "EN_TALLER"
  BY <1>1, <1>2, EscritaOK DEF Columna, Columnas, d
<1>4. Vigente(r, c, firmado[o])
  BY <1>1, <1>2, <1>3 DEF Vigente, d
<1>5. QED
  BY <1>1, <1>2, <1>4, load_TallerInv DEF r, c

\* The mechanic signs the tasks the same request writes.
LEMMA finishSigue ==
    ASSUME TallerInv, NEW p \in Procesos, NEW o \in Ordenes, NEW tareas \in Listas,
           NEW dia \in 0..MaxDia, finish(p, o, tareas, dia), UNCHANGED recibosVars
    PROVE  TallerInv'
<1> DEFINE columnas == [estado |-> "TERMINADA", tareas |-> tareas, mecanico |-> TRUE,
                        terminada |-> dia]
           r == [orden |-> o, version |-> ordenes[o].version, columnas |-> columnas,
                 cobro |-> Nada]
           c == ordenes[o]
           d == Escrita(r, c)
<1>1. /\ o \in Recibidas /\ c \in Orden /\ c.estado # "ENTREGADA" /\ Firmable(tareas)
      /\ load(p, o, columnas, Nada)
  BY OrdenRecibida DEF finish, Esta, OPEN_STATES
<1>2. /\ r.columnas = columnas /\ r.cobro.importe = 0 /\ Nada.importe = 0
      /\ DOMAIN columnas = {"estado", "tareas", "mecanico", "terminada"}
      /\ columnas["estado"] = "TERMINADA" /\ columnas["tareas"] = tareas
      /\ columnas["mecanico"] = TRUE /\ columnas["terminada"] = dia
  BY DEF Nada
<1>3. tareas \in Tareas /\ dia # NoHay
  BY DatosEnviados, NuloAparte
<1> HIDE DEF r, c, d, columnas
<1>4. /\ d \in Orden /\ d.numero = c.numero /\ d.estado = "TERMINADA"
      /\ d.tareas = tareas /\ d.mecanico = TRUE /\ d.terminada = dia /\ Firma(r)
  <2>1. Firma(r)
    BY <1>2 DEF Firma
  <2>2. /\ Columna(r, c, "estado") = "TERMINADA" /\ Columna(r, c, "tareas") = tareas
        /\ Columna(r, c, "terminada") = dia
    BY <1>2 DEF Columna
  <2>3. Columna(r, c, "mecanico") = TRUE
    BY <1>2 DEF Columna
  <2>4. /\ DOMAIN columnas \subseteq Columnas \ {"numero", "ingreso", "version"}
        /\ "tipo" \notin DOMAIN columnas /\ "unidad" \notin DOMAIN columnas
        /\ "importe" \notin DOMAIN columnas /\ columnas["mecanico"] \in BOOLEAN
    BY <1>2 DEF Columnas
  <2>5. QED
    BY <1>1, <1>2, <1>3, <2>1, <2>2, <2>3, <2>4, EscritaOK DEF d
<1>5. Vigente(r, c, firmado[o])
  BY <1>1, <1>2, <1>3, <1>4 DEF Vigente, d
<1>6. QED
  BY <1>1, <1>2, <1>5, load_TallerInv DEF r, c

\* What is delivered is signed, and stays so.
LEMMA deliverSigue ==
    ASSUME TallerInv, NEW p \in Procesos, NEW o \in Ordenes, NEW importe \in Importes,
           NEW clave \in Claves, deliver(p, o, importe, clave), UNCHANGED recibosVars
    PROVE  TallerInv'
<1> DEFINE columnas == [estado |-> "ENTREGADA", importe |-> importe]
           cobro == [importe |-> importe, clave |-> clave]
           r == [orden |-> o, version |-> ordenes[o].version, columnas |-> columnas,
                 cobro |-> cobro]
           c == ordenes[o]
           d == Escrita(r, c)
<1>1. o \in Recibidas /\ c \in Orden /\ c.estado = "TERMINADA" /\ load(p, o, columnas, cobro)
  BY OrdenRecibida DEF deliver, Esta
<1>2. /\ r.columnas = columnas /\ r.cobro.importe = importe
      /\ DOMAIN columnas = {"estado", "importe"}
      /\ columnas["estado"] = "ENTREGADA" /\ columnas["importe"] = importe
      /\ cobro.importe \in Importes \cup {0} /\ cobro.clave \in Claves
  OBVIOUS
<1>3. /\ c.mecanico /\ c.terminada # NoHay /\ Firmable(c.tareas) /\ c.tareas = firmado[o]
  BY <1>1 DEF TallerInv, TallerOK, OrdenesOK, EntregadaCompleta, FirmadaSinCambios
<1> HIDE DEF r, c, d, columnas, cobro
<1>4. /\ d \in Orden /\ d.numero = c.numero /\ d.estado = "ENTREGADA"
      /\ d.tareas = c.tareas /\ d.mecanico = c.mecanico /\ d.terminada = c.terminada
      /\ d.importe = importe /\ ~ Firma(r)
  BY <1>1, <1>2, EscritaOK DEF Columna, Columnas, Firma, d
<1>5. Vigente(r, c, firmado[o])
  BY <1>1, <1>2, <1>3, <1>4 DEF Vigente, d
<1>6. QED
  BY <1>1, <1>2, <1>5, load_TallerInv DEF r, c

\* The tasks of a type of service.
LEMMA ConTipoOK ==
    ASSUME TallerInv, NEW tipo \in Tipos \cup Otros, TipoValido(tipo)
    PROVE  /\ DOMAIN ConTipo(tipo) = {"tipo", "tareas"} /\ ConTipo(tipo)["tipo"] = tipo
           /\ ConTipo(tipo)["tareas"] \in Tareas
<1> DEFINE n == IF tipo \in Otros \/ tipos[tipo].tareas = 0 THEN PorDefecto
                ELSE tipos[tipo].tareas
<1>1. n \in Nat
  <2>1. tipo \in Tipos => tipos[tipo] \in Tipo
    BY DEF TallerInv, TipoValido
  <2>2. QED
    BY <2>1, DatosEnviados DEF Tipo
<1> HIDE DEF n
<1>2. checklist(n) \in Tareas
  BY <1>1 DEF checklist, Tareas
<1>3. QED
  BY <1>2 DEF ConTipo, n

\* The reception changes an order that is open.
LEMMA updateSigue ==
    ASSUME TallerInv, NEW p \in Procesos, NEW o \in Ordenes,
           NEW tipo \in Tipos \cup Otros \cup {NoHay}, NEW u \in Unidades \cup {NoHay},
           update(p, o, tipo, u), UNCHANGED recibosVars
    PROVE  TallerInv'
<1> DEFINE c == ordenes[o]
           otro == IF tipo \in {NoHay, c.tipo} THEN <<>> ELSE ConTipo(tipo)
           columnas == ConUnidad(u, otro)
           r == [orden |-> o, version |-> ordenes[o].version, columnas |-> columnas,
                 cobro |-> Nada]
           d == Escrita(r, c)
<1>1. /\ o \in Recibidas /\ c \in Orden /\ c.estado \in OPEN_STATES
      /\ load(p, o, columnas, Nada)
      /\ tipo # NoHay => TipoValido(tipo)
  BY OrdenRecibida DEF update, Esta
<1>2. /\ DOMAIN otro \subseteq {"tipo", "tareas"}
      /\ "tipo" \in DOMAIN otro => otro["tipo"] \in Tipos \cup Otros
      /\ "tareas" \in DOMAIN otro => otro["tareas"] \in Tareas
  <2>1. CASE tipo \in {NoHay, c.tipo}
    BY <2>1
  <2>2. CASE tipo \notin {NoHay, c.tipo}
    <3>1. tipo \in Tipos \cup Otros /\ TipoValido(tipo) /\ otro = ConTipo(tipo)
      BY <1>1, <2>2
    <3> HIDE DEF otro
    <3>2. QED
      BY <3>1, ConTipoOK
  <2>3. QED
    BY <2>1, <2>2
<1>3. r.columnas = columnas /\ r.cobro.importe = 0 /\ Nada.importe = 0
  BY DEF Nada
<1> HIDE DEF otro
<1>4. /\ DOMAIN columnas \subseteq {"tipo", "tareas", "unidad"}
      /\ "tipo" \in DOMAIN columnas => columnas["tipo"] \in Tipos \cup Otros
      /\ "tareas" \in DOMAIN columnas => columnas["tareas"] \in Tareas
      /\ "unidad" \in DOMAIN columnas => columnas["unidad"] \in Unidades \cup {NoHay}
  BY <1>2 DEF ConUnidad
<1> HIDE DEF r, c, d, columnas
<1>5. d \in Orden /\ d.numero = c.numero /\ d.estado = c.estado
  <2>1. /\ DOMAIN columnas \subseteq Columnas \ {"numero", "ingreso", "version"}
        /\ {"estado", "mecanico", "terminada", "importe"} \cap DOMAIN columnas = {}
    BY <1>4 DEF Columnas
  <2>2. Columna(r, c, "estado") = c.estado
    BY <1>3, <2>1 DEF Columna
  <2>3. QED
    BY <1>1, <1>3, <1>4, <2>1, <2>2, EscritaOK DEF d
<1>6. Vigente(r, c, firmado[o])
  BY <1>1, <1>3, <1>4, <1>5 DEF Vigente, OPEN_STATES, d
<1>7. QED
  BY <1>1, <1>3, <1>6, load_TallerInv DEF r, c

\* The incomes of an order are what its row says.
UnaVez(o) ==
    IngresosService(o) =
        IF Esta(o, {"ENTREGADA"}) /\ ordenes[o].importe > 0
        THEN {ordenes[o].ingreso} ELSE {}

\* Charges for others change nothing of an order that stays as it is.
LEMMA OtroCobro ==
    ASSUME RecibosInv, TallerInv, NEW o \in Ordenes, Conserva, ordenes'[o] = ordenes[o],
           \A i \in DOMAIN ingresos' \ DOMAIN ingresos : ingresos'[i].de.orden # o
    PROVE  UnaVez(o)'
<1>1. IngresosService(o)' = IngresosService(o)
  BY DEF IngresosService, Conserva
<1>2. UnaVez(o)
  BY DEF TallerInv, EntregadaCompleta, CobradaUnaVez, UnaVez
<1>3. QED
  BY <1>1, <1>2 DEF UnaVez, Esta

\* The row that a request writes is the one it computed, with the next version
\* and the income of its charge.
LEMMA FilaEscrita ==
    ASSUME TallerInv, NEW p \in Procesos, write(p)
    PROVE  LET r == pedidos[p]
               o == r.orden
               d == Escrita(r, ordenes[o])
               f == ordenes'[o]
           IN  /\ o \in Recibidas /\ ordenes[o] \in Orden
               /\ Vigente(r, ordenes[o], firmado[o])
               /\ ordenes' = [ordenes EXCEPT ![o] = f]
               /\ DOMAIN f = Columnas
               /\ f.version = ordenes[o].version + 1
               /\ f.ingreso = IF r.cobro.importe > 0 THEN Len(ingresos) + 1
                              ELSE ordenes[o].ingreso
               /\ \A k \in Columnas \ {"version", "ingreso"} : f[k] = d[k]
<1> DEFINE r == pedidos[p]
           o == r.orden
           c == ordenes[o]
           d == Escrita(r, c)
           f == [k \in DOMAIN c |->
                   IF k = "version" THEN c.version + 1
                   ELSE IF k = "ingreso" /\ r.cobro.importe > 0 THEN Len(ingresos) + 1
                   ELSE IF k \in DOMAIN r.columnas THEN r.columnas[k]
                   ELSE c[k]]
<1>1. /\ ~ Libre(p) /\ MismaVersion(o, r.version) /\ ordenes' = [ordenes EXCEPT ![o] = f]
  BY DEF write
<1>2. o \in Recibidas /\ Vigente(r, c, firmado[o])
  BY <1>1 DEF TallerInv, PedidosOK
<1>3. o \in Ordenes /\ c \in Orden
  BY <1>2, OrdenRecibida DEF Recibidas
<1>4. DOMAIN c = Columnas
  BY <1>3, EscritaEs
<1>5. DOMAIN ordenes = Ordenes /\ ordenes'[o] = f
  BY <1>1, <1>3 DEF TallerInv
<1>6. /\ \A k \in Columnas \ {"version", "ingreso"} : f[k] = d[k]
      /\ DOMAIN f = Columnas
  BY <1>4 DEF Escrita, Columna
<1>7. "ingreso" \notin DOMAIN r.columnas
  BY <1>2 DEF Vigente
<1>8. f.version = c.version + 1 /\ f.ingreso = IF r.cobro.importe > 0 THEN Len(ingresos) + 1
                                               ELSE c.ingreso
  BY <1>4, <1>7 DEF Columnas
<1> HIDE DEF f, d, c, r
<1>9. QED
  BY <1>1, <1>2, <1>3, <1>5, <1>6, <1>8 DEF c, d, r

\* The commit of a request: it charges a delivery, once, or nothing.
LEMMA writeSigue ==
    ASSUME RecibosInv, TallerInv, NEW p \in Procesos, write(p)
    PROVE  RecibosInv' /\ TallerInv' /\ Conserva
             /\ \E o \in Ordenes : NuevosDe(DeService(o))
<1>0. PICK r, o : r = pedidos[p] /\ o = r.orden
  OBVIOUS
<1> DEFINE c == ordenes[o]
           d == Escrita(r, c)
           f == ordenes'[o]
           n == Len(ingresos) + 1
<1>1. /\ o \in Recibidas /\ c \in Orden /\ Vigente(r, c, firmado[o])
      /\ ordenes' = [ordenes EXCEPT ![o] = f] /\ DOMAIN f = Columnas
      /\ f.version = c.version + 1
      /\ f.ingreso = IF r.cobro.importe > 0 THEN n ELSE c.ingreso
      /\ \A k \in Columnas \ {"version", "ingreso"} : f[k] = d[k]
  BY <1>0, FilaEscrita
<1>2. /\ ~ Libre(p) /\ pedidos' = [pedidos EXCEPT ![p] = NoHay] /\ tipos' = tipos
      /\ firmado' = IF Firma(r) THEN [firmado EXCEPT ![o] = r.columnas["tareas"]]
                    ELSE firmado
      /\ IF r.cobro.importe > 0 THEN collect(o, r.cobro) ELSE UNCHANGED recibosVars
  BY <1>0 DEF write, Firma
<1>3. r.cobro.importe \in Importes \cup {0} /\ r.cobro.importe \in Nat
      /\ (r.cobro.importe > 0 => r.cobro.clave \in Claves) /\ o \in Ordenes
  <2>1. /\ r.cobro.importe \in Importes \cup {0}
        /\ r.cobro.importe > 0 => r.cobro.clave \in Claves
    BY <1>0, <1>2 DEF TallerInv, PedidosOK
  <2>2. Importes \subseteq Nat
    BY DatosEnviados
  <2>3. o \in Ordenes
    BY <1>1 DEF Recibidas
  <2>4. \A x \in Importes \cup {0} : x \in Nat
    BY <2>2
  <2>5. QED
    BY <2>1, <2>3, <2>4, Zenon
<1>4. /\ d \in Orden /\ d.numero = c.numero /\ c.estado # "ENTREGADA"
      /\ d.estado \in {"TERMINADA", "ENTREGADA"} =>
            /\ d.mecanico /\ d.terminada # NoHay /\ Firmable(d.tareas)
            /\ d.tareas = firmado'[o]
      /\ IF d.estado = "ENTREGADA" THEN d.importe = r.cobro.importe
         ELSE r.cobro.importe = 0
  BY <1>1, <1>2, <1>3 DEF Vigente, TallerInv
<1>5. n \in Nat
  BY LenProperties DEF RecibosInv
<1> HIDE DEF d, c, n
<1>6. /\ f.numero = d.numero /\ f.tipo = d.tipo /\ f.tareas = d.tareas /\ f.estado = d.estado
      /\ f.mecanico = d.mecanico /\ f.terminada = d.terminada /\ f.unidad = d.unidad
      /\ f.importe = d.importe
  BY <1>1 DEF Columnas
<1>7. f \in Orden
  <2>1. f.ingreso \in Nat \cup {NoHay} /\ f.version \in Nat
    BY <1>1, <1>5 DEF Orden
  <2>2. DOMAIN f = Columnas /\ f = [k \in Columnas |-> f[k]]
    <3>1. f = [k \in DOMAIN c |->
                  IF k = "version" THEN c.version + 1
                  ELSE IF k = "ingreso" /\ r.cobro.importe > 0 THEN Len(ingresos) + 1
                  ELSE IF k \in DOMAIN r.columnas THEN r.columnas[k]
                  ELSE c[k]]
      BY <1>0, <1>3 DEF write, TallerInv, c
    <3>2. QED
      BY <1>1, <3>1
  <2> HIDE DEF f
  <2>3. f = [numero |-> f.numero, tipo |-> f.tipo, tareas |-> f.tareas, estado |-> f.estado,
             mecanico |-> f.mecanico, terminada |-> f.terminada, unidad |-> f.unidad,
             importe |-> f.importe, ingreso |-> f.ingreso, version |-> f.version]
    BY <2>2 DEF Columnas
  <2>4. QED
    BY <1>4, <1>6, <2>1, <2>3 DEF Orden
<1>8. f # NoHay
  BY <1>7, NuloAparte
<1>9. Recibidas' = Recibidas
  BY <1>1, <1>3, <1>8 DEF TallerInv, Recibidas
<1>10. ordenes' \in [Ordenes -> Orden \cup {NoHay}]
  BY <1>1, <1>7 DEF TallerInv
<1>11. \A x \in Ordenes \ {o} : ordenes'[x] = ordenes[x] /\ firmado'[x] = firmado[x]
  BY <1>1, <1>2 DEF TallerInv
<1> HIDE DEF f
<1>12. /\ RecibosInv' /\ Conserva /\ NuevosDe(DeService(o))
       /\ IF r.cobro.importe > 0
          THEN DOMAIN ingresos' = DOMAIN ingresos \cup {n} /\ n \notin DOMAIN ingresos
          ELSE ingresos' = ingresos
  <2>1. CASE r.cobro.importe > 0
    <3>1. Cobra(DeService(o), r.cobro.importe, r.cobro.clave)
      BY <1>2, <2>1 DEF collect
    <3>2. DeService(o) \in Destinos /\ r.cobro.importe \in Importes \ {0}
      BY <1>3, <2>1 DEF DeService, Destinos
    <3>3. QED
      BY <1>3, <2>1, <3>1, <3>2, CobraSuma DEF n
  <2>2. CASE ~ (r.cobro.importe > 0)
    BY <1>2, <2>2 DEF recibosVars, RecibosInv, RecibosOK, IngresosOK, MovimientosOK,
                      Conserva, NuevosDe
  <2>3. QED
    BY <2>1, <2>2
<1>13. \A x \in Ordenes : UnaVez(x)'
  <2> SUFFICES ASSUME NEW x \in Ordenes PROVE UnaVez(x)'
    OBVIOUS
  <2>1. CASE x # o
    BY <1>11, <1>12, <2>1, OtroCobro DEF NuevosDe, DeService
  <2>2. CASE x = o
    <3>1. ~ Esta(o, {"ENTREGADA"}) /\ UnaVez(o)
      BY <1>3, <1>4 DEF Esta, TallerInv, EntregadaCompleta, CobradaUnaVez, UnaVez, c
    <3>2. IngresosService(o) = {}
      BY <3>1 DEF UnaVez
    <3>3. CASE r.cobro.importe > 0
      <4>1. IngresosService(o)' = {n}
        BY <1>12, <3>2, <3>3 DEF IngresosService, Conserva, NuevosDe, DeService
      <4>2. f.ingreso = n /\ f.importe = r.cobro.importe /\ f.estado = "ENTREGADA"
        BY <1>1, <1>3, <1>4, <1>6, <3>3
      <4>3. ordenes'[o] = f /\ Esta(o, {"ENTREGADA"})' /\ ordenes'[o].importe > 0
        BY <1>8, <3>3, <4>2 DEF Esta, f
      <4>4. QED
        BY <2>2, <4>1, <4>2, <4>3 DEF UnaVez
    <3>4. CASE ~ (r.cobro.importe > 0)
      <4>1. IngresosService(o)' = {}
        BY <1>12, <3>2, <3>4 DEF IngresosService
      <4>2. ~ (Esta(o, {"ENTREGADA"})' /\ ordenes'[o].importe > 0)
        BY <1>3, <1>4, <1>6, <3>4 DEF Esta, f
      <4>3. QED
        BY <2>2, <4>1, <4>2 DEF UnaVez
    <3>5. QED
      BY <3>3, <3>4
  <2>3. QED
    BY <2>1, <2>2
<1>14. FirmadaSinCambios'
  <2> SUFFICES ASSUME NEW x \in Recibidas, ordenes'[x].estado \in {"TERMINADA", "ENTREGADA"}
               PROVE  ordenes'[x].tareas = firmado'[x] /\ Firmable(ordenes'[x].tareas)
    BY <1>9 DEF FirmadaSinCambios
  <2>1. CASE x = o
    BY <1>4, <1>6, <2>1 DEF f
  <2>2. CASE x # o
    BY <1>11, <2>2 DEF TallerInv, EntregadaCompleta, FirmadaSinCambios, Recibidas
  <2>3. QED
    BY <2>1, <2>2
<1>15. EntregadaConIngreso'
  <2> SUFFICES ASSUME NEW x \in Recibidas, ordenes'[x].estado = "ENTREGADA",
                      ordenes'[x].importe > 0
               PROVE  ordenes'[x].ingreso # NoHay
    BY <1>9 DEF EntregadaConIngreso
  <2>1. CASE x = o
    <3>1. f.ingreso = n
      BY <1>1, <1>4, <1>6, <2>1 DEF f
    <3>2. n # NoHay
      BY <1>5, NuloAparte
    <3>3. QED
      BY <2>1, <3>1, <3>2 DEF f
  <2>2. CASE x # o
    BY <1>11, <2>2 DEF TallerInv, EntregadaConIngreso, Recibidas
  <2>3. QED
    BY <2>1, <2>2
<1>16. OrdenesOK' /\ TiposOK'
  <2>1. TiposOK'
    BY <1>2 DEF TallerInv, TallerOK, TiposOK
  <2>2. ASSUME NEW x \in Recibidas
        PROVE  /\ ordenes'[x].estado \in {"RECIBIDA", "EN_TALLER", "TERMINADA",
                                          "ENTREGADA", "CANCELADA"}
               /\ ordenes'[x].version \in Nat
               /\ ordenes'[x].estado \in {"TERMINADA", "ENTREGADA"} =>
                     ordenes'[x].mecanico /\ ordenes'[x].terminada # NoHay
               /\ ordenes'[x].estado = "ENTREGADA" => ordenes'[x].importe \in Nat
               /\ ordenes'[x].ingreso # NoHay => ordenes'[x].ingreso \in DOMAIN ingresos'
    <3>1. CASE x = o
      <4>1. f.version \in Nat /\ f.estado \in {"RECIBIDA", "EN_TALLER", "TERMINADA",
                                               "ENTREGADA", "CANCELADA"}
        BY <1>7 DEF Orden
      <4>2. f.estado \in {"TERMINADA", "ENTREGADA"} => f.mecanico /\ f.terminada # NoHay
        BY <1>4, <1>6
      <4>3. f.estado = "ENTREGADA" => f.importe \in Nat
        BY <1>3, <1>4, <1>6
      <4>4. f.ingreso # NoHay => f.ingreso \in DOMAIN ingresos'
        <5>1. c.ingreso # NoHay => c.ingreso \in DOMAIN ingresos
          BY <1>1 DEF TallerInv, TallerOK, OrdenesOK, c
        <5>2. QED
          BY <1>1, <1>12, <5>1 DEF Conserva
      <4>5. QED
        BY <3>1, <4>1, <4>2, <4>3, <4>4 DEF f
    <3>2. CASE x # o
      BY <1>11, <1>12, <3>2 DEF TallerInv, TallerOK, OrdenesOK, Recibidas, Conserva
    <3>3. QED
      BY <3>1, <3>2
  <2>3. QED
    BY <1>9, <2>1, <2>2 DEF OrdenesOK
<1>17. {ordenes'[x].numero : x \in Recibidas'} = 1..Cardinality(Recibidas')
  <2>1. \A x \in Recibidas : ordenes'[x].numero = ordenes[x].numero
    <3>1. f.numero = c.numero
      BY <1>4, <1>6
    <3>2. QED
      BY <1>11, <3>1 DEF Recibidas, f, c
  <2>2. {ordenes'[x].numero : x \in Recibidas} = {ordenes[x].numero : x \in Recibidas}
    BY <2>1
  <2>3. {ordenes[x].numero : x \in Recibidas} = 1..Cardinality(Recibidas)
    BY DEF TallerInv, TallerOK
  <2>4. QED
    BY <1>9, <2>2, <2>3
<1>18. PedidosOK'
  <2> SUFFICES ASSUME NEW q \in Procesos, pedidos'[q] # NoHay
               PROVE  LET x == pedidos'[q]
                      IN  /\ x.orden \in Recibidas
                          /\ x.version <= ordenes'[x.orden].version
                          /\ x.version \in Nat /\ x.cobro.importe \in Importes \cup {0}
                          /\ x.cobro.importe > 0 => x.cobro.clave \in Claves
                          /\ ordenes'[x.orden].version = x.version =>
                                Vigente(x, ordenes'[x.orden], firmado'[x.orden])
    BY <1>9 DEF PedidosOK, Libre, MismaVersion
  <2>1. q # p /\ pedidos'[q] = pedidos[q]
    BY <1>2 DEF TallerInv
  <2>2. PICK x : x = pedidos[q]
    OBVIOUS
  <2>3. /\ x.orden \in Recibidas /\ x.version <= ordenes[x.orden].version
        /\ x.version \in Nat /\ x.cobro.importe \in Importes \cup {0}
        /\ x.cobro.importe > 0 => x.cobro.clave \in Claves
        /\ MismaVersion(x.orden, x.version) =>
              Vigente(x, ordenes[x.orden], firmado[x.orden])
    BY <2>1, <2>2 DEF TallerInv, PedidosOK, Libre
  <2>4. CASE x.orden = o
    <3>1. ordenes'[o].version = c.version + 1 /\ c.version \in Nat
      BY <1>1 DEF f, Orden
    <3>2. x.version <= ordenes'[o].version /\ x.version # ordenes'[o].version
      BY <2>3, <2>4, <3>1 DEF c
    <3>3. QED
      BY <2>1, <2>2, <2>3, <2>4, <3>2 DEF MismaVersion
  <2>5. CASE x.orden # o
    BY <1>11, <2>1, <2>2, <2>3, <2>5 DEF MismaVersion, Recibidas
  <2>6. QED
    BY <2>4, <2>5
<1>19. TallerInv'
  <2>1. tipos' \in [Tipos -> Tipo \cup {NoHay}] /\ DOMAIN pedidos' = Procesos
        /\ DOMAIN firmado' = Ordenes /\ IsFiniteSet(Recibidas')
    BY <1>2, <1>9 DEF TallerInv
  <2>2. CobradaUnaVez'
    BY <1>13 DEF CobradaUnaVez, UnaVez
  <2>3. QED
    BY <1>10, <1>14, <1>15, <1>16, <1>17, <1>18, <2>1, <2>2
    DEF TallerInv, TallerOK, EntregadaCompleta
<1>20. QED
  BY <1>3, <1>12, <1>19

\* The next number is one more than the orders received.
LEMMA SiguienteNumero ==
    ASSUME NEW n \in Nat
    PROVE  Max(1..n \cup {0}) = n
BY DEF Max

LEMMA createSigue ==
    ASSUME RecibosInv, TallerInv, NEW o \in Ordenes, NEW tipo \in Tipos \cup Otros,
           NEW u \in Unidades \cup {NoHay}, create(o, tipo, u), UNCHANGED recibosVars
    PROVE  TallerInv'
<1> DEFINE n == Cardinality(Recibidas)
           f == [numero |-> n + 1, estado |-> "RECIBIDA",
                 tipo |-> tipo, tareas |-> ConTipo(tipo).tareas,
                 mecanico |-> FALSE, terminada |-> NoHay, unidad |-> u,
                 importe |-> NoHay, ingreso |-> NoHay, version |-> 0]
<1>1. n \in Nat /\ IsFiniteSet(Recibidas)
  BY FS_CardinalityType DEF TallerInv
<1>2. {ordenes[x].numero : x \in Recibidas} = 1..n
  BY DEF TallerInv, TallerOK
<1>3. /\ ordenes[o] = NoHay /\ TipoValido(tipo)
      /\ tipos' = tipos /\ pedidos' = pedidos /\ firmado' = firmado
  BY DEF create
<1>4. ordenes' = [ordenes EXCEPT ![o] = f]
  <2>1. Max({ordenes[x].numero : x \in Recibidas} \cup {0}) = n
    BY <1>1, <1>2, SiguienteNumero
  <2>2. ordenes' = [ordenes EXCEPT ![o] =
              [numero |-> Max({ordenes[x].numero : x \in Recibidas} \cup {0}) + 1,
               estado |-> "RECIBIDA",
               tipo |-> tipo, tareas |-> ConTipo(tipo).tareas,
               mecanico |-> FALSE, terminada |-> NoHay, unidad |-> u,
               importe |-> NoHay, ingreso |-> NoHay, version |-> 0]]
    BY DEF create, Recibidas
  <2>3. QED
    BY <2>1, <2>2
<1>5. f \in Orden
  <2>1. ConTipo(tipo).tareas \in Tareas
    BY <1>3, ConTipoOK
  <2>2. QED
    BY <1>1, <2>1 DEF Orden
<1>6. /\ f.numero = n + 1 /\ f.estado = "RECIBIDA" /\ f.version = 0 /\ f.ingreso = NoHay
  OBVIOUS
<1> HIDE DEF f, n
<1>7. f # NoHay
  BY <1>5, NuloAparte
<1>8. /\ ordenes' \in [Ordenes -> Orden \cup {NoHay}] /\ ordenes'[o] = f
      /\ \A x \in Ordenes \ {o} : ordenes'[x] = ordenes[x]
  BY <1>4, <1>5 DEF TallerInv
<1>9. Recibidas' = Recibidas \cup {o} /\ o \notin Recibidas
  BY <1>3, <1>7, <1>8 DEF Recibidas
<1>10. IsFiniteSet(Recibidas') /\ Cardinality(Recibidas') = n + 1
  BY <1>1, <1>9, FS_AddElement DEF n
<1>11. {ordenes'[x].numero : x \in Recibidas'} = 1..(n + 1)
  <2>1. \A x \in Recibidas : ordenes'[x].numero = ordenes[x].numero
    BY <1>8, <1>9 DEF Recibidas
  <2>2. {ordenes'[x].numero : x \in Recibidas'} =
           {ordenes[x].numero : x \in Recibidas} \cup {n + 1}
    BY <1>6, <1>8, <1>9, <2>1
  <2>3. 1..n \cup {n + 1} = 1..(n + 1)
    BY <1>1
  <2>4. QED
    BY <1>2, <2>2, <2>3
<1>12. ingresos' = ingresos
  BY DEF recibosVars
<1>13. OrdenesOK' /\ TiposOK' /\ EntregadaConIngreso'
  BY <1>3, <1>6, <1>8, <1>9, <1>12 DEF TallerInv, TallerOK, OrdenesOK, TiposOK,
     EntregadaConIngreso, Recibidas
<1>14. PedidosOK'
  <2> SUFFICES ASSUME NEW q \in Procesos, pedidos[q] # NoHay
               PROVE  LET x == pedidos[q]
                      IN  /\ x.orden \in Recibidas'
                          /\ x.version <= ordenes'[x.orden].version
                          /\ x.version \in Nat /\ x.cobro.importe \in Importes \cup {0}
                          /\ x.cobro.importe > 0 => x.cobro.clave \in Claves
                          /\ ordenes'[x.orden].version = x.version =>
                                Vigente(x, ordenes'[x.orden], firmado[x.orden])
    BY <1>3 DEF PedidosOK, Libre, MismaVersion
  <2>1. pedidos[q].orden \in Recibidas /\ pedidos[q].orden \in Ordenes \ {o}
    BY <1>9 DEF TallerInv, PedidosOK, Libre, Recibidas
  <2>2. ordenes'[pedidos[q].orden] = ordenes[pedidos[q].orden]
    BY <1>8, <2>1
  <2>3. QED
    BY <1>9, <2>1, <2>2 DEF TallerInv, PedidosOK, Libre, MismaVersion
<1>15. FirmadaSinCambios'
  BY <1>3, <1>6, <1>8, <1>9 DEF TallerInv, EntregadaCompleta, FirmadaSinCambios, Recibidas
<1>16. CobradaUnaVez'
  <2> SUFFICES ASSUME NEW x \in Ordenes PROVE UnaVez(x)'
    BY DEF CobradaUnaVez, UnaVez
  <2>1. Conserva /\ DOMAIN ingresos' = DOMAIN ingresos
    BY <1>12 DEF Conserva
  <2>2. CASE x # o
    BY <1>8, <2>1, <2>2, OtroCobro
  <2>3. CASE x = o
    <3>1. ~ Esta(o, {"ENTREGADA"}) /\ ~ Esta(o, {"ENTREGADA"})'
      BY <1>3, <1>6, <1>8 DEF Esta
    <3>2. IngresosService(o)' = {}
      BY <1>12, <3>1 DEF TallerInv, EntregadaCompleta, CobradaUnaVez, IngresosService
    <3>3. QED
      BY <2>3, <3>1, <3>2 DEF UnaVez
  <2>4. QED
    BY <2>2, <2>3
<1>17. QED
  BY <1>3, <1>8, <1>10, <1>11, <1>13, <1>14, <1>15, <1>16
  DEF TallerInv, TallerOK, EntregadaCompleta

\* A type of service is of its shape; what orders took from it is theirs.
LEMMA saveTypeSigue ==
    ASSUME TallerInv, NEW t \in Tipos, NEW n \in Nat, NEW activo \in BOOLEAN,
           saveType(t, n, activo), UNCHANGED recibosVars
    PROVE  TallerInv'
<1>1. /\ tipos' = [tipos EXCEPT ![t] = [tareas |-> n, activo |-> activo]]
      /\ ordenes' = ordenes /\ pedidos' = pedidos /\ firmado' = firmado
      /\ ingresos' = ingresos
  BY DEF saveType, recibosVars
<1>2. tipos' \in [Tipos -> Tipo \cup {NoHay}]
  BY <1>1 DEF TallerInv, Tipo
<1>3. TiposOK'
  BY <1>2 DEF TiposOK, Tipo
<1>4. /\ Recibidas' = Recibidas /\ OrdenesOK' /\ EntregadaConIngreso'
      /\ FirmadaSinCambios' /\ CobradaUnaVez'
  BY <1>1 DEF TallerInv, TallerOK, OrdenesOK, EntregadaConIngreso, EntregadaCompleta,
              FirmadaSinCambios, CobradaUnaVez, Recibidas, Esta, IngresosService
<1>5. PedidosOK'
  BY <1>1, <1>4 DEF TallerInv, PedidosOK, Libre, MismaVersion
<1>6. QED
  BY <1>1, <1>2, <1>3, <1>4, <1>5 DEF TallerInv, TallerOK, EntregadaCompleta

\* A request that ends without a trace.
LEMMA DeshacerSigue ==
    ASSUME TallerInv, NEW p \in Procesos, Deshacer(p), UNCHANGED recibosVars
    PROVE  TallerInv'
<1>1. /\ pedidos' = [pedidos EXCEPT ![p] = NoHay] /\ tipos' = tipos
      /\ ordenes' = ordenes /\ firmado' = firmado /\ ingresos' = ingresos
  BY DEF Deshacer, recibosVars
<1>2. /\ Recibidas' = Recibidas /\ TiposOK' /\ OrdenesOK' /\ EntregadaConIngreso'
      /\ FirmadaSinCambios' /\ CobradaUnaVez'
  BY <1>1 DEF TallerInv, TallerOK, OrdenesOK, EntregadaConIngreso, EntregadaCompleta,
              FirmadaSinCambios, CobradaUnaVez, Recibidas, Esta, IngresosService, TiposOK
<1>3. DOMAIN pedidos' = Procesos /\ \A q \in Procesos : pedidos'[q] \in {pedidos[q], NoHay}
  BY <1>1 DEF TallerInv
<1>4. PedidosOK'
  BY <1>1, <1>2, <1>3 DEF TallerInv, PedidosOK, Libre, MismaVersion
<1>5. QED
  BY <1>1, <1>2, <1>3, <1>4 DEF TallerInv, TallerOK, EntregadaCompleta

\* What the other offices charge is not of the workshop.
LEMMA TallerAparte ==
    ASSUME RecibosInv, TallerInv, UNCHANGED tallerVars, Conserva,
           \A i \in DOMAIN ingresos' \ DOMAIN ingresos :
               \A o \in Ordenes : ingresos'[i].de.orden # o
    PROVE  TallerInv'
<1>1. /\ tipos' = tipos /\ ordenes' = ordenes /\ pedidos' = pedidos /\ firmado' = firmado
  BY DEF tallerVars
<1>2. Recibidas' = Recibidas /\ TiposOK' /\ EntregadaConIngreso' /\ FirmadaSinCambios'
  BY <1>1 DEF TallerInv, TallerOK, TiposOK, EntregadaConIngreso, EntregadaCompleta,
              FirmadaSinCambios, Recibidas
<1>3. OrdenesOK'
  BY <1>1, <1>2 DEF TallerInv, TallerOK, OrdenesOK, Conserva
<1>4. \A o \in Ordenes : UnaVez(o)'
  BY <1>1, OtroCobro
<1>5. CobradaUnaVez'
  BY <1>4 DEF CobradaUnaVez, UnaVez
<1>6. PedidosOK'
  BY <1>1, <1>2 DEF TallerInv, PedidosOK, Libre, MismaVersion
<1>7. QED
  BY <1>1, <1>2, <1>3, <1>5, <1>6 DEF TallerInv, TallerOK, EntregadaCompleta

\* Requests spend what they may still do.
LEMMA GastaSigue ==
    ASSUME quedan \in Presupuesto,
           NEW q \in {"tipos", "altas", "taller", "entregas", "ventas", "modalidades",
                      "patentes", "stock", "cobros", "dias", "avisos", "precios", "consultas",
                      "clientes"},
           Gasta(q)
    PROVE  quedan' \in Presupuesto
<1>1. quedan[q] \in Nat /\ quedan[q] > 0
  BY DEF Gasta, Presupuesto
<1>2. PICK n : n = quedan[q] - 1
  OBVIOUS
<1>3. n \in Nat /\ quedan' = [quedan EXCEPT ![q] = n]
  BY <1>1, <1>2 DEF Gasta
<1>4. QED
  BY <1>3 DEF Presupuesto

LEMMA TallerPasa ==
    ASSUME RecibosInv, TallerInv, quedan \in Presupuesto, hoy \in 0..MaxDia, Taller
    PROVE  RecibosInv' /\ TallerInv' /\ quedan' \in Presupuesto
<1>1. Motos \subseteq Unidades \cup {NoHay}
  BY DEF Motos, Presupuesto
<1>2. UNCHANGED recibosVars => RecibosInv'
  BY DEF recibosVars, RecibosInv, RecibosOK, IngresosOK, MovimientosOK
<1>3. CASE Gasta("tipos") /\ UNCHANGED recibosVars
             /\ \/ \E t \in Tipos, n \in 0..1 : createType(t, n)
                \/ \E t \in Tipos, n \in 0..1, a \in BOOLEAN : updateType(t, n, a)
  <2>1. PICK t \in Tipos, n \in 0..1, a \in BOOLEAN : saveType(t, n, a)
    BY <1>3 DEF createType, updateType
  <2>2. QED
    BY <1>2, <1>3, <2>1, saveTypeSigue, GastaSigue
<1>4. CASE Gasta("altas") /\ UNCHANGED recibosVars
             /\ \E o \in Ordenes, tipo \in Tipos \cup Otros, u \in Motos : create(o, tipo, u)
  BY <1>1, <1>2, <1>4, createSigue, GastaSigue
<1>5. CASE Gasta("taller") /\ UNCHANGED recibosVars
             /\ \E p \in Procesos, o \in Ordenes :
                   \/ \E tipo \in Tipos \cup Otros \cup {NoHay}, u \in Motos :
                         ordenes[o] # NoHay /\ update(p, o, tipo, u)
                   \/ cancel(p, o)
                   \/ reopen(p, o)
                   \/ \E tareas \in Listas : saveWork(p, o, tareas)
                   \/ \E tareas \in Listas : finish(p, o, tareas, hoy)
  <2>1. PICK p \in Procesos, o \in Ordenes :
             \/ \E tipo \in Tipos \cup Otros \cup {NoHay}, u \in Motos : update(p, o, tipo, u)
             \/ cancel(p, o)
             \/ reopen(p, o)
             \/ \E tareas \in Listas : saveWork(p, o, tareas)
             \/ \E tareas \in Listas : finish(p, o, tareas, hoy)
    BY <1>5
  <2>2. TallerInv'
    BY <1>1, <1>5, <2>1, updateSigue, cancelSigue, reopenSigue, saveWorkSigue, finishSigue
  <2>3. QED
    BY <1>2, <1>5, <2>2, GastaSigue
<1>6. CASE Gasta("entregas") /\ UNCHANGED recibosVars
             /\ \E p \in Procesos, o \in Ordenes, i \in Importes, k \in Claves :
                   deliver(p, o, i, k)
  BY <1>2, <1>6, deliverSigue, GastaSigue
<1>7. CASE \E p \in Procesos : write(p) /\ UNCHANGED quedan
  BY <1>7, writeSigue
<1>8. CASE \E p \in Procesos : Deshacer(p) /\ UNCHANGED <<recibosVars, quedan>>
  BY <1>2, <1>8, DeshacerSigue
<1>9. QED
  BY <1>3, <1>4, <1>5, <1>6, <1>7, <1>8 DEF Taller

-------------------------------------------------------------------------------
(* The license plates *)

\* Nothing happens to a plate.
LEMMA PatentesIguales ==
    ASSUME PatentesInv, UNCHANGED patentesVars
    PROVE  PatentesInv'
BY DEF patentesVars, PatentesInv, PatentesOK, TramitesPatenteOK, PatenteUnica, Duplicada,
       SinBloqueo

\* Only the arrival of a plate and stock write one, and say if it was twice.
LEMMA PlacasIguales ==
    ASSUME PatenteUnica, UNCHANGED <<placas, carreras>>
    PROVE  PatenteUnica'
BY DEF PatenteUnica

\* A request of a sale whose lock is free changes its row.
LEMMA VentaSigue ==
    ASSUME PatentesInv, NEW o \in Ventas, SinBloqueo(o), NEW f \in Venta,
           ventas' = [ventas EXCEPT ![o] = f],
           UNCHANGED <<placas, enTramite, carreras, hoy>>,
           f.importe # NoHay => f.modalidad = "PAGA_CLIENTE"
    PROVE  PatentesInv'
<1>1. /\ ventas' \in [Ventas -> Venta] /\ ventas'[o] = f
      /\ \A x \in Ventas \ {o} : ventas'[x] = ventas[x]
  BY DEF PatentesInv
<1>2. PatenteUnica'
  BY PlacasIguales DEF PatentesInv
<1>3. PatentesOK'
  <2>1. ASSUME NEW x \in Ventas
        PROVE  /\ ventas'[x].importe # NoHay => ventas'[x].modalidad = "PAGA_CLIENTE"
               /\ ~ SinBloqueo(x)' => ventas'[x].unidad # NoHay
    BY <1>1 DEF PatentesInv, PatentesOK, SinBloqueo
  <2>2. ASSUME NEW x \in Ventas
        PROVE  /\ ventas'[x].estado \in OVERDUE_ELIGIBLE_STATES \cup
                      {"BORRADOR", "RECHAZADA", "CANCELADA"}
               /\ ventas'[x].modalidad \in {NoHay, "BONIFICADA", "PAGA_CLIENTE"}
    BY <1>1 DEF Venta
  <2>3. hoy' \in 0..MaxDia
    BY DEF PatentesInv, PatentesOK
  <2>4. QED
    BY <2>1, <2>2, <2>3 DEF PatentesOK
<1>4. TramitesPatenteOK'
  BY <1>1 DEF PatentesInv, TramitesPatenteOK, Duplicada, SinBloqueo
<1>5. QED
  BY <1>1, <1>2, <1>3, <1>4 DEF PatentesInv

LEMMA PasaSigue ==
    ASSUME PatentesInv, NEW o \in Ventas,
           NEW hasta \in {"PENDIENTE_APROBACION", "APROBADA", "CERRADA", "RECHAZADA",
                          "CANCELADA"},
           NEW u \in Unidades \cup {NoHay}, Pasa(o, hasta, u)
    PROVE  PatentesInv'
<1> DEFINE f == [ventas[o] EXCEPT !.estado = hasta, !.unidad = u]
<1>1. ventas[o] \in Venta /\ (ventas[o].importe # NoHay => ventas[o].modalidad = "PAGA_CLIENTE")
  BY DEF PatentesInv, PatentesOK
<1>2. f \in Venta /\ f.importe = ventas[o].importe /\ f.modalidad = ventas[o].modalidad
  BY <1>1 DEF Venta, OVERDUE_ELIGIBLE_STATES
<1>3. /\ SinBloqueo(o) /\ ventas' = [ventas EXCEPT ![o] = f]
      /\ UNCHANGED <<placas, enTramite, carreras, hoy>>
  BY DEF Pasa
<1> HIDE DEF f
<1>4. QED
  BY <1>1, <1>2, <1>3, VentaSigue

\* Every request on the life of a sale.
LEMMA VidaSigue ==
    ASSUME PatentesInv, NEW o \in Ventas,
           \/ \E d \in {"APROBADA", "RECHAZADA"} : Decidir(o, d)
           \/ Cerrar(o)
           \/ CancelarVenta(o)
           \/ Soltar(o)
           \/ \E u \in Unidades : assignUnit(o, u)
           \/ \E entregada \in BOOLEAN : Entregar(o, entregada)
    PROVE  PatentesInv' /\ UNCHANGED recibosVars
<1>1. ventas[o] \in Venta /\ (ventas[o].importe # NoHay => ventas[o].modalidad = "PAGA_CLIENTE")
  BY DEF PatentesInv, PatentesOK
<1>2. ventas[o].unidad \in Unidades \cup {NoHay}
  BY <1>1 DEF Venta
<1>3. UNCHANGED recibosVars
  BY DEF Decidir, Cerrar, CancelarVenta, Soltar, assignUnit, Entregar, Pasa, recibosVars
<1>4. CASE \/ \E d \in {"APROBADA", "RECHAZADA"} : Decidir(o, d)
           \/ Cerrar(o)
           \/ CancelarVenta(o)
           \/ Soltar(o)
           \/ \E u \in Unidades : assignUnit(o, u)
  <2>1. \E hasta \in {"PENDIENTE_APROBACION", "APROBADA", "CERRADA", "RECHAZADA",
                      "CANCELADA"}, u \in Unidades \cup {NoHay} : Pasa(o, hasta, u)
    BY <1>2, <1>4 DEF Decidir, Cerrar, CancelarVenta, Soltar, assignUnit
  <2>2. QED
    BY <1>3, <2>1, PasaSigue
<1>5. CASE \E entregada \in BOOLEAN : Entregar(o, entregada)
  <2>1. hoy \in 0..MaxDia
    BY DEF PatentesInv, PatentesOK
  <2>2. PICK d \in 0..MaxDia \cup {NoHay} :
             /\ SinBloqueo(o) /\ UNCHANGED <<placas, enTramite, carreras, hoy>>
             /\ ventas' = [ventas EXCEPT ![o].entregada = d]
    BY <1>5, <2>1 DEF Entregar
  <2> DEFINE f == [ventas[o] EXCEPT !.entregada = d]
  <2>3. /\ f \in Venta /\ f.importe = ventas[o].importe
        /\ f.modalidad = ventas[o].modalidad /\ ventas' = [ventas EXCEPT ![o] = f]
    BY <1>1, <2>2 DEF Venta
  <2> HIDE DEF f
  <2>4. QED
    BY <1>1, <1>3, <2>2, <2>3, VentaSigue
<1>6. QED
  BY <1>4, <1>5

LEMMA updateLicensingSigue ==
    ASSUME PatentesInv, NEW o \in Ventas, NEW modalidad \in {"BONIFICADA", "PAGA_CLIENTE"},
           NEW importe \in Importes \cup {NoHay}, updateLicensing(o, modalidad, importe)
    PROVE  PatentesInv' /\ UNCHANGED recibosVars
<1>1. ventas[o] \in Venta
  BY DEF PatentesInv
<1>2. PICK e \in Nat \cup {NoHay} :
           ventas' = [ventas EXCEPT ![o] = [ventas[o] EXCEPT !.modalidad = modalidad,
                                               !.importe = importe, !.estimada = e]]
  <2>1. (IF ventas[o].estimada = NoHay THEN Plazo ELSE ventas[o].estimada) \in Nat \cup {NoHay}
    BY <1>1, DatosEnviados DEF Venta
  <2>2. QED
    BY <2>1 DEF updateLicensing
<1> DEFINE f == [ventas[o] EXCEPT !.modalidad = modalidad, !.importe = importe, !.estimada = e]
<1>3. f \in Venta /\ f.importe = importe /\ f.modalidad = modalidad
  BY <1>1 DEF Venta
<1>4. /\ SinBloqueo(o) /\ ventas' = [ventas EXCEPT ![o] = f]
      /\ UNCHANGED <<placas, enTramite, carreras, hoy>> /\ UNCHANGED recibosVars
      /\ importe # NoHay => modalidad = "PAGA_CLIENTE"
  BY <1>2 DEF updateLicensing, recibosVars
<1> HIDE DEF f
<1>5. QED
  BY <1>3, <1>4, VentaSigue

\* The lock of an operation is taken by the arrival of a plate, or let go.
LEMMA TramiteSigue ==
    ASSUME PatentesInv, NEW o \in Ventas, NEW t \in Tramite \cup {NoHay},
           enTramite' = [enTramite EXCEPT ![o] = t],
           UNCHANGED <<ventas, placas, hoy>>, carreras \subseteq carreras',
           t # NoHay => /\ ventas[o].unidad # NoHay
                        /\ ~ Duplicada(ventas[o].unidad, t.patente)
                        /\ EnCamino(t.patente) =>
                              normalizeLicensePlate(t.patente) \in carreras'
    PROVE  PatentesInv'
<1>1. /\ enTramite' \in [Ventas -> Tramite \cup {NoHay}] /\ enTramite'[o] = t
      /\ \A x \in Ventas \ {o} : enTramite'[x] = enTramite[x]
  BY DEF PatentesInv
<1>2. PatenteUnica'
  BY DEF PatentesInv, PatenteUnica
<1>3. PatentesOK'
  <2>1. ASSUME NEW x \in Ventas, enTramite'[x] # NoHay
        PROVE  ventas[x].unidad # NoHay
    <3>1. CASE x = o
      BY <1>1, <2>1, <3>1
    <3>2. CASE x # o
      BY <1>1, <2>1, <3>2 DEF PatentesInv, PatentesOK, SinBloqueo
    <3>3. QED
      BY <3>1, <3>2
  <2>2. QED
    BY <2>1 DEF PatentesInv, PatentesOK, SinBloqueo
<1>4. TramitesPatenteOK'
  <2> SUFFICES ASSUME NEW x \in Ventas, enTramite'[x] # NoHay,
                      enTramite'[x].patente.letras \notin carreras'
               PROVE  /\ ~ Duplicada(ventas[x].unidad, enTramite'[x].patente)
                      /\ \A v \in Ventas \ {x} : enTramite'[v] # NoHay =>
                            enTramite'[v].patente.letras # enTramite'[x].patente.letras
    BY DEF TramitesPatenteOK, SinBloqueo, Duplicada, normalizeLicensePlate
  <2>1. CASE x = o
    BY <1>1, <2>1 DEF EnCamino, SinBloqueo, normalizeLicensePlate
  <2>2. CASE x # o
    <3>1. /\ ~ Duplicada(ventas[x].unidad, enTramite[x].patente)
          /\ \A v \in Ventas \ {x} : enTramite[v] # NoHay =>
                enTramite[v].patente.letras # enTramite[x].patente.letras
      BY <1>1, <2>2 DEF PatentesInv, TramitesPatenteOK, SinBloqueo, normalizeLicensePlate
    <3>2. t # NoHay => t.patente.letras # enTramite[x].patente.letras
      BY <1>1, <2>2 DEF EnCamino, SinBloqueo, normalizeLicensePlate
    <3>3. QED
      BY <1>1, <2>2, <3>1, <3>2
  <2>3. QED
    BY <2>1, <2>2
<1>5. QED
  BY <1>1, <1>2, <1>3, <1>4 DEF PatentesInv

\* The next day.
LEMMA DiaSigue ==
    ASSUME PatentesInv, Dia
    PROVE  PatentesInv' /\ UNCHANGED recibosVars
<1>1. hoy \in 0..MaxDia /\ hoy < MaxDia /\ hoy' = hoy + 1 /\ MaxDia \in Nat
  BY DatosEnviados DEF PatentesInv, PatentesOK, Dia
<1>2. hoy' \in 0..MaxDia
  BY <1>1
<1>3. UNCHANGED <<ventas, placas, enTramite, carreras, ingresos, movimientos>>
  BY DEF Dia
<1>4. PatenteUnica'
  BY <1>3, PlacasIguales DEF PatentesInv
<1>5. PatentesOK'
  BY <1>2, <1>3 DEF PatentesInv, PatentesOK, SinBloqueo
<1>6. TramitesPatenteOK'
  BY <1>3 DEF PatentesInv, TramitesPatenteOK, Duplicada, SinBloqueo
<1>7. QED
  BY <1>3, <1>4, <1>5, <1>6 DEF PatentesInv, recibosVars

\* Stock writes a plate, or takes it away; another unit that has it, or is getting
\* it, is in history.
LEMMA updateUnitSigue ==
    ASSUME PatentesInv, NEW u \in Unidades, NEW patente \in Patentes \cup {NoHay},
           updateUnit(u, patente)
    PROVE  PatentesInv' /\ UNCHANGED recibosVars
<1>1. /\ placas' = [placas EXCEPT ![u] = patente] /\ UNCHANGED recibosVars
      /\ UNCHANGED <<ventas, enTramite, hoy>> /\ carreras \subseteq carreras'
      /\ (patente # NoHay /\ (Duplicada(u, patente) \/ EnCamino(patente))) =>
            patente.letras \in carreras'
  BY DEF updateUnit, Anota, normalizeLicensePlate, recibosVars
<1>2. /\ placas' \in [Unidades -> Patentes \cup {NoHay}] /\ placas'[u] = patente
      /\ \A x \in Unidades \ {u} : placas'[x] = placas[x]
  BY <1>1 DEF PatentesInv
<1>3. PatenteUnica'
  <2> SUFFICES ASSUME NEW x \in Unidades, NEW y \in Unidades, x # y,
                      placas'[x] # NoHay, placas'[y] # NoHay,
                      placas'[x].letras = placas'[y].letras
               PROVE  placas'[x].letras \in carreras'
    BY DEF PatenteUnica, normalizeLicensePlate
  <2>1. CASE x = u \/ y = u
    BY <1>1, <1>2, <2>1 DEF Duplicada, normalizeLicensePlate
  <2>2. CASE x # u /\ y # u
    BY <1>1, <1>2, <2>2 DEF PatentesInv, PatenteUnica, normalizeLicensePlate
  <2>3. QED
    BY <2>1, <2>2
<1>4. TramitesPatenteOK'
  <2> SUFFICES ASSUME NEW x \in Ventas, enTramite[x] # NoHay,
                      enTramite[x].patente.letras \notin carreras'
               PROVE  /\ ~ Duplicada(ventas[x].unidad, enTramite[x].patente)'
                      /\ \A v \in Ventas \ {x} : enTramite[v] # NoHay =>
                            enTramite[v].patente.letras # enTramite[x].patente.letras
    BY <1>1 DEF TramitesPatenteOK, SinBloqueo, Duplicada, normalizeLicensePlate
  <2>1. /\ ~ Duplicada(ventas[x].unidad, enTramite[x].patente)
        /\ \A v \in Ventas \ {x} : enTramite[v] # NoHay =>
              enTramite[v].patente.letras # enTramite[x].patente.letras
    BY <1>1 DEF PatentesInv, TramitesPatenteOK, SinBloqueo, normalizeLicensePlate
  <2>2. patente # NoHay => patente.letras # enTramite[x].patente.letras
    BY <1>1 DEF EnCamino, SinBloqueo, normalizeLicensePlate
  <2>3. QED
    BY <1>1, <1>2, <2>1, <2>2 DEF Duplicada, normalizeLicensePlate
<1>5. PatentesOK'
  BY <1>1 DEF PatentesInv, PatentesOK, SinBloqueo
<1>6. QED
  BY <1>1, <1>2, <1>3, <1>4, <1>5 DEF PatentesInv

\* A plate that arrives where another unit has it is one of those that history
\* knows of.
LEMMA RecibePatenteSigue ==
    ASSUME RecibosInv, PatentesInv, NEW o \in Ventas, RecibePatente(o)
    PROVE  RecibosInv' /\ PatentesInv' /\ Conserva /\ NuevosDe(DePatente(o))
<1>1. PICK r : r = enTramite[o]
  OBVIOUS
<1>2. PICK u : u = ventas[o].unidad
  OBVIOUS
<1>3. r # NoHay /\ r \in Tramite /\ u \in Unidades
  <2>1. r # NoHay /\ u # NoHay
    BY <1>1, <1>2 DEF RecibePatente, PatentesInv, PatentesOK, SinBloqueo
  <2>2. r \in Tramite \cup {NoHay} /\ u \in Unidades \cup {NoHay}
    BY <1>1, <1>2 DEF PatentesInv, Venta
  <2>3. QED
    BY <2>1, <2>2
<1>4. r.patente \in Patentes /\ r.cobro \in Cobros
  BY <1>3 DEF Tramite
<1>5. /\ placas' = [placas EXCEPT ![u] = r.patente]
      /\ ventas' = [ventas EXCEPT ![o].recibida = TRUE]
      /\ enTramite' = [enTramite EXCEPT ![o] = NoHay] /\ carreras' = carreras
      /\ hoy' = hoy
      /\ \/ UNCHANGED recibosVars
         \/ r.cobro # NoHay /\ Cobra(DePatente(o), r.cobro.importe, r.cobro.clave)
  BY <1>1, <1>2 DEF RecibePatente
<1>6. RecibosInv' /\ Conserva /\ NuevosDe(DePatente(o))
  <2>1. CASE UNCHANGED recibosVars
    BY <2>1 DEF recibosVars, RecibosInv, RecibosOK, IngresosOK, MovimientosOK, Conserva,
                NuevosDe
  <2>2. CASE r.cobro # NoHay /\ Cobra(DePatente(o), r.cobro.importe, r.cobro.clave)
    <3>1. r.cobro.importe \in Importes \ {0} /\ r.cobro.clave \in Claves
      BY <1>4, <2>2 DEF Cobros
    <3>2. DePatente(o) \in Destinos
      BY DEF DePatente, Destinos
    <3>3. QED
      BY <2>2, <3>1, <3>2, CobraSuma
  <2>3. QED
    BY <1>5, <2>1, <2>2
<1>7. /\ placas' \in [Unidades -> Patentes \cup {NoHay}] /\ placas'[u] = r.patente
      /\ \A x \in Unidades \ {u} : placas'[x] = placas[x]
  BY <1>3, <1>4, <1>5 DEF PatentesInv
<1>8. PatenteUnica'
  <2> SUFFICES ASSUME NEW x \in Unidades, NEW y \in Unidades, x # y,
                      placas'[x] # NoHay, placas'[y] # NoHay,
                      placas'[x].letras = placas'[y].letras
               PROVE  placas'[x].letras \in carreras
    BY <1>5 DEF PatenteUnica, normalizeLicensePlate
  <2>1. CASE x = u \/ y = u
    <3>1. Duplicada(u, r.patente) /\ placas'[x].letras = r.patente.letras
      BY <1>7, <2>1 DEF Duplicada, normalizeLicensePlate
    <3>2. QED
      BY <1>1, <1>2, <1>3, <3>1
      DEF PatentesInv, TramitesPatenteOK, SinBloqueo, normalizeLicensePlate
  <2>2. CASE x # u /\ y # u
    BY <1>7, <2>2 DEF PatentesInv, PatenteUnica, normalizeLicensePlate
  <2>3. QED
    BY <2>1, <2>2
<1>9. ventas[o] \in Venta /\ (ventas[o].importe # NoHay => ventas[o].modalidad = "PAGA_CLIENTE")
  BY DEF PatentesInv, PatentesOK
<1> DEFINE f == [ventas[o] EXCEPT !.recibida = TRUE]
<1>10. /\ f \in Venta /\ f.importe = ventas[o].importe /\ f.modalidad = ventas[o].modalidad
       /\ f.unidad = ventas[o].unidad /\ f.estado = ventas[o].estado
       /\ ventas' = [ventas EXCEPT ![o] = f]
  BY <1>5, <1>9 DEF Venta
<1> HIDE DEF f
<1>11. /\ ventas' \in [Ventas -> Venta]
       /\ \A x \in Ventas : /\ ventas'[x].importe = ventas[x].importe
                            /\ ventas'[x].modalidad = ventas[x].modalidad
                            /\ ventas'[x].unidad = ventas[x].unidad
                            /\ ventas'[x].estado = ventas[x].estado
  BY <1>10 DEF PatentesInv
<1>12. /\ enTramite' \in [Ventas -> Tramite \cup {NoHay}]
       /\ \A x \in Ventas : enTramite'[x] \in {enTramite[x], NoHay}
  BY <1>5 DEF PatentesInv
<1>13. PatentesOK'
  BY <1>5, <1>11, <1>12 DEF PatentesInv, PatentesOK, SinBloqueo
<1>14. TramitesPatenteOK'
  <2> SUFFICES ASSUME NEW x \in Ventas, enTramite'[x] # NoHay,
                      enTramite'[x].patente.letras \notin carreras
               PROVE  /\ ~ Duplicada(ventas[x].unidad, enTramite[x].patente)'
                      /\ \A v \in Ventas \ {x} : enTramite'[v] # NoHay =>
                            enTramite'[v].patente.letras # enTramite'[x].patente.letras
    BY <1>5, <1>11 DEF TramitesPatenteOK, SinBloqueo, Duplicada, normalizeLicensePlate
  <2>1. x # o /\ enTramite'[x] = enTramite[x]
    BY <1>5, <1>12 DEF PatentesInv
  <2>2. /\ ~ Duplicada(ventas[x].unidad, enTramite[x].patente)
        /\ \A v \in Ventas \ {x} : enTramite[v] # NoHay =>
              enTramite[v].patente.letras # enTramite[x].patente.letras
    BY <2>1 DEF PatentesInv, TramitesPatenteOK, SinBloqueo, normalizeLicensePlate
  <2>3. r.patente.letras # enTramite[x].patente.letras
    BY <1>1, <1>3, <2>1, <2>2
  <2>4. ~ Duplicada(ventas[x].unidad, enTramite[x].patente)'
    BY <1>7, <1>11, <2>1, <2>2, <2>3 DEF Duplicada, normalizeLicensePlate
  <2>5. QED
    BY <1>12, <2>1, <2>2, <2>4
<1>15. QED
  BY <1>6, <1>7, <1>8, <1>11, <1>12, <1>13, <1>14 DEF PatentesInv

\* A charge of a plate is none of an order.
LEMMA NoEsService ==
    ASSUME RecibosInv, TallerInv, UNCHANGED tallerVars, NEW o, Conserva,
           NuevosDe(DePatente(o))
    PROVE  TallerInv'
<1>1. \A i \in DOMAIN ingresos' \ DOMAIN ingresos :
          \A x \in Ordenes : ingresos'[i].de.orden # x
  BY NuloAparte DEF NuevosDe, DePatente
<1>2. QED
  BY <1>1, TallerAparte

LEMMA PatentamientoPasa ==
    ASSUME RecibosInv, TallerInv, PatentesInv, quedan \in Presupuesto, Patentamiento,
           UNCHANGED tallerVars
    PROVE  RecibosInv' /\ TallerInv' /\ PatentesInv' /\ quedan' \in Presupuesto
<1>1. UNCHANGED recibosVars => RecibosInv' /\ TallerInv'
  <2>1. UNCHANGED recibosVars =>
            RecibosInv' /\ Conserva /\ DOMAIN ingresos' \ DOMAIN ingresos = {}
    BY DEF recibosVars, RecibosInv, RecibosOK, IngresosOK, MovimientosOK, Conserva
  <2>2. QED
    BY <2>1, TallerAparte
<1>2. CASE /\ Gasta("ventas")
           /\ \E o \in Ventas :
                 \/ \E d \in {"APROBADA", "RECHAZADA"} : Decidir(o, d)
                 \/ Cerrar(o)
                 \/ CancelarVenta(o)
                 \/ Soltar(o)
                 \/ \E u \in Unidades : assignUnit(o, u)
                 \/ \E entregada \in BOOLEAN : Entregar(o, entregada)
  BY <1>1, <1>2, VidaSigue, GastaSigue
<1>3. CASE /\ Gasta("modalidades")
           /\ \E o \in Ventas, i \in Importes \cup {NoHay},
                 modalidad \in {"BONIFICADA", "PAGA_CLIENTE"} :
                    updateLicensing(o, modalidad, i)
  BY <1>1, <1>3, updateLicensingSigue, GastaSigue
<1>4. CASE /\ Gasta("patentes")
           /\ \E o \in Ventas, x \in Patentes, c \in Cobros : registerLicensePlate(o, x, c)
  <2>1. PICK o \in Ventas, x \in Patentes, c \in Cobros : registerLicensePlate(o, x, c)
    BY <1>4
  <2>2. PICK t : t = [patente |-> x, cobro |-> c]
    OBVIOUS
  <2>3. /\ t \in Tramite \cup {NoHay} /\ enTramite' = [enTramite EXCEPT ![o] = t]
        /\ UNCHANGED <<ventas, placas, hoy>> /\ UNCHANGED recibosVars
        /\ ventas[o].unidad # NoHay /\ ~ Duplicada(ventas[o].unidad, t.patente)
        /\ carreras \subseteq carreras'
        /\ EnCamino(t.patente) => normalizeLicensePlate(t.patente) \in carreras'
    BY <2>1, <2>2 DEF registerLicensePlate, Anota, Tramite, recibosVars
  <2>4. QED
    BY <1>1, <1>4, <2>3, TramiteSigue, GastaSigue
<1>5. CASE /\ Gasta("cobros")
           /\ \E o \in Ventas, i \in Importes, k \in Claves : collectLicensing(o, i, k)
  <2>1. PICK o \in Ventas, i \in Importes, k \in Claves : collectLicensing(o, i, k)
    BY <1>5
  <2>2. /\ i \in Importes \ {0} /\ Cobra(DePatente(o), i, k) /\ UNCHANGED patentesVars
    BY <2>1 DEF collectLicensing
  <2>3. DePatente(o) \in Destinos
    BY DEF DePatente, Destinos
  <2>4. RecibosInv' /\ Conserva /\ NuevosDe(DePatente(o))
    BY <2>2, <2>3, CobraSuma
  <2>5. PatentesInv'
    BY <2>2, PatentesIguales
  <2>6. QED
    BY <1>5, <2>4, <2>5, NoEsService, GastaSigue
<1>6. CASE \E o \in Ventas : RecibePatente(o) /\ UNCHANGED quedan
  BY <1>6, RecibePatenteSigue, NoEsService
<1>7. CASE \E o \in Ventas : DeshacerPatente(o) /\ UNCHANGED quedan
  <2>1. PICK o \in Ventas : DeshacerPatente(o)
    BY <1>7
  <2>2. /\ enTramite' = [enTramite EXCEPT ![o] = NoHay] /\ UNCHANGED recibosVars
        /\ UNCHANGED <<ventas, placas, carreras, hoy>>
    BY <2>1 DEF DeshacerPatente, recibosVars
  <2>3. PatentesInv'
    BY <2>2, TramiteSigue
  <2>4. QED
    BY <1>1, <1>7, <2>2, <2>3
<1>8. CASE Gasta("dias") /\ Dia
  BY <1>1, <1>8, DiaSigue, GastaSigue
<1>9. CASE /\ Gasta("stock")
           /\ \E u \in Unidades :
                 \/ \E x \in Patentes \cup {NoHay} : updateUnit(u, x)
                 \/ \E x \in Patentes : createUnit(u, x)
  <2>1. PICK u \in Unidades, x \in Patentes \cup {NoHay} : updateUnit(u, x)
    BY <1>9 DEF createUnit
  <2>2. QED
    BY <1>1, <1>9, <2>1, updateUnitSigue, GastaSigue
<1>10. QED
  BY <1>2, <1>3, <1>4, <1>5, <1>6, <1>7, <1>8, <1>9 DEF Patentamiento

LEMMA AdministracionPasa ==
    ASSUME RecibosInv, TallerInv, PatentesInv, quedan \in Presupuesto, Administracion,
           UNCHANGED <<tallerVars, patentesVars>>
    PROVE  RecibosInv' /\ TallerInv' /\ PatentesInv' /\ quedan' \in Presupuesto
<1>1. PatentesInv'
  BY PatentesIguales
<1>2. quedan' \in Presupuesto
  BY GastaSigue DEF Administracion
<1>3. CASE \E o \in Ventas, i \in Importes \ {0} : createIncome(DePatente(o), i)
  BY <1>1, <1>2, <1>3, createIncomeSuma, NoEsService
<1>4. CASE \E i \in DOMAIN ingresos, monto \in Importes \ {0}, k \in Claves :
              registerCollection(i, monto, k)
  BY <1>1, <1>2, <1>4, registerCollectionEstado, TallerAparte
<1>5. CASE \E m \in movimientos : reverse(m)
  BY <1>1, <1>2, <1>5, reverseEstado, TallerAparte
<1>6. CASE \E i \in DOMAIN ingresos, v \in Ventas \cup {NoHay}, importe \in Importes \ {0} :
              updateIncome(i, v, importe)
  BY <1>1, <1>2, <1>6, updateIncomeEstado, TallerAparte
<1>7. QED
  BY <1>3, <1>4, <1>5, <1>6 DEF Administracion

\* What is added up over incomes is a number.
LEMMA ImportesDeEntero ==
    ASSUME RecibosInv, NEW is, is \subseteq DOMAIN ingresos
    PROVE  ImportesDe(is) \in Int
<1>1. /\ DOMAIN ingresos = 1..Len(ingresos) /\ Len(ingresos) \in Nat
      /\ \A i \in DOMAIN ingresos : ingresos[i].importe \in Importes
  BY LenProperties DEF RecibosInv, RecibosOK, IngresosOK
<1>2. IsFiniteSet(is)
  <2>1. IsFiniteSet(DOMAIN ingresos)
    BY <1>1, FS_Interval
  <2>2. QED
    BY <2>1, FS_Subset
<1>3. ImportesDe(is) = Suma([i \in is |-> ingresos[i].importe], is)
  BY DEF ImportesDe, Suma, MapThenSumSet, MapThenFoldSet
<1> DEFINE F == [i \in is |-> ingresos[i].importe]
<1>4. Enteros(F, is)
  <2>1. Importes \subseteq Int
    BY DatosEnviados
  <2>2. \A i \in is : F[i] \in Importes
    BY <1>1
  <2>3. QED
    BY <2>1, <2>2 DEF Enteros
<1> HIDE DEF F
<1>5. Suma(F, is) \in Int
  BY <1>2, <1>4, SumaEntera
<1>6. QED
  BY <1>3, <1>5 DEF F

\* The queries of the dashboard and the row of the sale decide alike.
LEMMA AvisosIguales ==
    ASSUME RecibosInv, PatentesInv
    PROVE  AvisosComoSeMuestra
<1> SUFFICES ASSUME NEW o \in Ventas, isOverdueEligibleState(o), ~ EnBlanco(o)
             PROVE  /\ o \in licensingCollectionPendingIds
                          <=> licensingPlateStatus(o) = "RECIBIDA_COBRO_PENDIENTE"
                    /\ o \in licensingOverdueWhere
                          <=> licensingPlateStatus(o) = "EN_TRAMITE_VENCIDA"
  BY DEF AvisosComoSeMuestra
<1>1. incomes(o) \subseteq DOMAIN ingresos
  BY DEF incomes
<1>2. PICK s : s = ImportesDe(Pagados(incomes(o)))
  OBVIOUS
<1>3. s \in Int
  BY <1>1, <1>2, ImportesDeEntero DEF Pagados
<1>4. ventas[o].importe # NoHay => ventas[o].importe \in Nat
  BY DatosEnviados DEF PatentesInv, Venta
<1>5. /\ Cardinality(incomes(o)) = 0 <=> incomes(o) = {}
      /\ Cardinality(incomes(o) \ Pagados(incomes(o))) > 0
            <=> Pagados(incomes(o)) # incomes(o)
  <2>1. IsFiniteSet(incomes(o))
    <3>1. DOMAIN ingresos = 1..Len(ingresos) /\ Len(ingresos) \in Nat
      BY LenProperties DEF RecibosInv
    <3>2. IsFiniteSet(DOMAIN ingresos)
      BY <3>1, FS_Interval
    <3>3. QED
      BY <1>1, <3>2, FS_Subset
  <2>2. IsFiniteSet(incomes(o) \ Pagados(incomes(o)))
    BY <2>1, FS_Subset
  <2>3. Cardinality(incomes(o)) = 0 <=> incomes(o) = {}
    BY <2>1, FS_EmptySet
  <2>4. Cardinality(incomes(o) \ Pagados(incomes(o))) > 0
            <=> incomes(o) \ Pagados(incomes(o)) # {}
    BY <2>2, FS_EmptySet, FS_CardinalityType
  <2>5. incomes(o) \ Pagados(incomes(o)) # {} <=> Pagados(incomes(o)) # incomes(o)
    BY DEF Pagados
  <2>6. QED
    BY <2>3, <2>4, <2>5
<1>6. isPlateReceived(o) <=> ventas[o].recibida \/ Placa(o) # NoHay
  BY DEF isPlateReceived, EnBlanco
<1>7. o \in licensingCollectionPendingIds
          <=> /\ ventas[o].modalidad = "PAGA_CLIENTE" /\ isPlateReceived(o)
              /\ ~ collectionCovered(o)
  <2>1. collectionStatus(o) = "PAGADO"
            <=> incomes(o) # {} /\ Pagados(incomes(o)) = incomes(o)
    BY DEF collectionStatus
  <2>2. ventas[o].importe # NoHay => (s >= ventas[o].importe <=> ~ s < ventas[o].importe)
    BY <1>3, <1>4
  <2>3. QED
    BY <1>2, <1>5, <1>6, <2>1, <2>2 DEF licensingCollectionPendingIds, collectionCovered
<1>8. o \in licensingOverdueWhere <=> isLicensingOverdue(o)
  BY <1>6 DEF licensingOverdueWhere, isLicensingOverdue, Placa
<1>9. licensingPlateStatus(o) = "RECIBIDA_COBRO_PENDIENTE"
          <=> /\ ventas[o].modalidad = "PAGA_CLIENTE" /\ isPlateReceived(o)
              /\ ~ collectionCovered(o)
  BY DEF licensingPlateStatus
<1>10. licensingPlateStatus(o) = "EN_TRAMITE_VENCIDA" <=> isLicensingOverdue(o)
  BY DEF licensingPlateStatus, isLicensingOverdue
<1>11. QED
  BY <1>7, <1>8, <1>9, <1>10

-------------------------------------------------------------------------------
(* The reminders *)

\* What a sale or an order does begins a new reminder, or none.
LEMMA OlvidaSigue ==
    ASSUME RecordatoriosInv, OlvidaLlamadas
    PROVE  RecordatoriosInv'
<1>1. avisos' = avisos /\ llamadas' \subseteq llamadas
  BY DEF OlvidaLlamadas
<1>2. ASSUME NEW u \in llamadas' PROVE Aviso(u)' = Aviso(u)
  <2>1. Entregas(u)' = Entregas(u) /\ Servicios(u)' = Servicios(u)
    BY <1>2 DEF OlvidaLlamadas
  <2>2. QED
    BY <2>1, Zenon DEF Aviso
<1>3. \A u \in llamadas' : Aviso(u)' \in avisos'
  BY <1>1, <1>2 DEF RecordatoriosInv
<1>4. QED
  BY <1>1, <1>3 DEF RecordatoriosInv, RecordatoriosOK

\* The office calls about today's reminders, or takes a call back.
LEMMA RecordatoriosPasa ==
    ASSUME RecordatoriosInv, quedan \in Presupuesto, Recordatorios,
           UNCHANGED posventaVars
    PROVE  RecordatoriosInv' /\ quedan' \in Presupuesto
<1>1. quedan' \in Presupuesto
  BY GastaSigue DEF Recordatorios
<1>2. \A u : Aviso(u).unidad = u /\ Aviso(u).etapa \in {"PRIMER_SERVICE", "ANUAL"}
  BY DEF Aviso
<1>3. \A u : Aviso(u)' = Aviso(u)
  <2>1. UNCHANGED <<ordenes, ventas>>
    BY DEF posventaVars, tallerVars, patentesVars
  <2>2. QED
    BY <2>1 DEF Aviso, Servicios, Entregas, OrdenesDe, VentasDe, Recibidas
<1>4. CASE \E a \in Nombrables : resolve(a)
  <2>1. PICK a \in Nombrables : resolve(a)
    BY <1>4
  <2>2. a.unidad \in Unidades /\ a.etapa \in {"PRIMER_SERVICE", "ANUAL"}
    <3>1. PICK u \in quedan.motos : a \in {Aviso(u), [Aviso(u) EXCEPT !.vence = 0]}
      BY <2>1 DEF Nombrables
    <3>2. u \in Unidades
      BY DEF Presupuesto
    <3>3. a.unidad = Aviso(u).unidad /\ a.etapa = Aviso(u).etapa
      BY <3>1 DEF Aviso
    <3>4. QED
      BY <1>2, <3>2, <3>3
  <2>3. avisos' = avisos \cup {a}
    BY <2>1 DEF resolve
  <2>4. a \in list => a = Aviso(a.unidad)
    BY <1>2 DEF list
  <2>5. llamadas' = IF a \in list THEN llamadas \cup {a.unidad} ELSE llamadas
    BY <2>1 DEF resolve
  <2>6. llamadas' \subseteq Unidades /\ \A u \in llamadas' : Aviso(u) \in avisos'
    BY <2>2, <2>3, <2>4, <2>5 DEF RecordatoriosInv
  <2>7. RecordatoriosOK'
    BY <2>2, <2>3 DEF RecordatoriosInv, RecordatoriosOK
  <2>8. QED
    BY <1>1, <1>3, <2>6, <2>7 DEF RecordatoriosInv
<1>5. CASE \E a \in avisos : reopenReminder(a)
  <2>1. PICK a \in avisos : avisos' = avisos \ {a} /\ llamadas' = llamadas \ {a.unidad}
    BY <1>5 DEF reopenReminder
  <2>2. \A u \in llamadas' : Aviso(u) \in avisos'
    BY <1>2, <2>1 DEF RecordatoriosInv
  <2>3. QED
    BY <1>1, <1>3, <2>1, <2>2 DEF RecordatoriosInv, RecordatoriosOK
<1>6. QED
  BY <1>4, <1>5 DEF Recordatorios

LEMMA LlamadaUnaVez ==
    ASSUME RecordatoriosInv
    PROVE  NoSeLlamaDosVeces
<1>1. \A u : Aviso(u).unidad = u
  BY DEF Aviso
<1>2. QED
  BY <1>1 DEF NoSeLlamaDosVeces, pending, list, RecordatoriosInv

-------------------------------------------------------------------------------
(* The inquiries *)

\* Nobody loses the document a request counts on.
Firmes ==
    \A c \in Clientes, doc \in Documentos : DocFirme(c, doc) => DocFirme(c, doc)'

LEMMA DocumentosDe ==
    /\ \A x \in Pedidos : x.doc \in Documentos /\ x.doc # SinDato
    /\ \A c \in Clientes : c # SinDato
BY DatosEnviados, NuloAparte

\* A step adds at most an inquiry, of a new key, and answers that are right.
Agrega(qs, rs) ==
    /\ consultas' = consultas \cup qs /\ respuestas' = respuestas \cup rs
    /\ qs \subseteq Consulta
    /\ \A q \in qs : /\ ConClave(q.clave) = {} /\ DocFirme(q.cliente, q.pedido.doc)'
                     /\ \A x \in qs : x = q
    /\ \A r \in rs : RespuestaOK(r)'

\* The inquiries and the answers there were are still right when clients keep
\* their documents, and so are the new ones that say so.
LEMMA RespuestasSiguen ==
    ASSUME ConsultasInv, Firmes, editados \subseteq editados', NEW qs, NEW rs,
           Agrega(qs, rs)
    PROVE  /\ consultas' \subseteq Consulta
           /\ \A q, x \in consultas' : q.clave = x.clave => q = x
           /\ \A q \in consultas' : DocFirme(q.cliente, q.pedido.doc)'
           /\ \A r \in respuestas' : RespuestaOK(r)'
<1>1. consultas' \subseteq Consulta
  BY DEF ConsultasInv, Agrega
<1>2. ASSUME NEW q \in consultas', NEW x \in consultas', q.clave = x.clave
      PROVE  q = x
  BY <1>2 DEF ConsultasInv, ConClave, Agrega
<1>3. ASSUME NEW q \in consultas'
      PROVE  DocFirme(q.cliente, q.pedido.doc)'
  <2>1. CASE q \in consultas
    <3>1. q \in Consulta /\ DocFirme(q.cliente, q.pedido.doc)
      BY <2>1 DEF ConsultasInv
    <3>2. q.cliente \in Clientes /\ q.pedido.doc \in Documentos
      BY <3>1, DocumentosDe DEF Consulta
    <3>3. PICK c \in Clientes, doc \in Documentos : c = q.cliente /\ doc = q.pedido.doc
      BY <3>2
    <3>4. DocFirme(c, doc)'
      BY <3>1, <3>3 DEF Firmes
    <3>5. QED
      BY <3>3, <3>4
  <2>2. QED
    BY <2>1 DEF Agrega
<1>4. ASSUME NEW r \in respuestas'
      PROVE  RespuestaOK(r)'
  <2>1. CASE r \in respuestas
    <3>1. RespuestaOK(r)
      BY <2>1 DEF ConsultasInv
    <3>2. QED
      BY <3>1 DEF RespuestaOK, ConClave, Agrega
  <2>2. QED
    BY <2>1 DEF Agrega
<1>5. QED
  BY <1>1, <1>2, <1>3, <1>4

\* A step leaves the document of q locked, by it alone, and without clients.
EnPie(q) ==
    LET doc == tramites[q].pedido.doc
    IN  /\ doc \in bloqueos'
        /\ ClientesCon(doc) = {} => ClientesCon(doc)' = {} \/ doc \in editados'
        /\ \A z \in Mostrador \ {q} :
              \/ tramites'[z] = tramites[z]
              \/ En(z, "confirmar")' => tramites'[z].pedido.doc # doc

\* What the other requests found out is still so, if what one does is on a
\* document that none of them locked.
LEMMA OtrosTramites ==
    ASSUME ConsultasInv, Firmes, editados \subseteq editados', consultas \subseteq consultas',
           NEW q \in Mostrador, tramites'[q] = tramites[q], tramites[q] # SinDato,
           En(q, "confirmar") => EnPie(q)
    PROVE  TramiteOK(q)'
<1>1. PICK r : r = tramites[q]
  OBVIOUS
<1>2. /\ r \in EnCurso /\ r # SinDato /\ TramiteOK(q) /\ tramites'[q] = r
  BY <1>1 DEF ConsultasInv
<1>3. PICK doc : doc = r.pedido.doc
  OBVIOUS
<1>4. doc \in Documentos
  BY <1>2, <1>3, DocumentosDe DEF EnCurso
<1>5. r.fase = "releer" => ConClave(r.clave)' # {} \/ doc \in editados'
  BY <1>1, <1>2, <1>3 DEF TramiteOK, ConClave
<1>6. ASSUME r.fase = "confirmar"
      PROVE  /\ doc \in bloqueos'
             /\ \A z \in Mostrador \ {q} :
                   En(z, "confirmar")' => tramites'[z].pedido.doc # doc
             /\ IF r.cliente = SinDato THEN ClientesCon(doc)' = {} \/ doc \in editados'
                ELSE DocFirme(r.cliente, doc)'
  <2>1. En(q, "confirmar")
    BY <1>1, <1>2, <1>6 DEF En
  <2>2. /\ doc \in bloqueos'
        /\ ClientesCon(doc) = {} => ClientesCon(doc)' = {} \/ doc \in editados'
        /\ \A z \in Mostrador \ {q} :
              \/ tramites'[z] = tramites[z]
              \/ En(z, "confirmar")' => tramites'[z].pedido.doc # doc
    BY <1>1, <1>3, <2>1 DEF EnPie
  <2>3. /\ \A z \in Mostrador \ {q} : En(z, "confirmar") => tramites[z].pedido.doc # doc
        /\ IF r.cliente = SinDato THEN ClientesCon(doc) = {} \/ doc \in editados
           ELSE DocFirme(r.cliente, doc)
    BY <1>1, <1>2, <1>3, <1>6 DEF TramiteOK
  <2>4. ASSUME NEW z \in Mostrador \ {q}, En(z, "confirmar")'
        PROVE  tramites'[z].pedido.doc # doc
    <3>1. tramites'[z] # SinDato /\ tramites'[z].fase = "confirmar"
      BY <2>4 DEF En
    <3>2. QED
      BY <2>2, <2>3, <3>1 DEF En
  <2>5. CASE r.cliente = SinDato
    BY <2>2, <2>3, <2>4, <2>5
  <2>6. CASE r.cliente # SinDato
    <3>1. PICK c \in Clientes : c = r.cliente
      BY <1>2, <2>6 DEF EnCurso
    <3>2. DocFirme(c, doc)'
      BY <1>4, <2>3, <2>6, <3>1 DEF Firmes
    <3>3. QED
      BY <2>2, <2>4, <2>6, <3>1, <3>2
  <2>7. QED
    BY <2>5, <2>6
<1>7. QED
  BY <1>2, <1>3, <1>5, <1>6 DEF TramiteOK

\* A client is created, changes its state or its document.
LEMMA ClienteSigue ==
    ASSUME ConsultasInv, NEW c \in Clientes, NEW f \in Cliente,
           clientes' = [clientes EXCEPT ![c] = f],
           UNCHANGED <<bloqueos, consultas, tramites, respuestas>>,
           editados \subseteq editados', editados' \subseteq Documentos,
           f.doc \notin {SinDato} => \A d \in Clientes \ {c} :
               clientes[d] # SinDato => clientes[d].doc # f.doc,
           clientes[c] # SinDato =>
               clientes[c].doc = f.doc \/ {clientes[c].doc, f.doc} \ {SinDato} \subseteq editados',
           clientes[c] = SinDato => f.doc \notin bloqueos
    PROVE  ConsultasInv'
<1>1. /\ clientes' \in [Clientes -> Cliente \cup {SinDato}] /\ clientes'[c] = f
      /\ \A d \in Clientes \ {c} : clientes'[d] = clientes[d]
      /\ f # SinDato
  BY NuloAparte DEF ConsultasInv
<1>2. DocumentosUnicos'
  BY <1>1 DEF ConsultasInv, DocumentosUnicos
<1>3. Firmes
  <2> SUFFICES ASSUME NEW d \in Clientes, NEW doc \in Documentos, DocFirme(d, doc)
               PROVE  DocFirme(d, doc)'
    BY DEF Firmes
  <2>1. CASE d # c
    BY <1>1, <2>1 DEF DocFirme
  <2>2. CASE d = c
    BY <1>1, <2>2, DocumentosDe, NuloAparte DEF DocFirme
  <2>3. QED
    BY <2>1, <2>2
<1>4. /\ consultas' \subseteq Consulta
      /\ \A q, x \in consultas' : q.clave = x.clave => q = x
      /\ \A q \in consultas' : DocFirme(q.cliente, q.pedido.doc)'
      /\ \A r \in respuestas' : RespuestaOK(r)'
  <2>1. Agrega({}, {})
    BY DEF Agrega
  <2>2. QED
    BY <1>3, <2>1, RespuestasSiguen
<1>5. ASSUME NEW doc \in bloqueos, ClientesCon(doc) = {}
      PROVE  ClientesCon(doc)' = {} \/ doc \in editados'
  <2>1. SUFFICES ASSUME NEW d \in Clientes, clientes'[d] # SinDato, clientes'[d].doc = doc
                 PROVE  doc \in editados'
    BY DEF ClientesCon
  <2>2. d = c /\ f.doc = doc
    BY <1>1, <1>5, <2>1 DEF ClientesCon
  <2>3. doc # SinDato
    BY NuloAparte DEF ConsultasInv
  <2>4. clientes[c] # SinDato /\ clientes[c].doc # doc
    BY <1>5, <2>2 DEF ClientesCon
  <2>5. QED
    BY <2>2, <2>3, <2>4
<1>6. ASSUME NEW q \in Mostrador, tramites'[q] # SinDato
      PROVE  TramiteOK(q)'
  <2>1. En(q, "confirmar") => EnPie(q)
    <3>1. En(q, "confirmar") => tramites[q].pedido.doc \in bloqueos
      BY DEF En, ConsultasInv, TramiteOK
    <3>2. QED
      BY <1>5, <3>1 DEF EnPie
  <2>2. QED
    BY <1>3, <1>5, <1>6, <2>1, OtrosTramites
<1>7. QED
  BY <1>1, <1>2, <1>4, <1>6 DEF ConsultasInv

LEMMA ClientesPasa ==
    ASSUME ConsultasInv, NEW c \in Clientes,
           \/ \E doc \in Documentos \cup {SinDato} :
                 createClient(c, doc) \/ updateClient(c, doc)
           \/ \E activo \in BOOLEAN : updateStatus(c, activo)
           \/ \E doc \in Documentos : resolveClient(c, doc),
           UNCHANGED <<consultas, tramites, respuestas>>
    PROVE  ConsultasInv'
<1>1. clientes \in [Clientes -> Cliente \cup {SinDato}] /\ DocumentosUnicos
      /\ SinDato \notin bloqueos /\ editados \subseteq Documentos
  BY NuloAparte DEF ConsultasInv
<1>2. CASE \E doc \in Documentos \cup {SinDato} : createClient(c, doc)
  <2>1. PICK doc \in Documentos \cup {SinDato} : createClient(c, doc)
    BY <1>2
  <2> DEFINE f == [doc |-> doc, activo |-> TRUE]
  <2>2. f \in Cliente /\ f.doc = doc /\ clientes' = [clientes EXCEPT ![c] = f]
    BY <2>1 DEF Cliente, createClient, Alta
  <2>3. /\ clientes[c] = SinDato /\ UNCHANGED <<bloqueos, editados>>
        /\ doc \notin bloqueos /\ Disponible(doc)
    BY <1>1, <2>1 DEF createClient, BloqueaDocumento
  <2>4. doc # SinDato =>
            \A d \in Clientes \ {c} : clientes[d] # SinDato => clientes[d].doc # doc
    BY <2>3 DEF Disponible, ClientesCon
  <2> HIDE DEF f
  <2>5. QED
    BY <1>1, <2>2, <2>3, <2>4, ClienteSigue
<1>3. CASE \E doc \in Documentos \cup {SinDato} : updateClient(c, doc)
  <2>1. PICK doc \in Documentos \cup {SinDato} : updateClient(c, doc)
    BY <1>3
  <2> DEFINE f == [clientes[c] EXCEPT !.doc = doc]
  <2>2. clientes[c] # SinDato /\ clientes[c] \in Cliente
    BY <1>1, <2>1 DEF updateClient
  <2>3. f \in Cliente /\ f.doc = doc /\ clientes' = [clientes EXCEPT ![c] = f]
    BY <2>1, <2>2 DEF Cliente, updateClient
  <2>4. /\ editados' = editados \cup ({doc, clientes[c].doc} \ {SinDato})
        /\ UNCHANGED bloqueos /\ Disponible(doc)
    BY <2>1 DEF updateClient
  <2>5. doc # SinDato =>
            \A d \in Clientes \ {c} : clientes[d] # SinDato => clientes[d].doc # doc
    BY <2>4 DEF Disponible, ClientesCon
  <2>6. editados \subseteq editados' /\ editados' \subseteq Documentos
        /\ {clientes[c].doc, doc} \ {SinDato} \subseteq editados'
    BY <1>1, <2>2, <2>4 DEF Cliente
  <2> HIDE DEF f
  <2>7. QED
    BY <2>2, <2>3, <2>4, <2>5, <2>6, ClienteSigue
<1>4. ASSUME clientes[c] # SinDato, UNCHANGED <<bloqueos, editados>>,
             NEW activo \in BOOLEAN, clientes' = [clientes EXCEPT ![c].activo = activo]
      PROVE  ConsultasInv'
  <2> DEFINE f == [clientes[c] EXCEPT !.activo = activo]
  <2>1. clientes[c] \in Cliente
    BY <1>1, <1>4
  <2>2. f \in Cliente /\ f.doc = clientes[c].doc /\ clientes' = [clientes EXCEPT ![c] = f]
    BY <1>4, <2>1 DEF Cliente
  <2>3. f.doc # SinDato =>
            \A d \in Clientes \ {c} : clientes[d] # SinDato => clientes[d].doc # f.doc
    BY <1>1, <1>4, <2>2 DEF DocumentosUnicos
  <2> HIDE DEF f
  <2>4. QED
    BY <1>1, <1>4, <2>2, <2>3, ClienteSigue
<1>5. CASE \E activo \in BOOLEAN : updateStatus(c, activo)
  BY <1>4, <1>5 DEF updateStatus
<1>6. CASE \E doc \in Documentos : resolveClient(c, doc)
  <2>1. PICK doc \in Documentos : resolveClient(c, doc)
    BY <1>6
  <2>2. doc \notin bloqueos /\ UNCHANGED <<bloqueos, editados>>
    BY <2>1 DEF resolveClient, BloqueaDocumento
  <2>3. CASE ClientesCon(doc) # {}
    <3>1. c \in ClientesCon(doc) /\ clientes' = [clientes EXCEPT ![c].activo = TRUE]
      BY <2>1, <2>3 DEF resolveClient
    <3>2. QED
      BY <1>4, <2>2, <3>1 DEF ClientesCon
  <2>4. CASE ClientesCon(doc) = {}
    <3> DEFINE f == [doc |-> doc, activo |-> TRUE]
    <3>1. f \in Cliente /\ f.doc = doc /\ clientes' = [clientes EXCEPT ![c] = f]
          /\ clientes[c] = SinDato
      BY <2>1, <2>4 DEF Cliente, resolveClient, Alta
    <3>2. \A d \in Clientes \ {c} : clientes[d] # SinDato => clientes[d].doc # doc
      BY <2>4 DEF ClientesCon
    <3> HIDE DEF f
    <3>3. QED
      BY <1>1, <2>2, <3>1, <3>2, ClienteSigue
  <2>5. QED
    BY <2>3, <2>4
<1>7. QED
  BY <1>2, <1>3, <1>5, <1>6

\* A step of p, that goes to t, leaves what other requests locked.
RespetaBloqueos(p, t) ==
    /\ bloqueos' \subseteq Documentos
    /\ \A q \in Mostrador \ {p} : En(q, "confirmar") =>
          LET doc == tramites[q].pedido.doc
          IN  /\ doc \in bloqueos'
              /\ (t # SinDato /\ t.fase = "confirmar") => t.pedido.doc # doc

RespondeBien(rs) ==
    respuestas' = respuestas \cup rs /\ \A r \in rs : RespuestaOK(r)

\* A step of a request that writes no client and no inquiry.
LEMMA PasoSigue ==
    ASSUME ConsultasInv, NEW p \in Mostrador, NEW t \in EnCurso \cup {SinDato},
           tramites' = [tramites EXCEPT ![p] = t],
           UNCHANGED <<clientes, editados, consultas>>, RespetaBloqueos(p, t),
           NEW rs, RespondeBien(rs),
           t # SinDato => TramiteOK(p)'
    PROVE  ConsultasInv'
<1>1. /\ tramites' \in [Mostrador -> EnCurso \cup {SinDato}] /\ tramites'[p] = t
      /\ \A q \in Mostrador \ {p} : tramites'[q] = tramites[q]
  BY DEF ConsultasInv
<1>2. Firmes
  BY DEF Firmes, DocFirme
<1>3. /\ consultas' \subseteq Consulta
      /\ \A q, x \in consultas' : q.clave = x.clave => q = x
      /\ \A q \in consultas' : DocFirme(q.cliente, q.pedido.doc)'
      /\ \A r \in respuestas' : RespuestaOK(r)'
  <2>1. Agrega({}, rs)
    <3>1. \A r \in rs : RespuestaOK(r)'
      BY DEF RespondeBien, RespuestaOK, ConClave
    <3>2. QED
      BY <3>1 DEF Agrega, RespondeBien
  <2>2. QED
    BY <1>2, <2>1, RespuestasSiguen
<1>4. ASSUME NEW q \in Mostrador \ {p}, tramites'[q] # SinDato
      PROVE  TramiteOK(q)'
  <2>1. En(q, "confirmar") => EnPie(q)
    BY <1>1 DEF ClientesCon, En, RespetaBloqueos, EnPie
  <2>2. QED
    BY <1>1, <1>2, <1>4, <2>1, OtrosTramites
<1>5. DocumentosUnicos'
  BY DEF ConsultasInv, DocumentosUnicos
<1>6. QED
  BY <1>1, <1>3, <1>4, <1>5 DEF ConsultasInv, RespetaBloqueos

\* The other requests that locked a document still have it.
LEMMA OtrosBloqueos ==
    ASSUME ConsultasInv, NEW p \in Mostrador, NEW q \in Mostrador \ {p}, En(q, "confirmar")
    PROVE  /\ tramites[q].pedido.doc \in bloqueos
           /\ En(p, "confirmar") => tramites[p].pedido.doc # tramites[q].pedido.doc
BY DEF ConsultasInv, TramiteOK, En

LEMMA MismosBloqueos ==
    ASSUME ConsultasInv, NEW p \in Mostrador, NEW t, t # SinDato => t.fase # "confirmar",
           UNCHANGED bloqueos
    PROVE  RespetaBloqueos(p, t)
BY OtrosBloqueos DEF RespetaBloqueos, ConsultasInv

\* A request whose key has an inquiry is answered with it, or refused.
LEMMA replaySigue ==
    ASSUME ConsultasInv, NEW p \in Mostrador, tramites[p] # SinDato, replay(p),
           ConClave(tramites[p].clave) # {}, UNCHANGED <<clientesVars, consultas>>
    PROVE  ConsultasInv'
<1>1. PICK r : r = tramites[p]
  OBVIOUS
<1>2. PICK q : q = CHOOSE x \in consultas : x.clave = r.clave
  OBVIOUS
<1>3. q \in consultas /\ q.clave = r.clave /\ q \in Consulta
  BY <1>1, <1>2 DEF ConClave, ConsultasInv
<1>4. UNCHANGED <<clientes, editados, bloqueos>>
  BY DEF clientesVars
<1>5. RespetaBloqueos(p, SinDato)
  BY <1>4, MismosBloqueos
<1>6. CASE q.pedido = r.pedido
  <2>1. PICK a : a = [clave |-> r.clave, pedido |-> r.pedido, resultado |-> "consulta",
                      cliente |-> q.cliente]
    OBVIOUS
  <2>2. respuestas' = respuestas \cup {a} /\ tramites' = [tramites EXCEPT ![p] = SinDato]
    BY <1>1, <1>2, <1>6, <2>1 DEF replay, Responde
  <2>3. RespuestaOK(a)
    <3>1. [clave |-> r.clave, pedido |-> r.pedido, cliente |-> q.cliente] = q
      BY <1>3, <1>6 DEF Consulta
    <3>2. QED
      BY <1>3, <2>1, <3>1 DEF RespuestaOK
  <2>4. RespondeBien({a})
    BY <2>2, <2>3 DEF RespondeBien
  <2>5. QED
    BY <1>4, <1>5, <2>2, <2>4, PasoSigue
<1>7. CASE q.pedido # r.pedido
  <2>1. PICK a : a = [clave |-> r.clave, pedido |-> r.pedido, resultado |-> "otro pedido",
                      cliente |-> SinDato]
    OBVIOUS
  <2>2. respuestas' = respuestas \cup {a} /\ tramites' = [tramites EXCEPT ![p] = SinDato]
    BY <1>1, <1>2, <1>7, <2>1 DEF replay, Responde
  <2>3. RespuestaOK(a)
    BY <1>3, <1>7, <2>1 DEF RespuestaOK, ConClave
  <2>4. RespondeBien({a})
    BY <2>2, <2>3 DEF RespondeBien
  <2>5. QED
    BY <1>4, <1>5, <2>2, <2>4, PasoSigue
<1>8. QED
  BY <1>6, <1>7

\* A request goes on to another step.
LEMMA SigueEnOK ==
    ASSUME ConsultasInv, NEW p \in Mostrador, tramites[p] # SinDato,
           NEW fase \in {"registrar", "confirmar", "releer"},
           NEW cliente \in Clientes \cup {SinDato}, SigueEn(p, fase, cliente)
    PROVE  \E t \in EnCurso : /\ t # SinDato => tramites'[p] = t
                              /\ tramites' = [tramites EXCEPT ![p] = t]
                              /\ t.fase = fase /\ t.cliente = cliente
                              /\ t.clave = tramites[p].clave /\ t.pedido = tramites[p].pedido
<1> DEFINE t == [tramites[p] EXCEPT !.fase = fase, !.cliente = cliente]
<1>1. tramites[p] \in EnCurso
  BY DEF ConsultasInv
<1>2. /\ t \in EnCurso /\ t.fase = fase /\ t.cliente = cliente
      /\ t.clave = tramites[p].clave /\ t.pedido = tramites[p].pedido
      /\ tramites' = [tramites EXCEPT ![p] = t]
  BY <1>1 DEF EnCurso, SigueEn
<1> HIDE DEF t
<1>3. tramites'[p] = t
  BY <1>2 DEF ConsultasInv
<1>4. QED
  BY <1>2, <1>3

LEMMA EnviarSigue ==
    ASSUME ConsultasInv, NEW p \in Mostrador, NEW clave \in LlavesConsulta,
           NEW pedido \in Pedidos, Enviar(p, clave, pedido)
    PROVE  ConsultasInv'
<1>1. PICK t : t = [fase |-> "buscar", clave |-> clave, pedido |-> pedido,
                    cliente |-> SinDato]
  OBVIOUS
<1>2. /\ t \in EnCurso /\ t.fase = "buscar" /\ tramites' = [tramites EXCEPT ![p] = t]
      /\ UNCHANGED <<clientes, editados, bloqueos, consultas>>
      /\ RespondeBien({})
  BY <1>1 DEF Enviar, EnCurso, clientesVars, RespondeBien
<1>3. tramites'[p] = t
  BY <1>2 DEF ConsultasInv
<1>4. TramiteOK(p)'
  BY <1>2, <1>3 DEF TramiteOK
<1>5. RespetaBloqueos(p, t)
  BY <1>2, MismosBloqueos
<1>6. QED
  BY <1>2, <1>4, <1>5, PasoSigue

LEMMA findByIdempotencyKeySigue ==
    ASSUME ConsultasInv, NEW p \in Mostrador, findByIdempotencyKey(p)
    PROVE  ConsultasInv'
<1>1. tramites[p] # SinDato /\ UNCHANGED <<clientesVars, consultas>>
  BY DEF findByIdempotencyKey, En
<1>2. CASE ConClave(tramites[p].clave) # {}
  BY <1>1, <1>2, replaySigue DEF findByIdempotencyKey
<1>3. CASE ConClave(tramites[p].clave) = {}
  <2>1. SigueEn(p, "registrar", SinDato) /\ RespondeBien({})
    BY <1>3 DEF findByIdempotencyKey, RespondeBien
  <2>2. PICK t \in EnCurso : /\ t # SinDato => tramites'[p] = t
                             /\ tramites' = [tramites EXCEPT ![p] = t]
                             /\ t.fase = "registrar"
    BY <1>1, <2>1, SigueEnOK
  <2>3. t # SinDato => TramiteOK(p)'
    BY <2>2 DEF TramiteOK
  <2>4. UNCHANGED <<clientes, editados, bloqueos>>
    BY <1>1 DEF clientesVars
  <2>5. RespetaBloqueos(p, t)
    BY <2>2, <2>4, MismosBloqueos
  <2>6. QED
    BY <1>1, <2>1, <2>2, <2>3, <2>4, <2>5, PasoSigue
<1>4. QED
  BY <1>2, <1>3

LEMMA findOrCreateClientSigue ==
    ASSUME ConsultasInv, NEW p \in Mostrador, findOrCreateClient(p)
    PROVE  ConsultasInv'
<1>1. PICK doc : doc = tramites[p].pedido.doc
  OBVIOUS
<1>2. PICK c : c = IF ClientesCon(doc) = {} THEN SinDato
                   ELSE CHOOSE x \in ClientesCon(doc) : TRUE
  OBVIOUS
<1>3. /\ tramites[p] # SinDato /\ tramites[p] \in EnCurso
      /\ doc \notin bloqueos /\ bloqueos' = bloqueos \cup {doc}
      /\ UNCHANGED <<clientes, editados, consultas, respuestas>>
      /\ SigueEn(p, "confirmar", c)
  BY <1>1, <1>2 DEF findOrCreateClient, En, BloqueaDocumento, ConsultasInv
<1>4. doc \in Documentos
  BY <1>1, <1>3, DocumentosDe DEF EnCurso
<1>5. /\ c \in Clientes \cup {SinDato}
      /\ c = SinDato => ClientesCon(doc) = {}
      /\ c # SinDato => DocFirme(c, doc)
  BY <1>2, DocumentosDe DEF ClientesCon, DocFirme
<1>6. PICK t \in EnCurso : /\ t # SinDato => tramites'[p] = t
                           /\ tramites' = [tramites EXCEPT ![p] = t]
                           /\ t.fase = "confirmar" /\ t.cliente = c
                           /\ t.clave = tramites[p].clave /\ t.pedido = tramites[p].pedido
  BY <1>3, <1>5, SigueEnOK
<1>7. RespetaBloqueos(p, t)
  BY <1>1, <1>3, <1>4, <1>6, OtrosBloqueos DEF RespetaBloqueos, ConsultasInv
<1>8. ASSUME t # SinDato PROVE TramiteOK(p)'
  <2>1. tramites'[p] = t /\ t.pedido.doc = doc
    BY <1>1, <1>6, <1>8
  <2>2. \A q \in Mostrador \ {p} : tramites'[q] = tramites[q]
    BY <1>6 DEF ConsultasInv
  <2>3. \A q \in Mostrador \ {p} : En(q, "confirmar")' => tramites'[q].pedido.doc # doc
    BY <1>3, <2>2, OtrosBloqueos DEF En
  <2>4. ClientesCon(doc)' = ClientesCon(doc) /\ (DocFirme(c, doc) => DocFirme(c, doc)')
    BY <1>3 DEF ClientesCon, DocFirme
  <2>5. QED
    BY <1>3, <1>5, <1>6, <2>1, <2>3, <2>4 DEF TramiteOK
<1>9. RespondeBien({})
  BY <1>3 DEF RespondeBien
<1>10. QED
  BY <1>3, <1>6, <1>7, <1>8, <1>9, PasoSigue

LEMMA ReleerSigue ==
    ASSUME ConsultasInv, NEW p \in Mostrador, Releer(p)
    PROVE  ConsultasInv'
<1>1. /\ tramites[p] # SinDato /\ tramites[p].fase = "releer"
      /\ UNCHANGED <<clientesVars, consultas>>
  BY DEF Releer, En
<1>2. CASE ConClave(tramites[p].clave) # {}
  BY <1>1, <1>2, replaySigue DEF Releer
<1>3. CASE ConClave(tramites[p].clave) = {}
  <2>1. PICK a : a = [clave |-> tramites[p].clave, pedido |-> tramites[p].pedido,
                      resultado |-> "conflicto", cliente |-> SinDato]
    OBVIOUS
  <2>2. respuestas' = respuestas \cup {a} /\ tramites' = [tramites EXCEPT ![p] = SinDato]
    BY <1>3, <2>1 DEF Releer, Responde
  <2>3. tramites[p].pedido.doc \in editados
    BY <1>1, <1>3 DEF ConsultasInv, TramiteOK
  <2>4. RespuestaOK(a)
    BY <2>1, <2>3 DEF RespuestaOK
  <2>5. RespondeBien({a})
    BY <2>2, <2>4 DEF RespondeBien
  <2>6. UNCHANGED <<clientes, editados, bloqueos>>
    BY <1>1 DEF clientesVars
  <2>7. RespetaBloqueos(p, SinDato)
    BY <2>6, MismosBloqueos
  <2>8. QED
    BY <1>1, <2>2, <2>5, <2>6, <2>7, PasoSigue
<1>4. QED
  BY <1>2, <1>3

\* The lock of a request that is lost is of nobody else.
LEMMA PerderSigue ==
    ASSUME ConsultasInv, NEW p \in Mostrador, Perder(p)
    PROVE  ConsultasInv'
<1>1. /\ UNCHANGED <<clientes, editados, consultas>> /\ respuestas' = respuestas
      /\ tramites' = [tramites EXCEPT ![p] = SinDato]
      /\ bloqueos' = IF En(p, "confirmar") THEN bloqueos \ {tramites[p].pedido.doc}
                     ELSE bloqueos
  BY DEF Perder
<1>2. RespetaBloqueos(p, SinDato)
  BY <1>1, OtrosBloqueos DEF RespetaBloqueos, ConsultasInv
<1>3. RespondeBien({})
  BY <1>1 DEF RespondeBien
<1>4. QED
  BY <1>1, <1>2, <1>3, PasoSigue

\* The commit of an inquiry, or the violation of an index.
LEMMA createInquirySigue ==
    ASSUME ConsultasInv, NEW p \in Mostrador, NEW c \in Clientes, createInquiry(p, c)
    PROVE  ConsultasInv'
<1>1. PICK r : r = tramites[p]
  OBVIOUS
<1>2. PICK doc : doc = r.pedido.doc
  OBVIOUS
<1>3. /\ r # SinDato /\ r \in EnCurso /\ r.fase = "confirmar"
      /\ IF r.cliente = SinDato THEN clientes[c] = SinDato ELSE c = r.cliente
      /\ bloqueos' = bloqueos \ {doc} /\ UNCHANGED editados
  BY <1>1, <1>2 DEF createInquiry, En, ConsultasInv
<1>4. doc \in Documentos /\ doc # SinDato /\ r.clave \in LlavesConsulta /\ r.pedido \in Pedidos
  BY <1>2, <1>3, DocumentosDe DEF EnCurso
<1>5. /\ doc \in bloqueos
      /\ r.cliente = SinDato => ClientesCon(doc) = {} \/ doc \in editados
      /\ r.cliente # SinDato => DocFirme(r.cliente, doc)
  BY <1>1, <1>2, <1>3 DEF ConsultasInv, TramiteOK
<1>6. \A q \in Mostrador \ {p} : En(q, "confirmar") =>
          tramites[q].pedido.doc \in bloqueos' /\ tramites[q].pedido.doc # doc
  BY <1>1, <1>2, <1>3, OtrosBloqueos DEF En
<1>7. CASE ConClave(r.clave) = {} /\ (r.cliente = SinDato => Disponible(doc))
  <2>1. PICK x : x = [clave |-> r.clave, pedido |-> r.pedido, cliente |-> c]
    OBVIOUS
  <2>2. PICK a : a = [clave |-> r.clave, pedido |-> r.pedido,
                      resultado |-> "consulta", cliente |-> c]
    OBVIOUS
  <2>3. /\ clientes' = IF r.cliente = SinDato THEN Alta(c, doc) ELSE clientes
        /\ consultas' = consultas \cup {x} /\ respuestas' = respuestas \cup {a}
        /\ tramites' = [tramites EXCEPT ![p] = SinDato]
    BY <1>1, <1>2, <1>7, <2>1, <2>2 DEF createInquiry, Responde
  <2>4. /\ clientes' \in [Clientes -> Cliente \cup {SinDato}]
        /\ \A d \in Clientes \ {c} : clientes'[d] = clientes[d]
        /\ clientes[c] # SinDato => clientes'[c] = clientes[c]
        /\ r.cliente # SinDato => clientes' = clientes
        /\ r.cliente = SinDato =>
              /\ clientes[c] = SinDato /\ clientes'[c] # SinDato /\ clientes'[c].doc = doc
              /\ ClientesCon(doc) = {}
    <3>1. CASE r.cliente # SinDato
      BY <2>3, <3>1 DEF ConsultasInv
    <3>2. CASE r.cliente = SinDato
      <4>1. PICK f : f = [doc |-> doc, activo |-> TRUE]
        OBVIOUS
      <4>2. /\ f \in Cliente /\ f.doc = doc /\ clientes' = [clientes EXCEPT ![c] = f]
        BY <1>4, <2>3, <3>2, <4>1 DEF Alta, Cliente
      <4>3. f # SinDato /\ clientes[c] = SinDato /\ ClientesCon(doc) = {}
        BY <1>3, <1>4, <1>7, <3>2, <4>2, NuloAparte DEF Disponible
      <4>4. QED
        BY <3>2, <4>2, <4>3 DEF ConsultasInv
    <3>3. QED
      BY <3>1, <3>2
  <2>5. DocumentosUnicos'
    BY <2>4 DEF ConsultasInv, DocumentosUnicos, ClientesCon
  <2>6. Firmes
    BY <1>3, <2>4 DEF Firmes, DocFirme
  <2>7. DocFirme(c, doc)'
    <3>1. CASE r.cliente = SinDato
      BY <2>4, <3>1 DEF DocFirme
    <3>2. CASE r.cliente # SinDato
      BY <1>3, <1>5, <2>4, <3>2 DEF DocFirme
    <3>3. QED
      BY <3>1, <3>2
  <2>8. x \in Consulta /\ x.clave = r.clave /\ x.cliente = c /\ x.pedido.doc = doc
    BY <1>2, <1>4, <2>1 DEF Consulta
  <2>9. RespuestaOK(a)'
    BY <2>1, <2>2, <2>3 DEF RespuestaOK
  <2>10. /\ consultas' \subseteq Consulta
         /\ \A q, z \in consultas' : q.clave = z.clave => q = z
         /\ \A q \in consultas' : DocFirme(q.cliente, q.pedido.doc)'
         /\ \A z \in respuestas' : RespuestaOK(z)'
    <3>1. Agrega({x}, {a})
      BY <1>7, <2>3, <2>7, <2>8, <2>9 DEF Agrega
    <3>2. QED
      BY <1>3, <2>6, <3>1, RespuestasSiguen
  <2>11. /\ tramites' \in [Mostrador -> EnCurso \cup {SinDato}] /\ tramites'[p] = SinDato
         /\ \A q \in Mostrador \ {p} : tramites'[q] = tramites[q]
    BY <2>3 DEF ConsultasInv
  <2>12. ASSUME NEW q \in Mostrador, tramites'[q] # SinDato
         PROVE  TramiteOK(q)'
    <3>1. q # p /\ tramites'[q] = tramites[q] /\ tramites[q] # SinDato
      BY <2>11, <2>12
    <3>2. ASSUME En(q, "confirmar")
          PROVE  EnPie(q)
      <4>1. PICK d : d = tramites[q].pedido.doc /\ d = tramites'[q].pedido.doc
        BY <3>1
      <4>2. d \in bloqueos' /\ d # doc
        BY <1>6, <3>1, <3>2, <4>1
      <4>3. ClientesCon(d) = {} => ClientesCon(d)' = {}
        BY <2>4, <4>2 DEF ClientesCon
      <4>4. \A z \in Mostrador \ {q} : tramites'[z] = tramites[z] \/ ~ En(z, "confirmar")'
        BY <2>11 DEF En
      <4>5. QED
        BY <4>1, <4>2, <4>3, <4>4 DEF EnPie
    <3>3. QED
      BY <1>3, <2>3, <2>6, <3>1, <3>2, OtrosTramites
  <2>13. QED
    BY <1>3, <2>4, <2>5, <2>10, <2>11, <2>12 DEF ConsultasInv
<1>8. CASE ~ (ConClave(r.clave) = {} /\ (r.cliente = SinDato => Disponible(doc)))
  <2>1. SigueEn(p, "releer", SinDato) /\ UNCHANGED <<clientes, consultas, respuestas>>
    BY <1>1, <1>2, <1>8 DEF createInquiry
  <2>2. PICK t \in EnCurso : /\ t # SinDato => tramites'[p] = t
                             /\ tramites' = [tramites EXCEPT ![p] = t]
                             /\ t.fase = "releer" /\ t.cliente = SinDato
                             /\ t.clave = r.clave /\ t.pedido = r.pedido
    BY <1>1, <1>3, <2>1, SigueEnOK
  <2>3. ConClave(r.clave) # {} \/ doc \in editados
    BY <1>5, <1>8 DEF Disponible
  <2>4. ConClave(r.clave)' = ConClave(r.clave)
    BY <2>1 DEF ConClave
  <2>5. t # SinDato => TramiteOK(p)'
    BY <1>2, <1>3, <2>2, <2>3, <2>4 DEF TramiteOK
  <2>6. RespetaBloqueos(p, t)
    BY <1>3, <1>6, <2>2 DEF RespetaBloqueos, ConsultasInv
  <2>7. RespondeBien({})
    BY <2>1 DEF RespondeBien
  <2>8. QED
    BY <1>3, <2>1, <2>2, <2>5, <2>6, <2>7, PasoSigue
<1>9. QED
  BY <1>7, <1>8

LEMMA ConsultasPasa ==
    ASSUME ConsultasInv, quedan \in Presupuesto, Consultas
    PROVE  ConsultasInv' /\ quedan' \in Presupuesto
<1>1. CASE /\ Gasta("consultas")
           /\ \E p \in Mostrador, k \in LlavesConsulta, x \in Pedidos : Enviar(p, k, x)
  BY <1>1, EnviarSigue, GastaSigue
<1>2. CASE \E p \in Mostrador : Paso(p) /\ UNCHANGED quedan
  BY <1>2, findByIdempotencyKeySigue, findOrCreateClientSigue, createInquirySigue,
     ReleerSigue, PerderSigue DEF Paso
<1>3. CASE /\ Gasta("clientes") /\ UNCHANGED <<consultas, tramites, respuestas>>
           /\ \E c \in Clientes :
                 \/ \E doc \in Documentos \cup {SinDato} :
                       createClient(c, doc) \/ updateClient(c, doc)
                 \/ \E activo \in BOOLEAN : updateStatus(c, activo)
                 \/ \E doc \in Documentos : resolveClient(c, doc)
  BY <1>3, ClientesPasa, GastaSigue
<1>4. QED
  BY <1>1, <1>2, <1>3 DEF Consultas

\* One inquiry of a key, one client of a document that nobody edited.
LEMMA ConsultasCorrectas ==
    ASSUME ConsultasInv
    PROVE  ConsultasOK /\ ConsultaUnaVez
<1>1. ASSUME NEW r \in respuestas, r.resultado = "consulta"
      PROVE  ConClave(r.clave) =
                {[clave |-> r.clave, pedido |-> r.pedido, cliente |-> r.cliente]}
  <2>1. PICK q : q = [clave |-> r.clave, pedido |-> r.pedido, cliente |-> r.cliente]
    OBVIOUS
  <2>2. q \in consultas /\ q.clave = r.clave
    BY <1>1, <2>1 DEF ConsultasInv, RespuestaOK
  <2>3. ConClave(r.clave) = {q}
    BY <2>2 DEF ConClave, ConsultasInv
  <2>4. QED
    BY <2>1, <2>3
<1>2. ASSUME NEW q \in consultas, NEW x \in consultas, q.pedido.doc = x.pedido.doc
      PROVE  q.cliente = x.cliente \/ q.pedido.doc \in editados
  <2>1. q \in Consulta /\ x \in Consulta
    BY DEF ConsultasInv
  <2>2. /\ q.cliente \in Clientes /\ x.cliente \in Clientes
        /\ q.pedido.doc # SinDato
    BY <2>1, DocumentosDe DEF Consulta
  <2>3. DocFirme(q.cliente, q.pedido.doc) /\ DocFirme(x.cliente, x.pedido.doc)
    BY DEF ConsultasInv
  <2>4. QED
    BY <1>2, <2>2, <2>3 DEF DocFirme, ConsultasInv, DocumentosUnicos
<1>3. ConsultaUnaVez
  BY <1>1, <1>2 DEF ConsultaUnaVez, ConsultasInv, RespuestaOK
<1>4. ASSUME NEW doc \in Documentos
      PROVE  Cardinality(ClientesCon(doc)) <= 1
  <2>1. doc # SinDato
    BY NuloAparte
  <2>2. ClientesCon(doc) = {} \/ \E c : ClientesCon(doc) = {c}
    <3>1. \A c, d \in ClientesCon(doc) : c = d
      BY <2>1 DEF ClientesCon, ConsultasInv, DocumentosUnicos
    <3>2. QED
      BY <3>1
  <2>3. Cardinality({}) = 0 /\ \A c : Cardinality({c}) = 1
    BY FS_EmptySet, FS_Singleton
  <2>4. Cardinality(ClientesCon(doc)) \in {0, 1}
    BY <2>2, <2>3, Zenon
  <2>5. QED
    BY <2>4
<1>5. ClientesOK
  BY <1>4 DEF ClientesOK, ConsultasInv, Cliente
<1>6. \A q \in consultas : q.pedido \in Pedidos /\ clientes[q.cliente] # SinDato
  BY DEF ConsultasInv, DocFirme, Consulta
<1>7. ConsultasOK
  BY <1>5, <1>6 DEF ConsultasOK, ConsultasInv, EnCurso
<1>8. QED
  BY <1>3, <1>7

-------------------------------------------------------------------------------
(* The prices *)

\* Policies numbered up to n are n.
LEMMA PorNumero ==
    ASSUME NEW ps, NEW n \in Nat, {p.id : p \in ps} = 1..n,
           \A p, q \in ps : p.id = q.id => p = q
    PROVE  Numeradas(ps) /\ Cardinality(ps) = n
<1> DEFINE f == [i \in 1..n |-> CHOOSE p \in ps : p.id = i]
<1>1. \A i \in 1..n : f[i] \in ps /\ f[i].id = i
  <2> SUFFICES ASSUME NEW i \in 1..n PROVE f[i] \in ps /\ f[i].id = i
    OBVIOUS
  <2>1. \E p \in ps : p.id = i
    OBVIOUS
  <2>2. f[i] = CHOOSE p \in ps : p.id = i
    OBVIOUS
  <2> HIDE DEF f
  <2>3. QED
    BY <2>1, <2>2
<1>2. f \in [1..n -> ps]
  <2>1. f = [i \in 1..n |-> f[i]]
    OBVIOUS
  <2> HIDE DEF f
  <2>2. QED
    BY <1>1, <2>1
<1> HIDE DEF f
<1>3. \A p \in ps : p.id \in 1..n /\ f[p.id] = p
  <2> SUFFICES ASSUME NEW p \in ps PROVE p.id \in 1..n /\ f[p.id] = p
    OBVIOUS
  <2>1. p.id \in 1..n
    OBVIOUS
  <2>2. f[p.id] \in ps /\ f[p.id].id = p.id
    BY <1>1, <2>1
  <2>3. QED
    BY <2>1, <2>2
<1>4. f \in Bijection(1..n, ps)
  BY <1>1, <1>2, <1>3 DEF Bijection, Injection, Surjection, IsInjective
<1>5. ExistsBijection(1..n, ps)
  BY <1>4 DEF ExistsBijection
<1>6. IsFiniteSet(1..n) /\ Cardinality(1..n) = n
  BY FS_Interval
<1>7. IsFiniteSet(ps) /\ Cardinality(ps) = n
  BY <1>5, <1>6, FS_Bijection
<1>8. QED
  BY <1>7 DEF Numeradas

\* p begins later than q, or was created later on the same day.
NoAntes(q, p) == q.desde < p.desde \/ (q.desde = p.desde /\ q.id <= p.id)

\* Among policies there is a last one.
LEMMA HayUltima ==
    ASSUME NEW ps, ps \subseteq Politica, ps # {}, NEW n \in Nat, \A p \in ps : p.id <= n
    PROVE  Ultima(ps) \in ps /\ \A q \in ps : NoAntes(q, Ultima(ps))
<1>1. \A p \in ps : p.desde \in Nat /\ p.desde <= UltimoDia /\ p.id \in Nat
  BY DatosEnviados DEF Politica, Dias
<1>2. PICK p1 \in ps : \A q \in ps : q.desde <= p1.desde
  <2> DEFINE B == {UltimoDia - p.desde : p \in ps}
  <2>1. B \subseteq Nat /\ B # {}
    BY <1>1, DatosEnviados
  <2>2. PICK b \in B : \A m \in B : b <= m
    BY <2>1, HayMenor
  <2>3. PICK p \in ps : b = UltimoDia - p.desde
    BY <2>2
  <2>4. ASSUME NEW q \in ps PROVE q.desde <= p.desde
    <3>1. b <= UltimoDia - q.desde
      BY <2>2
    <3>2. QED
      BY <1>1, <2>3, <3>1, DatosEnviados
  <2>5. QED
    BY <2>4
<1>3. PICK p2 \in ps : p2.desde = p1.desde /\ \A q \in ps : q.desde = p1.desde => q.id <= p2.id
  <2> DEFINE C == {p \in ps : p.desde = p1.desde}
             B == {n - p.id : p \in C}
  <2>1. B \subseteq Nat /\ B # {}
    BY <1>1
  <2>2. PICK b \in B : \A m \in B : b <= m
    BY <2>1, HayMenor
  <2>3. PICK p \in C : b = n - p.id
    BY <2>2
  <2>4. ASSUME NEW q \in C PROVE q.id <= p.id
    <3>1. b <= n - q.id
      BY <2>2
    <3>2. QED
      BY <1>1, <2>3, <3>1
  <2>5. QED
    BY <2>4
<1>4. \A q \in ps : NoAntes(q, p2)
  BY <1>1, <1>2, <1>3 DEF NoAntes
<1>5. QED
  BY <1>4 DEF Ultima, NoAntes

\* Two sets of policies of the same numbers and first days have the same last one.
LEMMA MismaUltima ==
    ASSUME NEW ps, ps \subseteq Politica, NEW qs, qs \subseteq Politica,
           NEW n \in Nat, \A p \in ps \cup qs : p.id <= n, ps # {},
           \A p \in ps : \E q \in qs : q.id = p.id /\ q.desde = p.desde,
           \A q \in qs : \E p \in ps : p.id = q.id /\ p.desde = q.desde
    PROVE  qs # {} /\ Ultima(ps).id = Ultima(qs).id
<1>1. qs # {}
  OBVIOUS
<1>2. PICK p \in ps : p = Ultima(ps) /\ \A x \in ps : NoAntes(x, p)
  BY HayUltima
<1>3. PICK q \in qs : q = Ultima(qs) /\ \A x \in qs : NoAntes(x, q)
  BY <1>1, HayUltima
<1>4. NoAntes(p, q) /\ NoAntes(q, p)
  BY <1>2, <1>3 DEF NoAntes
<1>5. p.id \in Nat /\ q.id \in Nat /\ p.desde \in Nat /\ q.desde \in Nat
  BY DatosEnviados DEF Politica, Dias
<1>6. p.id = q.id
  BY <1>4, <1>5 DEF NoAntes
<1>7. QED
  BY <1>1, <1>2, <1>3, <1>6

\* A step that writes the policy n by hand ends or switches off those of ps.
Crea(n, ps) ==
    /\ n \in Politica /\ n.id = Cardinality(politicas) + 1
    /\ n.activa /\ ~ n.provista /\ n.desde <= n.hasta
    /\ ps = {p \in politicas : /\ p.alcance = n.alcance /\ p.activa
                               /\ p.desde <= n.hasta /\ p.hasta >= n.desde}
    /\ \A p \in ps : p.desde <= n.desde
    /\ politicas' = (politicas \ ps) \cup {Reemplazada(p, n.desde) : p \in ps} \cup {n}

LEMMA CreaDe ==
    ASSUME PreciosInv, NEW alcance \in Alcances, NEW desde \in Dias,
           NEW hasta \in Dias \cup {Siempre}, createPricePolicy(alcance, desde, hasta)
    PROVE  /\ \E n, ps : Crea(n, ps)
           /\ provision' = provision /\ Admisible(politicas)'
<1> DEFINE n == Nueva(alcance, desde, hasta, FALSE)
           ps == {p \in Solapadas(politicas, alcance, desde, hasta) : p.activa}
<1>1. Cardinality(politicas) \in Nat
  BY FS_CardinalityType DEF PreciosInv, Numeradas
<1>2. /\ n \in Politica /\ n.id = Cardinality(politicas) + 1 /\ n.alcance = alcance
      /\ n.activa /\ ~ n.provista /\ n.desde = desde /\ n.hasta = hasta
  BY <1>1 DEF Nueva, Politica
<1>3. ps = {p \in politicas : /\ p.alcance = alcance /\ p.activa
                              /\ p.desde <= hasta /\ p.hasta >= desde}
  BY DEF Solapadas
<1>4. /\ desde <= hasta /\ \A p \in ps : p.desde <= desde
      /\ politicas' = (politicas \ ps) \cup {Reemplazada(p, desde) : p \in ps} \cup {n}
      /\ provision' = provision /\ Admisible(politicas')
  BY DEF createPricePolicy
<1> HIDE DEF n, ps
<1>5. Crea(n, ps)
  BY <1>2, <1>3, <1>4 DEF Crea
<1>6. QED
  BY <1>4, <1>5

\* A replaced policy is switched off, or ends before the new one begins.
LEMMA ReemplazadaEs ==
    ASSUME NEW p \in Politica, NEW desde \in Dias, p.desde <= desde
    PROVE  LET r == Reemplazada(p, desde)
           IN  /\ r \in Politica /\ r.id = p.id /\ r.alcance = p.alcance
               /\ r.desde = p.desde /\ r.provista = p.provista
               /\ p.desde = desde => ~ r.activa
               /\ p.desde < desde => r.activa = p.activa /\ r.hasta = desde - 1
<1>1. p.desde \in Nat /\ desde \in Nat /\ desde <= UltimoDia /\ UltimoDia \in Nat
  BY DatosEnviados DEF Politica, Dias
<1>2. CASE p.desde = desde
  <2>1. PICK r : r = [p EXCEPT !.activa = FALSE]
    OBVIOUS
  <2>2. /\ r \in Politica /\ r.id = p.id /\ r.alcance = p.alcance /\ r.desde = p.desde
        /\ r.provista = p.provista /\ ~ r.activa
    BY <2>1 DEF Politica
  <2>3. Reemplazada(p, desde) = r /\ ~ (p.desde < desde)
    BY <1>1, <1>2, <2>1 DEF Reemplazada
  <2>4. QED
    BY <2>2, <2>3
<1>3. CASE p.desde # desde
  <2>1. desde - 1 \in Dias /\ p.desde < desde
    BY <1>1, <1>3 DEF Dias
  <2>2. QED
    BY <1>1, <1>3, <2>1 DEF Reemplazada, Politica
<1>4. QED
  BY <1>2, <1>3

\* Where the policies of a step that creates one come from.
LEMMA OrigenDe ==
    ASSUME PreciosInv, NEW n, NEW ps, Crea(n, ps)
    PROVE  /\ n \in politicas' /\ n \in Politica /\ n.desde \in Dias
           /\ ps \subseteq politicas /\ politicas \subseteq Politica
           /\ \A p \in politicas \ ps : p \in politicas'
           /\ \A p \in ps : Reemplazada(p, n.desde) \in politicas'
           /\ \A x \in politicas' :
                 \/ x = n
                 \/ x \in politicas \ ps
                 \/ \E p \in ps : x = Reemplazada(p, n.desde)
BY DEF Crea, PreciosInv, Politica

LEMMA CreaNumera ==
    ASSUME PreciosInv, NEW n, NEW ps, Crea(n, ps)
    PROVE  politicas' \subseteq Politica /\ Numeradas(politicas)'
             /\ Cardinality(politicas') = Cardinality(politicas) + 1
<1>1. PICK c \in Nat : c = Cardinality(politicas)
  BY FS_CardinalityType DEF PreciosInv, Numeradas
<1>2. /\ {p.id : p \in politicas} = 1..c
      /\ \A p, q \in politicas : p.id = q.id => p = q
  BY <1>1 DEF PreciosInv, Numeradas
<1>3. n.id = c + 1 /\ \A p \in ps : p.desde <= n.desde
  BY <1>1 DEF Crea
<1>4. \A p \in ps : Reemplazada(p, n.desde) \in Politica /\ Reemplazada(p, n.desde).id = p.id
  BY <1>3, OrigenDe, ReemplazadaEs
<1>5. \A p \in politicas : p.id \in 1..c
  BY <1>2
<1>6. politicas' \subseteq Politica
  BY <1>4, OrigenDe
<1>7. ASSUME NEW x \in politicas'
      PROVE  \/ x = n
             \/ \E p \in politicas : p.id = x.id /\ x = IF p \in ps THEN Reemplazada(p, n.desde)
                                                        ELSE p
  BY <1>4, OrigenDe
<1>8. ASSUME NEW x \in politicas', NEW y \in politicas', x.id = y.id
      PROVE  x = y
  <2>1. CASE x = n \/ y = n
    <3>1. \A z \in politicas' : z # n => z.id # n.id
      BY <1>3, <1>5, <1>7
    <3>2. QED
      BY <1>8, <2>1, <3>1
  <2>2. CASE x # n /\ y # n
    <3>1. PICK p \in politicas :
               p.id = x.id /\ x = IF p \in ps THEN Reemplazada(p, n.desde) ELSE p
      BY <1>7, <2>2
    <3>2. PICK q \in politicas :
               q.id = y.id /\ y = IF q \in ps THEN Reemplazada(q, n.desde) ELSE q
      BY <1>7, <2>2
    <3>3. p = q
      BY <1>2, <1>8, <3>1, <3>2
    <3>4. QED
      BY <3>1, <3>2, <3>3
  <2>3. QED
    BY <2>1, <2>2
<1>9. {p.id : p \in politicas'} = 1..(c + 1)
  <2>1. \A x \in politicas' : x.id \in 1..(c + 1)
    BY <1>3, <1>5, <1>7
  <2>2. ASSUME NEW i \in 1..(c + 1) PROVE \E x \in politicas' : x.id = i
    <3>1. CASE i = c + 1
      BY <1>3, <3>1, OrigenDe
    <3>2. CASE i # c + 1
      <4>1. PICK p \in politicas : p.id = i
        BY <1>2, <3>2
      <4>2. QED
        BY <1>4, <4>1, OrigenDe
    <3>3. QED
      BY <3>1, <3>2
  <2>3. QED
    BY <2>1, <2>2
<1>10. PICK qs : qs = politicas'
  OBVIOUS
<1>11. Numeradas(qs) /\ Cardinality(qs) = c + 1
  <2>1. {p.id : p \in qs} = 1..(c + 1) /\ \A p, q \in qs : p.id = q.id => p = q
    BY <1>8, <1>9, <1>10
  <2>2. c + 1 \in Nat
    OBVIOUS
  <2>3. QED
    BY <2>1, <2>2, PorNumero
<1>12. QED
  BY <1>1, <1>6, <1>10, <1>11 DEF Numeradas

\* The policies a step creates by hand overlap none of their scope.
LEMMA CreaSinSolapes ==
    ASSUME PreciosInv, NEW n, NEW ps, Crea(n, ps)
    PROVE  SinSolapes'
<1>1. n.desde \in Nat /\ n.hasta \in Nat /\ \A p \in politicas : p.desde \in Nat /\ p.hasta \in Nat
  BY OrigenDe, DatosEnviados DEF Politica, Dias, Siempre
<1>2. \A p \in ps : /\ p.alcance = n.alcance /\ p.activa /\ p.hasta >= n.desde
                    /\ p.desde <= n.desde
  BY DEF Crea
<1>3. /\ n.desde <= n.hasta /\ n.activa /\ ~ n.provista
      /\ \A p \in politicas \ ps : (p.alcance = n.alcance /\ p.activa) =>
            p.desde > n.hasta \/ p.hasta < n.desde
  BY <1>1 DEF Crea
<1>4. \A p \in ps : LET r == Reemplazada(p, n.desde)
                    IN  /\ r.alcance = p.alcance /\ r.desde = p.desde
                        /\ r.provista = p.provista
                        /\ r.activa => r.hasta = n.desde - 1
  <2> SUFFICES ASSUME NEW p \in ps
               PROVE  LET r == Reemplazada(p, n.desde)
                      IN  /\ r.alcance = p.alcance /\ r.desde = p.desde
                          /\ r.provista = p.provista
                          /\ r.activa => r.hasta = n.desde - 1
    OBVIOUS
  <2>1. p \in Politica /\ n.desde \in Dias /\ p.desde <= n.desde
    BY <1>2, OrigenDe
  <2>2. p.desde = n.desde \/ p.desde < n.desde
    BY <1>1, <2>1, OrigenDe
  <2>3. QED
    BY <2>1, <2>2, ReemplazadaEs
<1>5. \A p, q \in politicas :
          (p # q /\ p.alcance = q.alcance /\ p.activa /\ q.activa
              /\ ~ p.provista /\ ~ q.provista)
          => p.hasta < q.desde \/ q.hasta < p.desde
  BY DEF PreciosInv, SinSolapes
<1>6. ASSUME NEW x \in politicas', NEW y \in politicas', x # y, x.alcance = y.alcance,
             x.activa, y.activa, ~ x.provista, ~ y.provista
      PROVE  x.hasta < y.desde \/ y.hasta < x.desde
  <2>1. /\ x = n \/ x \in politicas \ ps \/ \E p \in ps : x = Reemplazada(p, n.desde)
        /\ y = n \/ y \in politicas \ ps \/ \E p \in ps : y = Reemplazada(p, n.desde)
        /\ ps \subseteq politicas
    BY OrigenDe
  <2>2. ASSUME NEW p \in ps, NEW q \in politicas \ ps, p.alcance = q.alcance, q.activa,
               ~ p.provista, ~ q.provista
        PROVE  n.desde - 1 < q.desde \/ q.hasta < p.desde
    <3>1. p.hasta < q.desde \/ q.hasta < p.desde
      BY <1>2, <1>5, <2>1, <2>2
    <3>2. QED
      BY <1>1, <1>2, <2>1, <3>1
  <2>3. ASSUME NEW p \in ps, NEW q \in ps, ~ p.provista, ~ q.provista
        PROVE  p = q
    <3>1. p # q => p.hasta < q.desde \/ q.hasta < p.desde
      BY <1>2, <1>5, <2>1, <2>3
    <3>2. QED
      BY <1>1, <1>2, <2>1, <3>1
  <2>4. CASE x = n
    <3>1. CASE y \in politicas \ ps
      BY <1>1, <1>3, <1>6, <2>4, <3>1
    <3>2. CASE \E p \in ps : y = Reemplazada(p, n.desde)
      BY <1>1, <1>4, <1>6, <2>4, <3>2
    <3>3. QED
      BY <1>6, <2>1, <2>4, <3>1, <3>2
  <2>5. CASE x \in politicas \ ps
    <3>1. CASE y = n
      BY <1>1, <1>3, <1>6, <2>5, <3>1
    <3>2. CASE y \in politicas \ ps
      BY <1>5, <1>6, <2>5, <3>2
    <3>3. CASE \E p \in ps : y = Reemplazada(p, n.desde)
      <4>1. PICK p \in ps : y = Reemplazada(p, n.desde)
        BY <3>3
      <4>2. y.hasta = n.desde - 1 /\ y.desde = p.desde /\ p.alcance = x.alcance /\ ~ p.provista
        BY <1>4, <1>6, <4>1
      <4>3. QED
        BY <1>6, <2>2, <2>5, <4>2
    <3>4. QED
      BY <2>1, <3>1, <3>2, <3>3
  <2>6. CASE \E p \in ps : x = Reemplazada(p, n.desde)
    <3>1. PICK p \in ps : x = Reemplazada(p, n.desde)
      BY <2>6
    <3>2. x.hasta = n.desde - 1 /\ x.desde = p.desde /\ p.alcance = x.alcance /\ ~ p.provista
      BY <1>4, <1>6, <3>1
    <3>3. CASE y = n
      BY <1>1, <3>2, <3>3
    <3>4. CASE y \in politicas \ ps
      BY <1>6, <2>2, <3>2, <3>4
    <3>5. CASE \E q \in ps : y = Reemplazada(q, n.desde)
      <4>1. PICK q \in ps : y = Reemplazada(q, n.desde)
        BY <3>5
      <4>2. ~ q.provista
        BY <1>4, <1>6, <4>1
      <4>3. p = q
        BY <2>3, <3>2, <4>2
      <4>4. QED
        BY <1>6, <3>1, <4>1, <4>3
    <3>6. QED
      BY <2>1, <3>3, <3>4, <3>5
  <2>7. QED
    BY <2>1, <2>4, <2>5, <2>6
<1>7. QED
  BY <1>6 DEF SinSolapes

\* The day a policy begins, and in its scope, the days before are as they were.
LEMMA DiasDeAntes ==
    ASSUME PreciosInv, NEW n, NEW ps, Crea(n, ps), NEW z, NEW d \in Dias,
           d < n.desde \/ z # n.alcance, NEW A, NEW B,
           A = activePricePolicyWhere(politicas, z, d),
           B = activePricePolicyWhere(politicas', z, d)
    PROVE  /\ A = {} <=> B = {}
           /\ A # {} => Ultima(A).id = Ultima(B).id
<1>1. /\ n.desde \in Nat /\ n.hasta \in Nat /\ d \in Nat
      /\ \A p \in politicas : p.desde \in Nat /\ p.hasta \in Nat
  BY OrigenDe, DatosEnviados DEF Politica, Dias, Siempre
<1>2. /\ A = {p \in politicas : p.alcance = z /\ p.desde <= d /\ p.hasta >= d /\ p.activa}
      /\ B = {p \in politicas' : p.alcance = z /\ p.desde <= d /\ p.hasta >= d /\ p.activa}
  BY DEF activePricePolicyWhere, Solapadas
<1>3. \A p \in ps : /\ p.alcance = n.alcance /\ p.activa /\ p.hasta >= n.desde
                    /\ p.desde <= n.desde
  BY DEF Crea
<1>4. ASSUME NEW p \in ps
      PROVE  LET r == Reemplazada(p, n.desde)
             IN  /\ r \in politicas' /\ r.id = p.id /\ r.alcance = p.alcance
                 /\ r.desde = p.desde
                 /\ p.desde = n.desde => ~ r.activa
                 /\ p.desde < n.desde => r.activa /\ r.hasta = n.desde - 1
  <2>1. p \in Politica /\ n.desde \in Dias /\ p.desde <= n.desde /\ p.activa
    BY <1>3, OrigenDe
  <2>2. Reemplazada(p, n.desde) \in politicas'
    BY OrigenDe
  <2>3. QED
    BY <2>1, <2>2, ReemplazadaEs
<1>5. ASSUME NEW p \in A
      PROVE  \E q \in B : q.id = p.id /\ q.desde = p.desde
  <2>1. CASE p \notin ps
    BY <1>2, <2>1, OrigenDe
  <2>2. CASE p \in ps
    <3>1. PICK r : r = Reemplazada(p, n.desde)
      OBVIOUS
    <3>2. d < n.desde /\ p.desde < n.desde
      BY <1>1, <1>2, <1>3, <2>2
    <3>3. /\ r \in politicas' /\ r.id = p.id /\ r.alcance = p.alcance /\ r.desde = p.desde
          /\ r.activa /\ r.hasta = n.desde - 1
      BY <1>4, <2>2, <3>1, <3>2
    <3>4. n.desde - 1 >= d
      BY <1>1, <3>2
    <3>5. r \in B
      BY <1>2, <3>3, <3>4
    <3>6. QED
      BY <3>3, <3>5
  <2>3. QED
    BY <2>1, <2>2
<1>6. ASSUME NEW q \in B
      PROVE  \E p \in A : p.id = q.id /\ p.desde = q.desde
  <2>1. q \in politicas' /\ q.alcance = z /\ q.desde <= d /\ q.hasta >= d /\ q.activa
    BY <1>2
  <2>2. q # n
    BY <1>1, <2>1
  <2>3. CASE q \in politicas \ ps
    BY <1>2, <2>1, <2>3
  <2>4. CASE \E p \in ps : q = Reemplazada(p, n.desde)
    <3>1. PICK p \in ps : q = Reemplazada(p, n.desde)
      BY <2>4
    <3>2. p \in politicas
      BY OrigenDe
    <3>3. /\ q.id = p.id /\ p.alcance = z /\ q.desde = p.desde
          /\ p.desde = n.desde => ~ q.activa
          /\ p.desde < n.desde => q.hasta = n.desde - 1
      BY <1>4, <2>1, <3>1
    <3>4. p.desde < n.desde
      BY <1>1, <1>3, <2>1, <3>2, <3>3
    <3>5. p.hasta >= d /\ p.desde <= d /\ p.activa
      BY <1>1, <1>3, <2>1, <3>2, <3>3, <3>4
    <3>6. p \in A
      BY <1>2, <3>2, <3>3, <3>5
    <3>7. QED
      BY <3>3, <3>6
  <2>5. QED
    BY <2>1, <2>2, <2>3, <2>4, OrigenDe
<1>7. PICK m \in Nat : m = Cardinality(politicas) + 1
  BY FS_CardinalityType DEF PreciosInv, Numeradas
<1>8. A \subseteq Politica /\ B \subseteq Politica /\ \A p \in A \cup B : p.id <= m
  <2>1. Cardinality(politicas) \in Nat
    BY FS_CardinalityType DEF PreciosInv, Numeradas
  <2>2. A \subseteq politicas /\ B \subseteq politicas'
    BY <1>2
  <2>3. \A p \in politicas : p.id \in 1..Cardinality(politicas)
    BY DEF PreciosInv, Numeradas
  <2>4. \A p \in politicas' : p.id \in 1..Cardinality(politicas')
    BY CreaNumera DEF Numeradas
  <2>5. Cardinality(politicas') = m /\ politicas' \subseteq Politica /\ politicas \subseteq Politica
    BY <1>7, CreaNumera, OrigenDe
  <2>6. QED
    BY <1>7, <2>1, <2>2, <2>3, <2>4, <2>5
<1>9. A = {} <=> B = {}
  BY <1>5, <1>6
<1>10. A # {} => Ultima(A).id = Ultima(B).id
  BY <1>5, <1>6, <1>8, MismaUltima
<1>11. QED
  BY <1>9, <1>10

\* In its range and its scope, the new policy is alone.
LEMMA SuRango ==
    ASSUME PreciosInv, NEW n, NEW ps, Crea(n, ps), NEW d \in Dias,
           n.desde <= d, d <= n.hasta
    PROVE  activePricePolicyWhere(politicas', n.alcance, d) = {n}
<1>1. /\ n.desde \in Nat /\ n.hasta \in Nat /\ d \in Nat
      /\ \A p \in politicas : p.desde \in Nat /\ p.hasta \in Nat
  BY OrigenDe, DatosEnviados DEF Politica, Dias, Siempre
<1>2. activePricePolicyWhere(politicas', n.alcance, d) =
         {p \in politicas' : p.alcance = n.alcance /\ p.desde <= d /\ p.hasta >= d /\ p.activa}
  BY DEF activePricePolicyWhere, Solapadas
<1>3. n \in politicas' /\ n.activa /\ n.hasta >= d
  BY <1>1, OrigenDe DEF Crea
<1>4. ASSUME NEW q \in politicas', q.alcance = n.alcance, q.desde <= d, q.hasta >= d, q.activa
      PROVE  q = n
  <2>1. q \notin politicas \ ps
    <3>1. \A p \in politicas \ ps : ~ (/\ p.alcance = n.alcance /\ p.activa
                                       /\ p.desde <= n.hasta /\ p.hasta >= n.desde)
      BY DEF Crea
    <3>2. q \in politicas => q.desde <= n.hasta /\ q.hasta >= n.desde
      BY <1>1, <1>4
    <3>3. QED
      BY <1>4, <3>1, <3>2
  <2>2. ASSUME NEW p \in ps PROVE q # Reemplazada(p, n.desde)
    <3>1. p \in Politica /\ n.desde \in Dias /\ p.desde <= n.desde /\ p \in politicas
      BY OrigenDe DEF Crea
    <3>2. p.desde = n.desde \/ p.desde < n.desde
      BY <1>1, <3>1
    <3>3. ~ Reemplazada(p, n.desde).activa \/ Reemplazada(p, n.desde).hasta = n.desde - 1
      BY <3>1, <3>2, ReemplazadaEs
    <3>4. q.hasta # n.desde - 1
      BY <1>1, <1>4
    <3>5. QED
      BY <1>4, <3>3, <3>4
  <2>3. QED
    BY <2>1, <2>2, OrigenDe
<1>5. QED
  BY <1>2, <1>3, <1>4

LEMMA CreaNoReescribe ==
    ASSUME PreciosInv, NEW n, NEW ps, Crea(n, ps)
    PROVE  NoReescribe
<1>1. PICK c \in Nat : c = Cardinality(politicas)
  BY FS_CardinalityType DEF PreciosInv, Numeradas
<1>2. n.id = c + 1 /\ \A p \in politicas : p.id <= c
  BY <1>1 DEF Crea, PreciosInv, Numeradas
<1>3. ASSUME NEW x \in politicas' \ politicas, x.id > c
      PROVE  x = n
  <2>1. ASSUME NEW p \in ps PROVE Reemplazada(p, n.desde).id <= c
    <3>1. p \in Politica /\ n.desde \in Dias /\ p.desde <= n.desde /\ p \in politicas
      BY OrigenDe DEF Crea
    <3>2. QED
      BY <1>2, <3>1, ReemplazadaEs
  <2>2. \A p \in ps : Reemplazada(p, n.desde).id \in Nat
    BY OrigenDe, ReemplazadaEs DEF Crea, Politica
  <2>3. QED
    BY <1>3, <2>1, <2>2, OrigenDe
<1>4. ASSUME NEW s \in Alcances, NEW d \in Dias, d < n.desde \/ n.alcance \notin {s, DeTodas}
      PROVE  findEffectivePricePolicy(politicas', s, d) = findEffectivePricePolicy(politicas, s, d)
  <2>1. PICK A : A = activePricePolicyWhere(politicas, s, d)
    OBVIOUS
  <2>2. PICK B : B = activePricePolicyWhere(politicas', s, d)
    OBVIOUS
  <2>3. PICK C : C = activePricePolicyWhere(politicas, DeTodas, d)
    OBVIOUS
  <2>4. PICK D : D = activePricePolicyWhere(politicas', DeTodas, d)
    OBVIOUS
  <2>5. (A = {} <=> B = {}) /\ (A # {} => Ultima(A).id = Ultima(B).id)
    BY <1>4, <2>1, <2>2, DiasDeAntes
  <2>6. (C = {} <=> D = {}) /\ (C # {} => Ultima(C).id = Ultima(D).id)
    BY <1>4, <2>3, <2>4, DiasDeAntes
  <2>7. findEffectivePricePolicy(politicas, s, d) =
           IF A # {} THEN {Ultima(A).id} ELSE IF C # {} THEN {Ultima(C).id} ELSE {}
    BY <2>1, <2>3 DEF findEffectivePricePolicy
  <2>8. findEffectivePricePolicy(politicas', s, d) =
           IF B # {} THEN {Ultima(B).id} ELSE IF D # {} THEN {Ultima(D).id} ELSE {}
    BY <2>2, <2>4 DEF findEffectivePricePolicy
  <2>9. QED
    BY <2>5, <2>6, <2>7, <2>8
<1>5. ASSUME NEW d \in Dias, ~ (d < n.desde), d <= n.hasta
      PROVE  findEffectivePricePolicy(politicas', n.alcance, d) = {n.id}
  <2>1. n.desde <= d
    BY <1>5, OrigenDe, DatosEnviados DEF Dias
  <2>2. activePricePolicyWhere(politicas', n.alcance, d) = {n}
    BY <1>5, <2>1, SuRango
  <2>3. Ultima({n}) = n
    <3>1. n \in Politica
      BY OrigenDe
    <3>2. {n} \subseteq Politica /\ \A p \in {n} : p.id <= c + 1
      BY <1>2, <3>1
    <3>3. Ultima({n}) \in {n}
      BY <3>2, HayUltima
    <3>4. QED
      BY <3>3
  <2>4. QED
    BY <2>2, <2>3 DEF findEffectivePricePolicy
<1>6. QED
  BY <1>1, <1>3, <1>4, <1>5 DEF NoReescribe

\* A provisioned policy says so, and no policy by hand changes.
LEMMA ProveeSigue ==
    ASSUME PreciosInv, Provee
    PROVE  PreciosInv' /\ NoReescribe /\ SinSolapes'
<1>1. PICK c \in Nat : c = Cardinality(politicas)
  BY FS_CardinalityType DEF PreciosInv, Numeradas
<1>2. PICK n : n = Nueva(DeTodas, provision, Siempre, TRUE)
  OBVIOUS
<1>3. /\ n \in Politica /\ n.id = c + 1 /\ n.provista
  <2>1. provision \in Dias
    BY DEF Provee, PreciosInv, PreciosOK
  <2>2. QED
    BY <1>1, <1>2, <2>1 DEF Nueva, Politica, Alcances
<1>4. politicas' = politicas \cup {n} /\ provision' = Siempre /\ Admisible(politicas')
  BY <1>2 DEF Provee
<1>5. /\ {p.id : p \in politicas} = 1..c /\ politicas \subseteq Politica
      /\ \A p, q \in politicas : p.id = q.id => p = q
  BY <1>1 DEF PreciosInv, Numeradas
<1>6. PICK qs : qs = politicas'
  OBVIOUS
<1>7. {p.id : p \in qs} = 1..(c + 1) /\ \A p, q \in qs : p.id = q.id => p = q
  <2>1. \A p \in politicas : p.id \in 1..c
    BY <1>5
  <2>2. \A i \in 1..c : \E p \in politicas : p.id = i
    BY <1>5
  <2>3. \A p \in qs : p.id \in 1..(c + 1)
    BY <1>3, <1>4, <1>6, <2>1
  <2>4. \A i \in 1..(c + 1) : \E p \in qs : p.id = i
    BY <1>3, <1>4, <1>6, <2>2
  <2>5. {p.id : p \in qs} = 1..(c + 1)
    BY <2>3, <2>4
  <2>6. \A p, q \in qs : p.id = q.id => p = q
    BY <1>3, <1>4, <1>5, <1>6, <2>1
  <2>7. QED
    BY <2>5, <2>6
<1>8. Numeradas(qs)
  <2>1. c + 1 \in Nat
    OBVIOUS
  <2>2. QED
    BY <1>7, <2>1, PorNumero
<1>9. Numeradas(politicas)' /\ politicas' \subseteq Politica
  BY <1>3, <1>4, <1>5, <1>6, <1>8 DEF Numeradas
<1>10. SinSolapes'
  BY <1>3, <1>4 DEF PreciosInv, SinSolapes
<1>11. NoReescribe
  BY <1>3, <1>4 DEF NoReescribe
<1>12. PreciosOK'
  <2>1. \A p \in politicas' : p.alcance \in Alcances /\ p.desde \in Dias
    BY <1>9 DEF Politica
  <2>2. QED
    BY <1>4, <2>1 DEF PreciosOK
<1>13. QED
  BY <1>9, <1>10, <1>11, <1>12 DEF PreciosInv

LEMMA PreciosPasa ==
    ASSUME PreciosInv, quedan \in Presupuesto, Precios
    PROVE  /\ PreciosInv' /\ quedan' \in Presupuesto
           /\ [NoReescribe /\ SinSolapes']_preciosVars
<1>1. ASSUME politicas' = politicas, provision' \in Dias \cup {Siempre}
      PROVE  PreciosInv' /\ NoReescribe /\ SinSolapes'
  BY <1>1 DEF PreciosInv, PreciosOK, Admisible, Numeradas, SinSolapes, NoReescribe
<1>2. CASE /\ Gasta("precios")
           /\ \E s \in Alcances, d \in Dias, h \in Dias \cup {Siempre} :
                 createPricePolicy(s, d, h)
  <2>1. PICK s \in Alcances, d \in Dias, h \in Dias \cup {Siempre} :
             createPricePolicy(s, d, h)
    BY <1>2
  <2>2. PICK n, ps : Crea(n, ps)
    BY <2>1, CreaDe
  <2>3. provision' = provision /\ Admisible(politicas)'
    BY <2>1, CreaDe
  <2>4. politicas' \subseteq Politica /\ Numeradas(politicas)' /\ SinSolapes' /\ NoReescribe
    BY <2>2, CreaNumera, CreaSinSolapes, CreaNoReescribe
  <2>5. PreciosOK'
    <3>1. \A p \in politicas' : p.alcance \in Alcances /\ p.desde \in Dias
      BY <2>4 DEF Politica
    <3>2. QED
      BY <2>3, <3>1 DEF PreciosOK, PreciosInv
  <2>6. QED
    BY <1>2, <2>4, <2>5, GastaSigue DEF PreciosInv
<1>3. CASE /\ Gasta("precios")
           /\ \E d \in Dias : provisionVersionWithPolicy(d, hoy)
  BY <1>1, <1>3, GastaSigue DEF provisionVersionWithPolicy
<1>4. CASE Provee /\ UNCHANGED quedan
  BY <1>4, ProveeSigue
<1>5. CASE DeshaceProvision /\ UNCHANGED quedan
  BY <1>1, <1>5 DEF DeshaceProvision
<1>6. QED
  BY <1>2, <1>3, <1>4, <1>5 DEF Precios

-------------------------------------------------------------------------------
(* The whole branch *)

LEMMA Comienza ==
    ASSUME Init
    PROVE  IInv
<1>1. PICK e \in Escenarios :
        /\ tipos = e.tipos /\ ordenes = [o \in Ordenes |-> NoHay]
        /\ pedidos = [p \in Procesos |-> NoHay]
        /\ firmado = [o \in Ordenes |-> NoHay]
        /\ ventas = e.ventas /\ placas = e.placas
        /\ enTramite = [o \in Ventas |-> NoHay] /\ carreras = {}
        /\ hoy = e.hoy
        /\ ingresos = <<>> /\ movimientos = {}
        /\ avisos = {} /\ llamadas = {}
        /\ politicas = {} /\ provision = Siempre
        /\ clientes = e.clientes /\ bloqueos = {} /\ editados = {}
        /\ consultas = {} /\ tramites = [p \in Mostrador |-> SinDato]
        /\ respuestas = {}
        /\ quedan = e.quedan
  BY DEF Init
<1>2. RecibosInv
  <2>1. ingresos \in Seq(Ingreso) /\ DOMAIN ingresos = {} /\ movimientos = {}
    BY <1>1
  <2>2. QED
    BY <2>1 DEF RecibosInv, RecibosOK, IngresosOK, MovimientosOK
<1>3. TallerInv
  <2>1. Recibidas = {} /\ Cardinality({}) = 0 /\ IsFiniteSet({})
    BY <1>1, FS_EmptySet DEF Recibidas
  <2>2. tipos \in [Tipos -> Tipo \cup {NoHay}]
    BY <1>1, EscenariosPosibles
  <2>3. TiposOK
    BY <2>2, NuloAparte DEF TiposOK, Tipo
  <2>4. OrdenesOK /\ EntregadaConIngreso /\ FirmadaSinCambios
    BY <2>1 DEF OrdenesOK, EntregadaConIngreso, FirmadaSinCambios
  <2>5. PedidosOK
    BY <1>1 DEF PedidosOK, Libre
  <2>6. {ordenes[o].numero : o \in Recibidas} = 1..Cardinality(Recibidas)
    BY <2>1
  <2>7. CobradaUnaVez
    <3>1. \A o : IngresosService(o) = {}
      BY <1>1 DEF IngresosService
    <3>2. \A o \in Ordenes : ~ Esta(o, {"ENTREGADA"})
      BY <1>1 DEF Esta
    <3>3. QED
      BY <3>1, <3>2 DEF CobradaUnaVez
  <2>8. QED
    BY <1>1, <2>1, <2>2, <2>3, <2>4, <2>5, <2>6, <2>7
    DEF TallerInv, TallerOK, EntregadaCompleta
<1>4. PatentesInv
  <2>1. /\ ventas \in [Ventas -> Venta] /\ placas \in [Unidades -> Patentes \cup {NoHay}]
        /\ hoy \in 0..MaxDia
        /\ \A o \in Ventas : ventas[o].importe # NoHay => ventas[o].modalidad = "PAGA_CLIENTE"
        /\ \A u, x \in Unidades :
              (u # x /\ placas[u] # NoHay /\ placas[x] # NoHay) =>
                  normalizeLicensePlate(placas[u]) # normalizeLicensePlate(placas[x])
    BY <1>1, EscenariosPosibles
  <2>2. PatenteUnica
    BY <2>1 DEF PatenteUnica
  <2>3. enTramite \in [Ventas -> Tramite \cup {NoHay}] /\ \A o \in Ventas : SinBloqueo(o)
    BY <1>1 DEF SinBloqueo
  <2>4. PatentesOK
    BY <2>1, <2>3 DEF PatentesOK, Venta
  <2>5. TramitesPatenteOK
    BY <2>3 DEF TramitesPatenteOK
  <2>6. QED
    BY <2>1, <2>2, <2>3, <2>4, <2>5 DEF PatentesInv
<1>5. RecordatoriosInv
  BY <1>1 DEF RecordatoriosInv, RecordatoriosOK
<1>6. PreciosInv
  <2>1. IsFiniteSet({}) /\ Cardinality({}) = 0
    BY FS_EmptySet
  <2>2. Numeradas(politicas)
    BY <1>1, <2>1 DEF Numeradas
  <2>3. QED
    BY <1>1, <2>2 DEF PreciosInv, PreciosOK, Admisible, SinSolapes
<1>7. ConsultasInv
  <2>1. /\ clientes \in [Clientes -> Cliente \cup {SinDato}] /\ DocumentosUnicos
    BY <1>1, EscenariosPosibles DEF DocumentosUnicos
  <2>2. QED
    BY <1>1, <2>1 DEF ConsultasInv
<1>8. quedan \in Presupuesto
  BY <1>1, EscenariosPosibles
<1>9. QED
  BY <1>2, <1>3, <1>4, <1>5, <1>6, <1>7, <1>8 DEF IInv

LEMMA Sigue ==
    ASSUME IInv, [Next]_vars
    PROVE  IInv' /\ [NoReescribe /\ SinSolapes']_preciosVars
<1>1. /\ UNCHANGED posventaVars => RecibosInv' /\ TallerInv' /\ PatentesInv'
      /\ UNCHANGED preciosVars => PreciosInv'
      /\ UNCHANGED consultasVars => ConsultasInv'
  <2>1. UNCHANGED posventaVars => RecibosInv' /\ TallerInv'
    <3>1. UNCHANGED posventaVars =>
              /\ RecibosInv' /\ Conserva /\ DOMAIN ingresos' \ DOMAIN ingresos = {}
              /\ UNCHANGED tallerVars
      BY DEF posventaVars, recibosVars, IInv, RecibosInv, RecibosOK, IngresosOK,
             MovimientosOK, Conserva
    <3>2. QED
      BY <3>1, TallerAparte DEF IInv
  <2>2. UNCHANGED posventaVars => PatentesInv'
    BY PatentesIguales DEF posventaVars, IInv
  <2>3. UNCHANGED preciosVars => PreciosInv'
    BY DEF preciosVars, IInv, PreciosInv, PreciosOK, Admisible, Numeradas, SinSolapes
  <2>4. ASSUME UNCHANGED consultasVars
        PROVE  ConsultasInv'
    <3>1. UNCHANGED <<clientes, bloqueos, editados, consultas, tramites, respuestas>>
      BY <2>4 DEF consultasVars, clientesVars
    <3>2. DocumentosUnicos' /\ \A c, doc : DocFirme(c, doc) => DocFirme(c, doc)'
      BY <3>1 DEF IInv, ConsultasInv, DocumentosUnicos, DocFirme
    <3>3. \A r : RespuestaOK(r) => RespuestaOK(r)'
      BY <3>1 DEF RespuestaOK, ConClave
    <3>4. \A p : TramiteOK(p) => TramiteOK(p)'
      BY <3>1 DEF TramiteOK, DocFirme, ClientesCon, ConClave, En
    <3>5. QED
      BY <3>1, <3>2, <3>3, <3>4 DEF IInv, ConsultasInv
  <2>5. QED
    BY <2>1, <2>2, <2>3, <2>4
<1>2. UNCHANGED <<posventaVars, recordatoriosVars>> => RecordatoriosInv'
  <2>1. UNCHANGED posventaVars => \A u : Aviso(u)' = Aviso(u)
    BY DEF posventaVars, tallerVars, patentesVars, Aviso, Servicios, Entregas, OrdenesDe,
           VentasDe, Recibidas
  <2>2. UNCHANGED recordatoriosVars => avisos' = avisos /\ llamadas' = llamadas
    BY DEF recordatoriosVars
  <2>3. QED
    BY <2>1, <2>2 DEF IInv, RecordatoriosInv, RecordatoriosOK
<1>3. CASE Posventa /\ OlvidaLlamadas /\ UNCHANGED <<preciosVars, consultasVars>>
  <2>1. RecordatoriosInv' /\ PreciosInv' /\ ConsultasInv'
    BY <1>1, <1>3, OlvidaSigue DEF IInv
  <2>2. hoy \in 0..MaxDia
    BY DEF IInv, PatentesInv, PatentesOK
  <2>3. RecibosInv' /\ TallerInv' /\ PatentesInv' /\ quedan' \in Presupuesto
    <3>1. CASE Taller /\ UNCHANGED patentesVars
      <4>1. PatentesInv'
        BY <3>1, PatentesIguales DEF IInv
      <4>2. QED
        BY <2>2, <3>1, <4>1, TallerPasa DEF IInv
    <3>2. CASE Patentamiento /\ UNCHANGED tallerVars
      BY <3>2, PatentamientoPasa DEF IInv
    <3>3. CASE Administracion /\ UNCHANGED <<tallerVars, patentesVars>>
      BY <3>3, AdministracionPasa DEF IInv
    <3>4. QED
      BY <1>3, <3>1, <3>2, <3>3 DEF Posventa
  <2>4. QED
    BY <1>3, <2>1, <2>3 DEF IInv
<1>4. CASE Recordatorios /\ UNCHANGED <<posventaVars, preciosVars, consultasVars>>
  BY <1>1, <1>4, RecordatoriosPasa DEF IInv
<1>5. CASE Precios /\ UNCHANGED <<posventaVars, recordatoriosVars, consultasVars>>
  BY <1>1, <1>2, <1>5, PreciosPasa DEF IInv
<1>6. CASE Consultas /\ UNCHANGED <<posventaVars, recordatoriosVars, preciosVars>>
  BY <1>1, <1>2, <1>6, ConsultasPasa DEF IInv
<1>7. CASE UNCHANGED vars
  BY <1>1, <1>2, <1>7 DEF vars, IInv
<1>8. QED
  BY <1>3, <1>4, <1>5, <1>6, <1>7 DEF Next

\* The inductive invariant holds in every reachable state.
THEOREM Inductive == Spec => []IInv
<1>1. Init => IInv
  BY Comienza
<1>2. IInv /\ [Next]_vars => IInv'
  BY Sigue
<1>3. QED
  BY <1>1, <1>2, PTL DEF Spec

\* Every row keeps the shape of its table and obeys its checks: the status of an
\* income is what its movements add up to, the numbers of the orders have no
\* gaps, no document has two clients, no two open policies share a scope.
THEOREM TypeCorrect == Spec => []TypeOK
<1>1. IInv => TypeOK
  BY ConsultasCorrectas DEF IInv, RecibosInv, TallerInv, PatentesInv, RecordatoriosInv,
                            PreciosInv, TypeOK
<1>2. QED
  BY <1>1, Inductive, PTL

\* No order is delivered with work that differs from what the mechanic signed,
\* nor charged twice or without being delivered, however requests that read it
\* before overlap (service-orders).
THEOREM DeliveredComplete == Spec => []EntregadaCompleta
<1>1. IInv => EntregadaCompleta
  BY DEF IInv, TallerInv
<1>2. QED
  BY <1>1, Inductive, PTL

\* The dashboard counts a sale as what its row shows, but for a blank plate, and
\* no two units carry one plate but by arrivals that overlapped or by what stock
\* wrote (sales, licensing, inventory).
THEOREM PlatesUpToDate == Spec => []PatenteAlDia
<1>1. IInv => PatenteAlDia
  BY AvisosIguales DEF IInv, PatentesInv, PatenteAlDia
<1>2. QED
  BY <1>1, Inductive, PTL

\* A client who was called is called again only after something happened to the
\* unit, or the call was taken back (service-reminders).
THEOREM NotCalledTwice == Spec => []NoSeLlamaDosVeces
<1>1. IInv => NoSeLlamaDosVeces
  BY LlamadaUnaVez DEF IInv
<1>2. QED
  BY <1>1, Inductive, PTL

\* A key registers one inquiry, and every copy of its request is answered with it
\* (credit-inquiries); a document has one client unless somebody edited it.
THEOREM RegisteredOnce == Spec => []ConsultaUnaVez
<1>1. IInv => ConsultaUnaVez
  BY ConsultasCorrectas DEF IInv
<1>2. QED
  BY <1>1, Inductive, PTL

\* A policy written by hand is the price of every day of its range and of no day
\* before it, and policies written by hand never overlap (catalog).
THEOREM PriceOfEachDay == Spec => PrecioDeCadaDia
<1>1. IInv /\ [Next]_vars => [NoReescribe /\ SinSolapes']_preciosVars
  BY Sigue
<1>2. QED
  BY <1>1, Inductive, PTL DEF Spec, PrecioDeCadaDia
===============================================================================
