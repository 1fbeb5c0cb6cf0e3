--------------------------------- MODULE Cash ---------------------------------
(***************************************************************************)
(* The cash of a branch: accounts, the append-only ledger of movements and *)
(* the records whose money it moves (src/src/cash, incomes, expenses,      *)
(* supplier-purchases, vehicle-payments) and the monthly balance that is   *)
(* read from both (src/src/balance).                                       *)
(*                                                                         *)
(* A handler that changes a record locks its row (FOR UPDATE), reads and   *)
(* writes, and its writes become visible when the transaction commits.     *)
(* Those handlers are two steps here: the handler itself, which leaves a   *)
(* transaction in enCurso, and Confirmar (commit) or Deshacer (the         *)
(* connection is lost, the process dies, PostgreSQL rolls back).  A        *)
(* handler that only inserts rows nobody else can see is one step.  A call *)
(* answered with an error is an action that is not enabled.  A repeated    *)
(* request (the same idempotency key and payload) answers with what the    *)
(* first one did and changes nothing.                                      *)
(*                                                                         *)
(* Left out: currencies (accounts and records of one currency), imported   *)
(* records, and the payment-plan components and instalments some incomes   *)
(* belong to (see CreditPlans for the latter).                             *)
(***************************************************************************)
EXTENDS Integers, FiniteSets, FiniteSetsExt

CONSTANTS
    Cuentas, Importadas,       \* cuentas_caja, the ones with es_importada
    ResponsableDe,             \* personal_responsable_id of each account
    Ingresos, Gastos, Compras, \* ids of ingresos, gastos, compras_proveedor
    Pagos, Retiros, Transferencias,
    Sucursales, Claves,        \* branches, idempotency keys
    MaxImporte, MaxMovimientos,
    MaxFilas, MaxEnCurso,      \* bounds: rows created, transactions in flight
    Ninguna                    \* SQL NULL

ASSUME CotasNaturales ==
    /\ MaxImporte \in Nat \ {0} /\ MaxMovimientos \in Nat
    /\ MaxFilas \in Nat /\ MaxEnCurso \in Nat

ASSUME CuentasConResponsable ==
    /\ IsFiniteSet(Cuentas) /\ Importadas \subseteq Cuentas
    /\ DOMAIN ResponsableDe = Cuentas

Deudas == Ingresos \cup Gastos \cup Compras

Filas == Deudas \cup Pagos \cup Retiros \cup Transferencias

\* The rows of different tables are different rows, and NULL is none of them.
ASSUME TablasDisjuntas ==
    /\ Ingresos \cap (Gastos \cup Compras) = {} /\ Gastos \cap Compras = {}
    /\ Deudas \cap (Pagos \cup Retiros \cup Transferencias) = {}
    /\ Pagos \cap (Retiros \cup Transferencias) = {}
    /\ Retiros \cap Transferencias = {}
    /\ Ninguna \notin Filas \cup Cuentas \cup Claves

VARIABLES
    cuenta,       \* [Cuentas -> state and branch]
    registro,     \* [Filas -> row]
    movimientos,  \* the rows of movimientos_caja, never updated or deleted
    enCurso       \* transactions that hold the lock of a row

vars == <<cuenta, registro, movimientos, enCurso>>

-------------------------------------------------------------------------------
(* Types *)

Importes == 1..MaxImporte
Ids == 1..MaxMovimientos
Nueva == [estado |-> "NUEVA"]

Cuenta ==
    [estado : {"NUEVA", "ACTIVA", "INACTIVA"}, sucursal : Sucursales \cup {Ninguna}]

Movimiento ==
    [id : Ids, caja : Cuentas, importe : Importes,
     tipo : {"INGRESO", "EGRESO", "AJUSTE", "TRANSFERENCIA_SALIENTE",
             "TRANSFERENCIA_ENTRANTE"},
     sentido : {"CREDITO", "DEBITO"}, de : Filas \cup {Ninguna},
     revierte : Ids \cup {0}, clave : Claves \cup {Ninguna}]

Deuda ==
    [estado : {"PENDIENTE", "PARCIAL", "PAGADO"}, importe : Importes,
     sucursal : Sucursales \cup {Ninguna}, recuperable : BOOLEAN,
     rendicion : {"NO", "PENDIENTE_RENDICION", "RENDIDO"}]

Pago ==
    [estado : {"PENDIENTE", "PAGADO"}, importe : Importes,
     caja : Cuentas \cup {Ninguna}, mov : Ids \cup {0}]

Retiro ==
    [estado : {"REGISTRADO", "ANULADO"}, importe : Importes, caja : Cuentas,
     mov : Ids, reversa : Ids \cup {0}]

Transferencia ==
    [estado : {"CONTABILIZADA", "CANCELADA"}, importe : Importes,
     origen : Cuentas, destino : Cuentas]

\* The rows a table may hold.
FilaDe(f) ==
    CASE f \in Deudas -> Deuda [] f \in Pagos -> Pago
      [] f \in Retiros -> Retiro [] OTHER -> Transferencia

\* Every row has the shape its table declares, the one a transaction will write
\* included.
TypeOK ==
    /\ cuenta \in [Cuentas -> Cuenta]
    /\ registro \in [Filas -> {Nueva} \cup Deuda \cup Pago \cup Retiro
                                \cup Transferencia]
    /\ \A f \in Filas : registro[f] = Nueva \/ registro[f] \in FilaDe(f)
    /\ movimientos \subseteq Movimiento
    /\ \A t \in enCurso :
          /\ t.fila \in Filas /\ t.movs \subseteq Movimiento
          /\ t.nueva \in FilaDe(t.fila)

-------------------------------------------------------------------------------
(* Reading the ledger *)

Existe(f) == registro[f] # Nueva

Original(m) == m.revierte = 0

Devuelto(movs, m) == \E r \in movs : r.revierte = m.id

Vivos(movs) == {m \in movs : Original(m) /\ ~Devuelto(movs, m)}

\* What a record has collected or paid: its movements that were not reversed.
settledAmount(movs, f, tipo) ==
    MapThenSumSet(LAMBDA m : m.importe,
                  {m \in Vivos(movs) : m.de = f /\ m.tipo = tipo})

\* The balance of an account.
Saldo(c) ==
    MapThenSumSet(LAMBDA m : IF m.sentido = "CREDITO" THEN m.importe
                             ELSE -m.importe,
                  {m \in Vivos(movimientos) : m.caja = c})

TipoPropio(f) == IF f \in Ingresos THEN "INGRESO" ELSE "EGRESO"

paymentStatus(settled, total) ==
    IF settled = 0 THEN "PENDIENTE"
    ELSE IF settled >= total THEN "PAGADO" ELSE "PARCIAL"

\* Every id an insert has taken, committed or not.
IdsUsados ==
    {m.id : m \in movimientos} \cup {m.id : m \in UNION {t.movs : t \in enCurso}}

IdNuevo(n) ==
    LET libres == Ids \ IdsUsados
    IN  CHOOSE i \in libres : Cardinality({j \in libres : j < i}) = n - 1

HayIds(n) == Cardinality(IdsUsados) + n <= MaxMovimientos

\* idempotentMovement takes the advisory lock of the key and then looks for a
\* movement that has it: a new movement needs a key nobody has used or is using.
idempotentMovement(k) ==
    /\ \A m \in movimientos : m.clave # k
    /\ \A t \in enCurso : \A m \in t.movs : m.clave # k

activeAccountOr400(c) == cuenta[c].estado = "ACTIVA"

\* A cobro or pago goes through an account in use, of the branch of the record.
CajaParaRegistro(c, f) ==
    /\ activeAccountOr400(c)
    /\ c \notin Importadas
    /\ cuenta[c].sucursal = registro[f].sucursal

\* payerAccount: an account in use whose owner is an administrator.
payerAccount(c) ==
    activeAccountOr400(c) /\ c \notin Importadas /\ ResponsableDe[c] # Ninguna

-------------------------------------------------------------------------------
(* Transactions *)

\* Mutant of FilaLibre: SELECT without FOR UPDATE.
FilaLibre_sinBloqueo(f) == f \in Filas

\* SELECT ... FOR UPDATE waits while another transaction holds the row.
FilaLibre(f) == \A t \in enCurso : t.fila # f

HayLugar(n) == Cardinality({f \in Filas : Existe(f)}) + n <= MaxFilas

\* A transaction that has locked f, inserted movs and updated f to fila.
Abrir(f, movs, fila) ==
    /\ Existe(f)
    /\ FilaLibre(f)
    /\ Cardinality(enCurso) < MaxEnCurso
    /\ enCurso' = enCurso \cup {[fila |-> f, movs |-> movs, nueva |-> fila]}
    /\ UNCHANGED <<cuenta, registro, movimientos>>

\* The transaction commits.
Confirmar(t) ==
    /\ t \in enCurso
    /\ movimientos' = movimientos \cup t.movs
    /\ registro' = [registro EXCEPT ![t.fila] = t.nueva]
    /\ enCurso' = enCurso \ {t}
    /\ UNCHANGED cuenta

\* The transaction is lost before it commits.
Deshacer(t) ==
    /\ t \in enCurso
    /\ enCurso' = enCurso \ {t}
    /\ UNCHANGED <<cuenta, registro, movimientos>>

\* A row is inserted together with its movements.
Insertar(f, movs, fila) ==
    /\ ~Existe(f)
    /\ HayLugar(1)
    /\ registro' = [registro EXCEPT ![f] = fila]
    /\ movimientos' = movimientos \cup movs
    /\ UNCHANGED <<cuenta, enCurso>>

Mov(id, c, tipo, sentido, x, f, k) ==
    [id |-> id, caja |-> c, tipo |-> tipo, sentido |-> sentido, importe |-> x,
     de |-> f, revierte |-> 0, clave |-> k]

\* The movement that takes m back.
Contra(id, m, k) ==
    [id |-> id, caja |-> m.caja, importe |-> m.importe, de |-> Ninguna,
     revierte |-> m.id, clave |-> k,
     tipo |-> IF m.sentido = "CREDITO" THEN "EGRESO" ELSE "INGRESO",
     sentido |-> IF m.sentido = "CREDITO" THEN "DEBITO" ELSE "CREDITO"]

-------------------------------------------------------------------------------
(* Accounts *)

createAccount(c, s) ==
    /\ cuenta[c].estado = "NUEVA"
    /\ \E e \in {"ACTIVA", "INACTIVA"} :
           cuenta' = [cuenta EXCEPT ![c] = [estado |-> e, sucursal |-> s]]
    /\ UNCHANGED <<registro, movimientos, enCurso>>

\* An account can be closed or moved to another branch whatever it holds.
updateAccount(c, e, s) ==
    /\ cuenta[c].estado # "NUEVA"
    /\ cuenta' = [cuenta EXCEPT ![c] = [estado |-> e, sucursal |-> s]]
    /\ UNCHANGED <<registro, movimientos, enCurso>>

-------------------------------------------------------------------------------
(* Incomes, expenses and purchases *)

DeudaNueva(x, s, rec, h) ==
    [estado |-> "PENDIENTE", importe |-> x, sucursal |-> s,
     recuperable |-> rec, rendicion |-> h]

\* Mutant of ImportesValidos: zero is an amount (nonNegativeDecimal).
ImportesValidos_conCero == 0..MaxImporte

\* decimal refuses an amount that is not positive.
ImportesValidos == Importes

\* resolveCashCollection: cash is handed over, at once when the collector is
\* the recipient; other means of payment are not.
resolveCashCollection == {"NO", "PENDIENTE_RENDICION", "RENDIDO"}

CreateIncome(i, x, s) ==
    /\ i \in Ingresos
    /\ \E h \in resolveCashCollection :
           Insertar(i, {}, DeudaNueva(x, s, FALSE, h))

\* An expense without a branch is one of the general ones.
CreateExpense(g, x, s, rec) ==
    g \in Gastos /\ Insertar(g, {}, DeudaNueva(x, s, rec, "NO"))

CreatePurchase(p, x, s) ==
    p \in Compras /\ Insertar(p, {}, DeudaNueva(x, s, FALSE, "NO"))

\* Mutant of ConEstado: the status is left as it was.
ConEstado_sinRecalcular(f, fila, movs) == fila

\* The row with the status its movements give it.
ConEstado(f, fila, movs) ==
    [fila EXCEPT !.estado =
        paymentStatus(settledAmount(movs, f, TipoPropio(f)), fila.importe)]

\* EDIT_BELOW_SETTLED
NoBajaDeLoMovido(f, x) ==
    \A tipo \in {"INGRESO", "EGRESO"} : settledAmount(movimientos, f, tipo) <= x

\* An income may change its branch after its money went in; its means of
\* payment only until the cash was handed over (assertHandoverEditable).
UpdateIncome(i, x, s, h) ==
    /\ i \in Ingresos /\ Existe(i)
    /\ NoBajaDeLoMovido(i, x)
    /\ h # registro[i].rendicion => registro[i].rendicion # "RENDIDO"
    /\ Abrir(i, {}, ConEstado(i, [registro[i] EXCEPT !.importe = x,
                                      !.sucursal = s, !.rendicion = h],
                              movimientos))

SinMovimientos(f) == \A m \in movimientos : m.de # f

\* BRANCH_LOCKED_BY_MOVEMENTS and RECOVERY_EXISTS
UpdateExpense(g, x, s, rec) ==
    /\ g \in Gastos /\ Existe(g)
    /\ s # registro[g].sucursal => SinMovimientos(g)
    /\ NoBajaDeLoMovido(g, x)
    /\ rec \/ settledAmount(movimientos, g, "INGRESO") = 0
    /\ Abrir(g, {}, ConEstado(g, [registro[g] EXCEPT !.importe = x,
                                      !.sucursal = s, !.recuperable = rec],
                              movimientos))

UpdatePurchase(p, x, s) ==
    /\ p \in Compras /\ Existe(p)
    /\ s # registro[p].sucursal => SinMovimientos(p)
    /\ NoBajaDeLoMovido(p, x)
    /\ Abrir(p, {}, ConEstado(p, [registro[p] EXCEPT !.importe = x,
                                      !.sucursal = s], movimientos))

\* registerEntityMovement and what its callers check of the new total.
registerEntityMovement(f, c, tipo, sentido, x, k) ==
    /\ Existe(f)
    /\ HayIds(1)
    /\ idempotentMovement(k)
    /\ CajaParaRegistro(c, f)
    /\ LET m == Mov(IdNuevo(1), c, tipo, sentido, x, f, k)
           movs == movimientos \cup {m}
       IN  /\ settledAmount(movs, f, tipo) <= registro[f].importe
           /\ Abrir(f, {m}, ConEstado(f, registro[f], movs))

Collect(i, c, x, k) ==
    i \in Ingresos /\ registerEntityMovement(i, c, "INGRESO", "CREDITO", x, k)

\* Only a recoverable expense takes money in.
addMovement(g, c, tipo, sentido, x, k) ==
    /\ g \in Gastos /\ Existe(g)
    /\ tipo = "INGRESO" => registro[g].recuperable
    /\ registerEntityMovement(g, c, tipo, sentido, x, k)

PayExpense(g, c, x, k) == addMovement(g, c, "EGRESO", "DEBITO", x, k)

Recover(g, c, x, k) == addMovement(g, c, "INGRESO", "CREDITO", x, k)

PayPurchase(p, c, x, k) ==
    p \in Compras /\ registerEntityMovement(p, c, "EGRESO", "DEBITO", x, k)

\* The money goes back to the account it came from, whatever has become of
\* that account.
reverseEntityMovement(f, m, k) ==
    /\ m \in Vivos(movimientos) /\ m.de = f
    /\ HayIds(1)
    /\ idempotentMovement(k)
    /\ LET r == Contra(IdNuevo(1), m, k)
       IN  Abrir(f, {r}, ConEstado(f, registro[f], movimientos \cup {r}))

ReverseIncome(i, m, k) == i \in Ingresos /\ reverseEntityMovement(i, m, k)

ReverseExpense(g, m, k) == g \in Gastos /\ reverseEntityMovement(g, m, k)

ReversePurchase(p, m, k) == p \in Compras /\ reverseEntityMovement(p, m, k)

\* The recipient of the cash confirms it, once something was collected.
confirmHandover(i) ==
    /\ i \in Ingresos /\ Existe(i)
    /\ registro[i].rendicion = "PENDIENTE_RENDICION"
    /\ settledAmount(movimientos, i, "INGRESO") > 0
    /\ Abrir(i, {}, [registro[i] EXCEPT !.rendicion = "RENDIDO"])

-------------------------------------------------------------------------------
(* Transfers between accounts and withdrawals of a partner *)

createTransfer(t, c, d, x, k) ==
    /\ t \in Transferencias
    /\ HayIds(2)
    /\ idempotentMovement(k)
    /\ c # d /\ activeAccountOr400(c) /\ activeAccountOr400(d)
    /\ d \notin Importadas
    /\ Insertar(t,
          {Mov(IdNuevo(1), c, "TRANSFERENCIA_SALIENTE", "DEBITO", x, t, k),
           Mov(IdNuevo(2), d, "TRANSFERENCIA_ENTRANTE", "CREDITO", x, t, k)},
          [estado |-> "CONTABILIZADA", importe |-> x, origen |-> c,
           destino |-> d])

\* Mutant of ContrasDe: only the first entry of the transfer is taken back.
ContrasDe_soloPrimera(originales, k) ==
    {Contra(IdNuevo(1), m, k) : m \in {n \in originales : n.sentido = "DEBITO"}}

\* One opposite movement for each entry of the transfer.
ContrasDe(originales, k) ==
    {Contra(IdNuevo(IF m.sentido = "DEBITO" THEN 1 ELSE 2), m, k) :
        m \in originales}

reverseTransfer(t, k) ==
    /\ t \in Transferencias /\ Existe(t)
    /\ registro[t].estado # "CANCELADA"
    /\ HayIds(2)
    /\ idempotentMovement(k)
    /\ LET originales == {m \in movimientos : m.de = t /\ Original(m)}
       IN  /\ Cardinality(originales) = 2
           /\ \A m \in originales : ~Devuelto(movimientos, m)
           /\ Abrir(t, ContrasDe(originales, k),
                    [registro[t] EXCEPT !.estado = "CANCELADA"])

CreateWithdrawal(w, c, x, k) ==
    /\ w \in Retiros
    /\ HayIds(1)
    /\ idempotentMovement(k)
    /\ activeAccountOr400(c) /\ c \notin Importadas
    /\ ResponsableDe[c] # Ninguna
    /\ Insertar(w, {Mov(IdNuevo(1), c, "AJUSTE", "DEBITO", x, Ninguna, k)},
          [estado |-> "REGISTRADO", importe |-> x, caja |-> c,
           mov |-> IdNuevo(1), reversa |-> 0])

ReverseWithdrawal(w, k) ==
    /\ w \in Retiros /\ Existe(w)
    /\ registro[w].estado = "REGISTRADO"
    /\ HayIds(1)
    /\ idempotentMovement(k)
    /\ \E m \in movimientos :
          /\ m.id = registro[w].mov
          /\ Abrir(w, {Contra(IdNuevo(1), m, k)},
                   [registro[w] EXCEPT !.estado = "ANULADO",
                                       !.reversa = IdNuevo(1)])

-------------------------------------------------------------------------------
(* Payments of a vehicle's expenses *)

Debito(n, c, x) == Mov(IdNuevo(n), c, "AJUSTE", "DEBITO", x, Ninguna, Ninguna)

\* create debits the account only when the payment is born PAGADO with one.
CreateVehiclePayment(v, e, x, c) ==
    /\ v \in Pagos
    /\ c # Ninguna => payerAccount(c)
    /\ LET debita == e = "PAGADO" /\ c # Ninguna
       IN  /\ debita => HayIds(1)
           /\ Insertar(v, IF debita THEN {Debito(1, c, x)} ELSE {},
                 [estado |-> e, importe |-> x, caja |-> c,
                  mov |-> IF debita THEN IdNuevo(1) ELSE 0])

\* Mutant of debitChanged: paying from another account is not noticed.
debitChanged_soloImporte(fila, e, x, c, otraFecha) ==
    fila.mov # 0 /\ (e # "PAGADO" \/ x # fila.importe)

\* The debit no longer says what the payment says.
debitChanged(fila, e, x, c, otraFecha) ==
    /\ fila.mov # 0
    /\ e # "PAGADO" \/ c # fila.caja \/ x # fila.importe \/ otraFecha

\* The debit goes back as the row of the payment says, not as the movement does.
refund(id, fila) ==
    IF fila.mov = 0 \/ fila.caja = Ninguna THEN {}
    ELSE {[id |-> id, caja |-> fila.caja, importe |-> fila.importe,
           de |-> Ninguna, revierte |-> fila.mov, clave |-> Ninguna,
           tipo |-> "INGRESO", sentido |-> "CREDITO"]}

\* Only its owner changes what an account paid.
assertOwnsAccount(c) == c # Ninguna => ResponsableDe[c] # Ninguna

\* A payment that was PAGADO without an account is not debited afterwards.
UpdateVehiclePayment(v, e, x, c, otraFecha) ==
    /\ v \in Pagos /\ Existe(v)
    /\ LET fila == registro[v]
           sinDebito == fila.estado = "PAGADO" /\ fila.mov = 0
           devuelve == debitChanged(fila, e, x, c, otraFecha)
           debita == /\ e = "PAGADO" /\ (fila.mov = 0 \/ devuelve)
                     /\ ~sinDebito /\ c # Ninguna
           d == IF devuelve THEN 2 ELSE 1
           devolucion == IF devuelve THEN refund(IdNuevo(1), fila) ELSE {}
       IN  /\ c = Ninguna => fila.caja = Ninguna
           /\ c # fila.caja => payerAccount(c) /\ ~(sinDebito /\ e = "PAGADO")
           /\ debita => payerAccount(c)
           /\ devuelve => assertOwnsAccount(fila.caja)
           /\ HayIds((IF devuelve THEN 1 ELSE 0) + (IF debita THEN 1 ELSE 0))
           /\ Abrir(v, devolucion \cup
                       (IF debita THEN {Debito(d, c, x)} ELSE {}),
                    [estado |-> e, importe |-> x, caja |-> c,
                     mov |-> IF debita THEN IdNuevo(d)
                             ELSE IF devuelve THEN 0 ELSE fila.mov])

-------------------------------------------------------------------------------
(* The monthly balance *)

\* The amount of a record shared among the accounts that moved it; the rest
\* belongs to no account and is paid only when the record says so.
splitByAccounts(f, fila, movs) ==
    LET covered == MapThenSumSet(LAMBDA m : m.importe, movs)
        rest == fila.importe - covered
    IN  {[partner |-> ResponsableDe[m.caja], amount |-> m.importe,
          paid |-> TRUE, mov |-> m.id] : m \in movs}
          \cup (IF rest > 0
                THEN {[partner |-> "NONE", amount |-> rest,
                       paid |-> fila.estado = "PAGADO", mov |-> 0]}
                ELSE {})

\* The lines of an income, an expense or a purchase.
LineasDeDeuda(f) ==
    splitByAccounts(f, registro[f],
        {m \in Vivos(movimientos) : m.de = f /\ m.tipo = TipoPropio(f)})

\* The line of a vehicle payment, of the account of its movement.
LineaDePago(f) ==
    LET cajas == {m.caja : m \in {n \in movimientos : n.id = registro[f].mov}}
        pagado == registro[f].estado = "PAGADO"
    IN  [partner |-> IF pagado /\ cajas # {}
                     THEN ResponsableDe[CHOOSE c \in cajas : TRUE] ELSE "NONE",
         amount |-> registro[f].importe, paid |-> pagado,
         mov |-> registro[f].mov]

\* The lines of the monthly balance that are about one record.
Balance(f) == IF f \in Deudas THEN LineasDeDeuda(f) ELSE {LineaDePago(f)}

-------------------------------------------------------------------------------
Init ==
    /\ cuenta = [c \in Cuentas |-> [estado |-> "NUEVA", sucursal |-> Ninguna]]
    /\ registro = [f \in Filas |-> Nueva]
    /\ movimientos = {}
    /\ enCurso = {}

SucursalesONinguna == Sucursales \cup {Ninguna}

AccountNext ==
    \E c \in Cuentas, s \in SucursalesONinguna :
        \/ createAccount(c, s)
        \/ \E e \in {"ACTIVA", "INACTIVA"} : updateAccount(c, e, s)

CreateNext ==
    \E x \in ImportesValidos :
        \/ \E i \in Ingresos, s \in Sucursales : CreateIncome(i, x, s)
        \/ \E g \in Gastos, s \in SucursalesONinguna, rec \in BOOLEAN :
               CreateExpense(g, x, s, rec)
        \/ \E p \in Compras, s \in Sucursales : CreatePurchase(p, x, s)

UpdateNext ==
    \E x \in ImportesValidos :
        \/ \E i \in Ingresos, s \in Sucursales, h \in resolveCashCollection :
               UpdateIncome(i, x, s, h)
        \/ \E g \in Gastos, s \in SucursalesONinguna, rec \in BOOLEAN :
               UpdateExpense(g, x, s, rec)
        \/ \E p \in Compras, s \in Sucursales : UpdatePurchase(p, x, s)

MoneyNext ==
    \E k \in Claves :
        \/ \E c \in Cuentas, x \in ImportesValidos :
              \/ \E i \in Ingresos : Collect(i, c, x, k)
              \/ \E g \in Gastos : PayExpense(g, c, x, k) \/ Recover(g, c, x, k)
              \/ \E p \in Compras : PayPurchase(p, c, x, k)
              \/ \E w \in Retiros : CreateWithdrawal(w, c, x, k)
              \/ \E t \in Transferencias, d \in Cuentas :
                     createTransfer(t, c, d, x, k)
        \/ \E m \in movimientos :
              \/ \E i \in Ingresos : ReverseIncome(i, m, k)
              \/ \E g \in Gastos : ReverseExpense(g, m, k)
              \/ \E p \in Compras : ReversePurchase(p, m, k)
        \/ \E t \in Transferencias : reverseTransfer(t, k)
        \/ \E w \in Retiros : ReverseWithdrawal(w, k)

VehicleNext ==
    \E v \in Pagos, e \in {"PENDIENTE", "PAGADO"}, x \in ImportesValidos,
       c \in Cuentas \cup {Ninguna} :
        \/ CreateVehiclePayment(v, e, x, c)
        \/ \E otraFecha \in BOOLEAN : UpdateVehiclePayment(v, e, x, c, otraFecha)

Next ==
    \/ AccountNext
    \/ CreateNext
    \/ UpdateNext
    \/ MoneyNext
    \/ VehicleNext
    \/ \E i \in Ingresos : confirmHandover(i)
    \/ \E t \in enCurso : Confirmar(t)
    \/ \E t \in enCurso : Deshacer(t)

Spec == Init /\ [][Next]_vars

-------------------------------------------------------------------------------
(* Properties *)

\* No record collects, pays or recovers more than its amount, however the
\* requests about it interleave (OVERPAYMENT, OVER_RECOVERY, EDIT_BELOW_SETTLED).
NuncaDeMas ==
    \A f \in Deudas : Existe(f) =>
        \A tipo \in {"INGRESO", "EGRESO"} :
            settledAmount(movimientos, f, tipo) <= registro[f].importe

\* The status stored in a record is the one its committed movements give it,
\* after any order of edits, payments, reversals and lost transactions.
EstadoSegunLibro ==
    \A f \in Deudas : Existe(f) =>
        registro[f].estado =
            paymentStatus(settledAmount(movimientos, f, TipoPropio(f)),
                          registro[f].importe)

\* What a record says of its money is what the committed movements say.
CobradoSegunLibro == NuncaDeMas /\ EstadoSegunLibro

\* What stands for a movement stands or falls with it.  A transfer has both its
\* movements or none, a withdrawal is REGISTRADO while its movement stands, and
\* the debit a vehicle payment names was not returned and says what the payment
\* says: it is PAGADO, from that account, of that amount.
EnteroODeshecho ==
    LET vivos == Vivos(movimientos)
    IN  /\ \A t \in Transferencias : Existe(t) =>
              Cardinality({m \in vivos : m.de = t}) =
                  IF registro[t].estado = "CANCELADA" THEN 0 ELSE 2
        /\ \A w \in Retiros : Existe(w) =>
              (registro[w].estado = "REGISTRADO" <=>
                 \E m \in vivos : m.id = registro[w].mov)
        /\ \A v \in Pagos : Existe(v) /\ registro[v].mov # 0 =>
              /\ registro[v].estado = "PAGADO"
              /\ \E m \in vivos : /\ m.id = registro[v].mov
                                  /\ m.caja = registro[v].caja
                                  /\ m.importe = registro[v].importe

\* The money in the accounts is the money of the records: what was collected
\* and recovered, less what was paid, withdrawn or spent on vehicles.  No
\* movement is left without a record that accounts for it.
SaldosCuadran ==
    LET Suma(S, F(_)) == MapThenSumSet(F, {f \in S : Existe(f)})
        Entro(f) == settledAmount(movimientos, f, "INGRESO")
        Salio(f) == settledAmount(movimientos, f, "EGRESO")
        Gastado(v) == IF registro[v].mov = 0 THEN 0 ELSE registro[v].importe
        Retirado(w) == IF registro[w].estado = "ANULADO" THEN 0
                       ELSE registro[w].importe
    IN  MapThenSumSet(Saldo, Cuentas) =
            Suma(Deudas, Entro) - Suma(Deudas, Salio)
              - Suma(Pagos, Gastado) - Suma(Retiros, Retirado)

\* The monthly balance adds up: the lines of a record amount to the record, and
\* all of them are paid exactly when the record is.
BalanceCuadra ==
    \A f \in Deudas \cup Pagos : Existe(f) =>
        /\ MapThenSumSet(LAMBDA e : e.amount, Balance(f)) = registro[f].importe
        /\ (\A e \in Balance(f) : e.paid) <=> registro[f].estado = "PAGADO"

\* The accounts and the balance of the month add up to the records.
CuentasCuadran == SaldosCuadran /\ BalanceCuadra

Libro == INSTANCE Ledger
    WITH asientos <- {[id |-> m.id, caja |-> m.caja, sentido |-> m.sentido,
                       importe |-> m.importe, revierte |-> m.revierte] :
                         m \in movimientos}

\* The movements of all the handlers together are a ledger: entries are posted
\* once, never changed, taken back at most once, transfers as a whole.
ImplementaLibro == Libro!Spec
===============================================================================
