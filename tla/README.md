# Verification of the Luma Motos API

TLA+ models of the API in `src/` (NestJS, Prisma, PostgreSQL), their TLC
configurations, and theorems about them checked by TLAPS.

The API serves a group of dealerships that sell motorcycles and cars. Almost
every mutation has one form: `PrismaService.withTenant`
(`src/src/prisma/prisma.service.ts:53-79`) opens one READ COMMITTED
transaction, the handler locks the row it works on with `FOR UPDATE`, reads it
again, compares the request's `rowVersion` with the row (`assertVersion`),
checks state and permissions, writes several tables and leaves an audit row in
the same transaction (`AuditService.execute`). Part of the rules are not in
TypeScript but in triggers and partial unique indexes of
`src/prisma/migrations/`; a trigger that refuses a write aborts the whole
transaction.

## 1. Inventory

| Component | State it keeps | Operations | Talks to | What is hard | What makes it correct |
|---|---|---|---|---|---|
| Sale operations, stock side (`sales/sales.service.ts`) | `operaciones`: state, branch, version, unit, delivery, `version_fila`; `reservas_stock` | create, update, correct, reserve, release, assign-unit, supply-request, submit, decide, cancel, close, licensing, payment plan, trade-in | units, supplier availability, supplier orders (same transaction); approvals and prices | a reservation that expires is taken over by a request about *another* operation; the unit is recorded in three tables; reservations of a unit and of supplier stock coexist | the three records agree; a unit is in one sale; sold and closed go together; a delivered unit is not swapped; stale versions are refused |
| Supplier orders (`supply/supply.service.ts`) | `solicitudes_abastecimiento` | create, transition, receive | writes operations, reservations, units and quantities | receive is repeated after a lost answer; an order arrives for a sale that changed meanwhile; orders are locked before operations here and after them in sales | an order is received once; the supplier promise ends when the unit arrives; approval sets orders going |
| Inventory (`inventory/inventory.service.ts`) | `unidades_vehiculos`, movements | create (one and bulk), update, transfer | shares units with sales and supply | a unit is transferred or blocked while somebody sells it; it writes plates without looking for them | a held unit is of the sale's branch and version |
| Supplier availability (`suppliers/suppliers.service.ts`) | `disponibilidad_proveedor` | upsert | reserved by sales, discounted by receive | reported quantity falls below what is promised | never promised twice |
| Triggers and indexes (`src/prisma/migrations`) | none of their own | validate writes | every table above | deferred: they see the row as written, at commit | service and triggers agree |
| Prices, approvals, payment plan (`sales/sales.service.ts`) | agreed and minimum price, `aprobaciones_operacion`, `componentes_pago_operacion` | submit, decide, correct, payment plan, financing payments | catalogue price policies, triggers, incomes | the price changes between submit and approval; two handlers do not increment `version_fila` | an approved price was approved by somebody or is at list price; a closed sale's plan adds up |
| Plates and licensing calendar (`sales/licensing.ts`, `ar-holidays.ts`) | mode, amount, plate, dates | update licensing, collect, register plate; two alerts; business-day arithmetic | units, incomes | check-then-write of a plate, that stock writes too; the alert is computed twice, in SQL and in TypeScript | the arrival of a plate does not give it to a second unit; an alert says what the row shows |
| Cash accounts and ledger (`cash/cash.service.ts`) | accounts, `movimientos_caja`, transfers | create and update account, transfer, reverse transfer, register and reverse the movement of an income, expense or purchase, settled amount | incomes, expenses, purchases, withdrawals, vehicle payments | a retried request races with itself; a reversal races with another | one idempotency key moves money once; a movement is reversed at most once; both halves of a transfer are reversed together |
| Partner withdrawals (`cash/partner-withdrawals.service.ts`) | withdrawals | create, reverse | cash | retry and reversal at once | each withdrawal has its movement; reversed once |
| Incomes and cash handover (`incomes/`) | incomes, links to payment components, instalments and licensing; handover state | create, update, collect, reverse, confirm handover | sales, cash, credit plans | partial collections; a reversal reopens an instalment and recomputes the component | collected never exceeds the amount; only an active collection is handed over |
| Expenses and purchases (`expenses/`, `supplier-purchases/`) | debts, payments, recoveries | create, update, pay, recover (expenses), reverse | cash | two partial payments at once | paid and recovered never exceed the amount |
| Vehicle payments (`vehicle-payments/`) | payments made for a vehicle, catalogues of concepts and providers | create, update | cash, units | an update changes status, account and amount at once: debit and refund | debited exactly while paid |
| Credit plans (`credit-plans/`) | plans, credits, instalments | create and update plan, confirm the credit of an operation, pay instalment; reopened by the reversal of an income | incomes, sales | the two last instalments paid at once, each under its own row lock; payment against reversal | paid never exceeds the instalment; a credit is finished when no instalment is open |
| Commissions (`commissions/`) | policies, agreed and paid commissions | agree, pay (person and manager), create, update, activate, deactivate and delete policies | sales, incomes, expenses | two requests for one person and period; policies of overlapping validity | agreed and paid once per period |
| Credit inquiries (`credit-inquiries/`) | inquiries, clients | create, verify document | clients, BCRA | a retried creation; two creations of the same client | one inquiry per key; one client per document |
| Service orders and reminders (`service-orders/`) | orders, works, reminder resolutions | create, update, save work, finish, deliver, cancel, reopen; resolve and reopen a reminder | units, clients, incomes | no row lock, only a version; delivery charges; a reminder has no row until it is resolved | what is delivered is what was signed, charged once; nobody is called twice |
| Sessions (`auth/`) | sessions, passwords | login, logout, change and reset password, validation of a request with its activity | users | activity is written with SKIP LOCKED while the session is revoked | a revoked session stays revoked |
| Users and roles (`users/`, `roles/`) | users, roles | create, change access, change status, reset temporary password, recover an abandoned invitation; create, update, status and clone of roles | sessions | two administrators demote each other | a global administrator remains; a change of role revokes sessions |
| Catalogue and price policies (`catalog/`) | versions, price policies with validity | CRUD, new policy under an advisory lock | sales | overlapping validity | one policy per version and day |
| Work months (`work-months/`) | cuts of the month | set and remove a cut, calendar | commissions | a cut moves days of a settled window | a settled window does not move; months partition the days |
| Clients, audit, branch scope, dashboard, balance, assistant, mail, BCRA | rows, a log or nothing | CRUD, queries, outbound calls | all | none of their own | access filters |

The hazards, each with its source line and the properties that watch it, are in
`PROJECT.json`.

## 2. What is modelled

| Part of the system | Modules | Composition |
|---|---|---|
| Stock of a sale | `SalesStock`, `StockLease` | sales, supply, inventory and availability in one state; implements `StockLease` |
| Price, approval, plan and collections of a sale | `PaymentPlan` | sales and incomes on one operation |
| Cash | `Cash`, `Ledger` | accounts, incomes, expenses, purchases, vehicle payments, withdrawals, transfers and the monthly balance; implements `Ledger` |
| Own credits | `CreditPlans` | credit plans and the reversal of incomes |
| Commissions and work months | `Commissions` | settlements, policies, calendar and sales |
| Accounts of people, roles, sessions | `Access` | users, roles, auth, the check of a request and the mail |
| The desks of a branch | `Desks` = `Reminders` (`Workshop` + `Licensing`, both on `Receipts`) + `Prices` + `Inquiries` (on `Clients`) | workshop and plates share incomes and keys with the finance office; the reminders read both |

Each `MC...` module gives constants to TLC. Common to all of them: a request
answered with 4xx, and a transaction that a trigger aborts, change nothing and
are actions that are not enabled (unless somebody waits for the answer, as in
`Commissions`, or the answer is what a property is about, as in `Inquiries`).
A handler is one action when its locks make it so, and several where the code
reads in one transaction and writes in another, or where two handlers hold
different locks; each module's header says which and why.

### `SalesStock`

The stock side of a sale, across four services and the triggers.

| Variable | Tables and columns |
|---|---|
| `operacion` | `operaciones`: `estado_operacion`, `sucursal_id`, version and condition (one value), `unidad_vehiculo_id`, `estado_entrega` |
| `unidad` | `unidades_vehiculos`: state, branch, version; `INEXISTENTE` before the row is created |
| `reservas` | the rows of `reservas_stock` in state ACTIVO. `destino` is the unit or the supplier availability; `vigente` says whether `vence_en` is still ahead |
| `solicitud` | `solicitudes_abastecimiento` with its operation, availability, branch, version and received unit |
| `disponibilidad` | reported quantity and whether the report is still valid |
| `alDia` | for each operation, the users whose last read `rowVersion` is the row's. It stands for `version_fila`, which is a counter: any write empties the set, `assertVersion` requires that it is not empty |

Each handler is one action that makes all the writes of the handler: `Create`,
`UpdateDraft`/`UpdateDelivery` (the two branches of `update`),
`EditPaymentSide` (trade-in and payment plan), `updateLicensing`, `correct`,
`assignUnit`, `requestSupply`, `Reserve`, `ReleaseReservation`, `Submit`,
`Approve`/`Reject` (the two outcomes of `decide`), `Cancel`, `Close`;
`CreateSupply`, `Transition`, `ReceiveForStock`/`ReceiveForOperation` (the two
branches of `receive`); `CreateUnit`, `UpdateUnitStatus`, `Transfer`;
`UpsertAvailability`. `ReadOperation` is a client that reads a row,
`ReservationExpires` and `AvailabilityExpires` are the clock. Private methods of
the service (`reserveUnit`, `releaseActiveReservation`,
`materializeProviderReservation`, `assertFulfillableOperation`...) are operators
of the same name. A request answered with 4xx, and a transaction that a trigger
aborts, change nothing and are actions that are not enabled.

*Why a handler is atomic.* Every handler that changes an operation locks its row
first, so two handlers of one operation run one after the other; units, orders
and availabilities are locked before they are read. The take-over of a unit also
needs the lock of the operation that loses it and gives up if it is taken (`FOR
UPDATE SKIP LOCKED`). What this argument leaves out is deadlocks and waiting.

*Choices.* When a query does not determine which row it returns (the order looked
at by `assertFulfillableOperation`) any of them may be. Where a handler branches
on prices (`Submit`, `Create`) both outcomes are possible. `receivedAt` may lie
in the past, so the reservation written by a reception may be expired from the
start.

*Initial states.* An empty organization, and a sale of the previous flow in
which the reception left the unit in stock and the operation with its supplier
reservation: the state for which `materializeProviderReservation` is written.

### `StockLease`

The promise, in three variables: which unit an operation holds, whose lease
still runs, which units are sold. `Tomar`, `Soltar`, `Vencer`, `Vender`.
`SalesStock` implements it under the mapping `Arriendo`: the unit column is what
is held, an unexpired physical reservation is a running lease, the state VENDIDO
is sold.

### `MCSalesStock`

Constants and symmetry for TLC. Symmetry permutes operations, units,
availabilities and orders, of which no action names or chooses a particular one;
branches and versions are left out because the initial rows take one of them with
`CHOOSE`.

### `PaymentPlan`

One operation (operations share no row of a plan) with its price, minimum and
platform, its approvals, the components of its plan, the incomes of the
components and their movements. `create`, `update`, `submit`, `decide`, `cancel`,
`close`, `CorrectVersion` and `CorrectPlan` (the two things `correct` may change),
`replacePaymentPlan`, `collectPaymentComponent`, `Collect` and `Reverse`
(incomes), `markFinancingPayment` and `revertFinancingPayment`. Every handler of
the sale locks the operation; those that move money also go through an income or
a component that other handlers do not lock, so they are two steps, the handler
and `Confirmar` or `Deshacer`. `solapados` remembers the components whose
requests overlapped. The deferred trigger on price and plan is part of the
guards of `submit`, `decide` and `close`.

### `Cash` and `Ledger`

`cuenta`, `registro` (one row for each income, expense, purchase, vehicle
payment, withdrawal and transfer), `movimientos` (the append-only table) and
`enCurso` (transactions that locked a record and have not committed). A record is
changed under its row lock, so at most one transaction of each is in flight
(`FilaLibre`), and what it wrote is seen when it commits. Keys are those of
`clave_idempotencia`, unique. `Balance` is the computation of
`balance.service.ts`, with what each account covered and the rest. `Ledger` is
the promise: entries are posted and never changed, an entry is taken back at
most once by an opposite entry of the same account and amount, a transfer is
posted and taken back as a whole.

### `CreditPlans`

Plans, credits, instalments, the incomes that pay them and their movements, in
integer cents. `confirmOperationCredit` with the calculator (`splitEvenly`, both
methods), `payInstallment`, `Collect`, `Reverse` with `reopenInstallment`, and
`ReplayReverse`, a reversal asked for again with its key. `payInstallment` locks
its instalment and not the credit, so two of them may overlap: two steps.

### `Commissions`

Sales by day, months with their cut, settlements of a seller by branch and month
and of the manager by month, policies with their validity, the manager's
configuration, and two clients that pay and wait for the answer. `setCut` and
`removeCut` hold the exclusive lock of the calendar; an agreement holds the shared
one and an advisory lock of its key, reads the settlement without locking it, and
`Confirmar` writes; `payManagerCommission` locks a key of its own. The days are
scaled: months of four days whose cut may fall from the second day on and that
last at least three, for 28 to 31, 15 and 20.

### `Access`

Accounts (role, global access, active, password, expiry, invitation and its
version), roles with permissions, sessions, the mails that were sent, and two
requests in flight (`proceso`). Almost every handler of auth, users and roles
reads in one transaction and writes in a later one with a `WHERE` on what it
read, and some send a mail in between; each of those is a step and the request
may stop after any of them (`Caida`). `validate` is the check of a request
(JwtStrategy and PermissionsGuard). History variables name the three ways in
which an out-of-date request writes: `tarde` (the result of a mail, or an
abandoned invitation, written over a newer password), `sinAdmin` (an
administrator asked for a new password without signing in), `tardia` (a session
whose login had read the account before it changed). Each exception is necessary:
without it the property that names it is violated.

### `Desks`

The desks of a branch, one module for each and `Desks` for their composition.

- `Receipts`: the incomes of post-sale charges and their movements, with the
  finance office's requests (`createIncome`, `registerCollection`, `reverse` and
  `updateIncome`, which changes the amount of a charge to any that is not less than
  what was collected, and its type or its sale, so that it is no longer, or becomes,
  the charge of a plate). `de.patente` is what the income is for now; `de.orden` is
  history: the order whose delivery charged it.
- `Workshop`: types of service and service orders. The service locks nothing: a
  request reads the order (`load`), and `write` succeeds if the version is still
  the one it read. `deliver` charges in the same transaction as that write.
- `Licensing`: mode, amount, window and arrival of a plate. Requests of one sale
  exclude each other; `registerLicensePlate` looks at the units of other sales,
  which it does not lock, and `RecibePatente` writes. Stock writes plates as well,
  without looking at other units: `updateUnit`, which may also take the plate away or
  leave it blank, and `createUnit`, which stands for the creation of a unit and for the
  reception of an order. `carreras` is history: the plates whose arrivals overlapped,
  and those that stock wrote while another unit had or was getting them.
  `licensingPlateStatus` and
  `collectionCovered` are the row; `licensingCollectionPendingIds` and
  `licensingOverdueWhere` are the queries of the dashboard.
- `Reminders`: a reminder is not a row but a computation (`Aviso`, `list`) from
  the deliveries of `Licensing` and the orders of `Workshop`; `avisos` holds the
  resolved ones, by unit, stage and due day. `llamadas` is history: the units
  called about since the last delivery or finished service. Days are scaled: first
  service after 2, the next after 3, shown 1 before and 1 after.
- `Clients` and `Inquiries`: clients by document, and an inquiry through its four
  steps (look the key up, lock the document and find the client, commit, look the
  key up again after a unique violation), three copies at once; any may be lost.
- `Prices`: the policies of one version by scope and range of days,
  `createPricePolicy`, and the provision of the supplier's and the stock's forms,
  under another lock and therefore in two steps.

A rejected sale is not presented again here (that is in `SalesStock`), and a unit
is taken from a sale by its release or by another sale's takeover (`Soltar`).

## 3. What is checked

| Run | Instance | What it shows |
|---|---|---|
| `takeover` | 2 operations, 2 units, 2 branches, 2 versions (one second-hand) | Reservations that expire, are taken over, released and consumed in every order keep the records together and implement the lease |
| `supply` | 1 operation, 2 units, 2 orders, 1 availability of at most 1, a motorcycle and a car version | Ordering, receiving, correcting, cancelling in every order, from both initial states |
| `capacity` | 2 car sales, 1 unit, 2 orders, 1 availability of at most 2 | Reservations, receptions and reports of the supplier respect the quantity |
| `payment_plan` | 2 price policies, prices 1 and 2, 2 institutions, 2 platforms, plans of up to 2 components | The price of a sale is authorised, corrections keep the plan adding up, a component says what was collected |
| `cash_ledger` | one record of each kind, one of them in use at a time, 2 accounts, 3 keys, 4 movements, 2 transactions at once | What records, accounts and balance say of the money agrees after every commit; the movements are a ledger |
| `credit_instalments` | 1 plan, 1 credit of 1 or 2 instalments of up to 3 cents, 3 movements, 2 transactions at once | What an instalment says it was paid against the cash, and when a credit is over |
| `commissions` | 2 months, 2 sales of a seller in 2 branches, 3 policies, 2 clients; seven starting points | Each sale is settled in its month, what was paid stays, a payment is of what its client saw, and its client is told |
| `accounts` | 3 accounts, 3 roles, 3 sessions, 2 requests at once; nine starting points | The organization stays administrable, sessions are of the current password and role, invitations say how the password got there |
| `desks` | 2 orders, 2 sales, 3 units, 4 plates (one in two ways, another, a blank one), 2 keys, 4 days; 3 clients, 2 documents, 3 inquiry requests, 2 keys; 5 days of prices; twelve starting points | Delivered work is what was signed, charged once; an arriving plate goes to one unit; alerts say what rows show; nobody is called twice; an inquiry is registered once; every day has the price the last policy gave it |
| `rejected`, `orders`, `credit_replay` | 1 operation; 1 credit | Violated: see findings |

Properties, by run:

- `takeover`: `StockConsistente`, `UnidadDeUnaSolaVenta`, `VendidaEnVentaCerrada`,
  `UnidadDeLaOperacion` (what is recorded about a held unit agrees in all tables);
  `CambioDesactualiza` (any change of an operation makes earlier versions stale, also
  one made by a request about another operation or about an order);
  `EntregadaConservaUnidad`; `ImplementaArriendo` (refinement of `StockLease`).
- `supply`: `AprobadaSinPedidoBloqueado`; `DisponibilidadMaterializada` (a sale does
  not hold the unit and the supplier's promise of it); `RecepcionDefinitiva` (what was
  received or sold is not rewritten). `capacity`: `CapacidadRespetada`.
- `payment_plan`: `PrecioAutorizado` (under the minimum only with an approval of that
  price, and waiting for one approval exactly while one is pending);
  `CorreccionCuadra`; `EstadoDelComponente`.
- `cash_ledger`: `CobradoSegunLibro` (no record moves more than its amount and its
  status is what its movements say); `EnteroODeshecho` (a transfer, a withdrawal, a
  vehicle payment stand or fall with their movements); `CuentasCuadran` (accounts,
  records and monthly balance add up); `ImplementaLibro` (refinement of `Ledger`).
- `credit_instalments`: `CuotasCuadran` (instalments add up to the credit and are not
  paid more than the accounts hold); `FinalizadoSiiPagadas`.
- `commissions`: `CadaVentaEnSuMes`, `UnaPoliticaPorDia`, `PagadaNoCambia`,
  `SePagaLoVisto`, and the liveness property `PagoConfirmado`.
- `accounts`: `Administrable`, `SesionDeSuClave`, `InvitacionAlDia`.
- `desks`: `EntregadaCompleta`, `PatenteAlDia`, `NoSeLlamaDosVeces`, `ConsultaUnaVez`,
  `PrecioDeCadaDia`.

Where a property has an exception (a history variable in its statement), the code
does break it in that way; the exception is as small as the model could make it, and
section 5 says what happens there.

*Bounds.* The instances are the smallest in which the interesting cases occur. A
take-over needs two operations and one unit; two units add that the loser takes
another one and that each holds one. Two orders of one operation are needed for an
order that arrives while another reservation is active. A second operation matters
to orders only through the availability, hence `capacity`; with a quantity of 2 there
is one free place and one contended place. In `Cash` and `CreditPlans` two
transactions at once are what a row lock can keep apart; four movements allow a
payment, its reversal and both halves of a transfer, and `MaxFilas` limits the
records in use so that each kind is explored against the accounts, the keys and
every kind of movement, one after the other. Amounts up to 2 or 3 tell partial from full.
`Commissions`, `Access` and `Desks` have too many independent requests to interleave
all of them: their initial states are scenarios (`Escenarios` in the MC modules), each
with budgets (`quedan`) of how many requests of each kind it may see, chosen so that
the requests that can disturb each other meet; together the scenarios fire every
action. Two requests at once in `Access` and in the workshop are what a version check
must tell apart; three copies of an inquiry allow one to hold the lock, one to wait for
it and one to come late. Symmetry permutes identifiers that no action names or chooses.

*Deadlock* is checked in `takeover`, `supply`, `capacity`, `payment_plan`,
`cash_ledger` and `credit_instalments`. In `commissions`, `accounts` and `desks` the
budgets of a scenario run out, which the configurations say with `CHECK_DEADLOCK
FALSE`.

*Fairness and liveness.* Every step is the request of a user; nothing in the code
retries or runs in the background, and expired reservations are not swept but taken
over when somebody asks for the unit. So no fairness is assumed, but for one: in
`Commissions` a client that asked for a payment repeats the request until it is
answered, with the same idempotency key, which is what the key is for. Under weak
fairness of `pay`, and a bounded number of lost answers, a client whose payment was
registered is told so (`PagoConfirmado`).

Every property has in `PROJECT.json` a mutant: a definition changed the way a
plausible bug would change it, under which TLC finds the property violated. The
mutated operators stand beside the originals.

### Findings

- `rejected`. `docs/api-sales-operations.md:526` says that rejecting releases the
  reservation. `decide` (and `cancel`) release the newest active reservation only.
  A sale made from a supplier availability that also receives an order without
  availability has two; after the rejection the supplier's unit stays committed.
- `orders`. `docs/api-sales-operations.md:476` says one order in progress per
  operation. `requestSupply` checks it, the supply screen's `create` does not.
- `credit_replay`. `docs/financial-administration-api.md:45` says that repeating a
  key and payload returns the existing result. The repetition of a reversal returns it,
  and reopens the instalment again, although it was paid once more meanwhile.

## 4. What is proved

TLC evaluates the assumptions on the constants in every run of the module that states
them, and each inductive invariant below was also checked by TLC on the module's
instance before its proof. The theorems say nothing of the bounds: where a bound is a
constant (`MaxMovimientos`, `MaxCuotas`...) they hold for every value of it.

### `SalesStock`: `SalesStockProofs`

For any finite or infinite sets of operations, units,
availabilities, orders, branches, versions and users. The assumptions are those of
`SalesStock`: motorcycle and second-hand versions are versions, each availability
is about a version, there is a branch and a version, the bound is a natural number,
units and availabilities do not share identifiers, NULL identifies no row.

- `TypeCorrect`: `Spec => []TypeOK`.
- `Inductive`: `Spec => []IInv`. `StockConsistente` is not inductive: a
  take-over could break it if a unit had two reservations, a release could if the
  reservation given up were not that of the unit, a close could if another
  operation pointed at the same unit. `IInv` is the type invariant with `Custodia`,
  which adds exactly that: a unit has one reservation (`ReservaUnica`), operations
  not saved, rejected or cancelled hold nothing (`FueraDeCursoSinUnidad`), stored
  rows satisfy their trigger (`FilasValidas`).
- `StockAgrees`, `NoDoubleSale`, `SoldIffClosed`: the safety invariants, from `IInv`.
- `StaleAfterChange`, `DeliveredKeepsUnit`: the action properties.
- `ImplementsLease`: `Spec => ImplementaArriendo`.

*Argument.* The handlers are many, but to the units there are only six kinds of
step: a row is written and nothing moves (`PasoSinMover`), a unit is taken
(`EfectoTomar`, from stock, from an expired reservation or from the supplier),
given back (`EfectoDevolver`), sold (`EfectoVender`), a reservation expires, or
units nobody holds or bought change (`EfectoSinVentas`). Lemma `Efectos` shows
under `IInv` that every step is one of them, with one case per handler. The
invariant, the action properties and the refinement are each proved for the six
kinds.

#### Orders and suppliers' stock

The rest of the properties of `SalesStock`, in the same module and from the same
assumptions.

- `InductiveSupply`: `Spec => []IInvPedidos`. `IInvPedidos` is `IInv` with `Abastecimiento`:
  the invariants themselves, and three facts no handler states. An order that waits for an
  approval belongs to a sale that was saved and is not approved (`PedidoEsperaVenta`: who
  approves must free the orders, who orders must look at the state). What an order brought is
  a unit that exists (`RecibidaExiste`: otherwise a unit created later could turn out to be
  the one an order brought). The reservations are finitely many, without which
  `Cardinality` says nothing.
- `UnitOfTheSale` (`UnidadDeLaOperacion`), `CapacityRespected` (`CapacidadRespetada`),
  `PromiseEndsWithUnit` (`DisponibilidadMaterializada`), `ApprovedFreesOrders`
  (`AprobadaSinPedidoBloqueado`), `ReceptionIsFinal` (`RecepcionDefinitiva`, an action
  property).

### `Cash`: `CashProofs`, on `Sums`

For any number of accounts, records of each kind, keys, amounts and transactions in
flight (TLC's instance uses one record at a time). Assumptions: the bounds are natural
numbers, the accounts are finitely many and each says whose it is, the tables have
different rows and NULL is none of them (`CotasNaturales`, `CuentasConResponsable`,
`TablasDisjuntas`).

- `Inductive`: `Spec => []IInv`. The invariants of the runs speak of committed rows
  and are not inductive: a transaction in flight will write what it computed from a
  ledger that others append to meanwhile. `IInv` says of each transaction in flight
  that its row agrees with the ledger *it will leave* (`TransaccionOK`), that it is the
  only one of its record (`Bloqueos`), that its ids are of nobody else (`IdsUnicos`),
  and that it posts one more movement of its record or takes back one of it
  (`Posteable`, `Forma`). For the sums over all the records it adds that no movement that
  stands is without a record, or named by two (`SinHuerfanos`), that what a record names
  is money that left, of its amount (`Nombrado`), and that the two legs of a transfer are
  of one amount (`TransferenciaSegun`).
- `TypeCorrect`; `CobradoCorrecto` (`CobradoSegunLibro`); `EnteroCorrecto`
  (`EnteroODeshecho`); `CuentasCorrectas` (`CuentasCuadran`).
- `EsUnLibro`: `Spec => ImplementaLibro`, the refinement of `Ledger`. Every handler
  that commits is one step of the ledger, posting, transferring or taking back
  (`PasoDelLibro`); the rest are stutters.

*Argument.* A movement belongs to one record and who takes it back holds the row lock of
that record, so what another transaction commits changes nothing of what this one read:
`settledAmount` of a record depends only on its own live movements. The sums are
`MapThenSumSet`, a recursive function over subsets chosen by `CHOOSE`. `Sums` proves what
is needed of them for any finite set (a sum may be taken apart in any order, the sum of a
part of naturals is no larger, it depends only on the amounts, one amount changes), by
induction over the subsets of a finite set from the well-foundedness of the naturals,
written without an operator parameter.

The accounts agree with the records because both count the movements that stand, once
each: every one of them is in one account (`EnCuentas`) and of one record (`PorTablas`), so
the two totals are one sum taken apart in two ways (`SumaPorPartes`). What a record adds to
it is what it collected less what it paid (`AporteDeDeuda`), nothing for a transfer
(`AporteDeTransferencia`), minus its amount for a vehicle payment or a withdrawal that
stands (`AporteDePago`, `AporteDeRetiro`). The lines of the balance are numbered by their
movements, so two that look alike are still two (`SumaImagen`, in `BalanceDeDeuda`).

### `CreditPlans`: `CreditPlansProofs`, on `Sums`

For any plans, credits, numbers of instalments and amounts; the assumption is that the
bounds are positive.

- `Inductive`: `Spec => []IInv`. What `payInstallment` and a reversal write was computed
  when they read; `IInv` says how it compares with the instalment as it is (`PagoOK`,
  `ReversaOK`), which nobody else can change while its row is locked, and what they will
  make of the credit (`FinalOK`) while no other transaction of the credit was in flight.
- `TypeCorrect`; `CuotasCorrectas` (`CuotasCuadran`: the rounding of `splitEvenly` hands
  out every cent, for any total and number of instalments, `Repartido`);
  `FinalizadoCorrecto` (`FinalizadoSiiPagadas`).

### `Access`: `AccessProofs`

For any number of accounts, roles, sets of permissions, sessions and requests in flight.
Assumptions: the administrators' role is a role, sessions are numbered, NULL is no value,
and the organization begins with an administrator that can sign in, accounts with active
roles and sessions of existing accounts (`EscenariosPosibles`). The budgets of the
scenarios are not used: `Spec` of the theorems allows any.

- `Inductive`: `Spec => []IInv`. None of the three invariants survives a step by itself,
  because half of the steps write what a request read earlier. `IInv` says of each
  request in flight how that compares with the rows (`ProcesoOK`): the password it
  checked is an earlier one, or the current one and then its owner chose it (`ClaveOK`);
  the invitation it mails is waiting, or there is a later version, or it was written over
  (`CorreoOK`, `ResultadoOK`); the permissions a role had at a version are those it has
  while the version is the same (`TrabajoOK`).
- `TypeCorrect`; `AdministrableSiempre` (`Administrable`); `SesionCorrecta`
  (`SesionDeSuClave`); `InvitacionCorrecta` (`InvitacionAlDia`).

*Argument.* Versions and password numbers only grow, and grow with every change that a
request in flight has to notice (`Avanza`, `AvanzaRol`), so `ProcesoOK` of any request
survives any step (`ProcesoSigue`, proved once). There are three kinds of steps: one
writes an account (`EscribeUsuario`), one writes a role (`EscribeRol`), the rest write
neither (`SinCuentas`); each handler has a lemma that it is of its kind and meets its
conditions. That `assertLastGlobalAdministrator` may take out-of-date arguments does not
matter: if they say the account stays an active administrator, it is the row that says
the rest, and if they say it does not, there is another one.

### `Commissions`: `CommissionsProofs`, on `Sums`

For any number of months, branches, sales, policies and payment requests, and for any
length of the months (the same for all) and place of the cuts. Assumptions: a month has
days before and after the first day of its cut (`Calendario`), sales are finitely many and
their prices natural numbers (`Entradas`), NULL is no row (`FilasPosibles`), and the
organization begins with policies that do not overlap and a configuration of its shape
(`EscenariosPosibles`).

- `Inductive`: `Spec => []IInv`. An agreement writes what it read, so `CadaVentaEnSuMes` is
  not inductive: `IInv` says that what is in flight has the range its month still has and
  counted sales of those days (`EnVuelo`, which the shared lock of the calendar preserves).
  A sale leaves its month only by a corrected date, and then it is in `movidas`
  (`Cuenta`). That a paid settlement stays paid rests on the check of the table
  (`PagoCompleto`): the update of an agreement that read it unpaid would leave the payment
  with the state ACORDADA. The amount is the one its client read because every change of a
  settlement increments its version (`Visto`), and no two payments of a manager's
  settlement are between check and write (`UnLeido`).
- `TypeCorrect`; `EachSaleInItsMonth` (`CadaVentaEnSuMes`); `OnePolicyPerDay`
  (`UnaPoliticaPorDia`); the action properties `PaidDoesNotChange` (`PagadaNoCambia`) and
  `PaidAsRead` (`SePagaLoVisto`).

*Argument.* Two lemmas carry the calendar: wherever the cuts fall, a month has days and the
next one starts after its last (`MesConDias`), and `periodOf` gives back the month of each
day of its range (`DiaDeSuMes`, by comparing the day with the month of the calendar it is
in and with its neighbours). A change of a cut touches two ranges and neither has a
settlement (`CorteMantiene`, from `settledWindows`).

### `PaymentPlan`: `PaymentPlanProofs`, on `Sums`

For any prices, policies, institutions, platforms and numbers of components, incomes,
movements, approvals and transactions in flight. Assumptions: those of `PaymentPlan`
(`ConstantesValidas`: the platforms are those the code knows, prices are positive, a
policy's minimum is not above its list price, "" is no institution; `Cotas`: the bounds
are positive and a plan a user sends fits in the table).

- `Inductive`: `Spec => []IInv`. The status of a component is what its request computed
  when it read the incomes, and others commit before it does. `IInv` says of each
  transaction in flight that its status is the one the component will deserve when it
  commits (`EstadoOK`), unless requests overlapped on the component, which
  `SolapadosOK` recognises; that its movement belongs to its income and takes back one of
  it (`IngresoOK`, `MovimientoOK`); that nobody else has its ids (`IdsUnicos`). For the
  prices it says which approval a waiting sale waits for (`Espera`), and that the terms of
  the sale are those of its platform.
- `TypeCorrect`; `PriceAuthorised` (`PrecioAutorizado`); `ComponentStatus`
  (`EstadoDelComponente`); `CorrectionAddsUp` (`CorreccionCuadra`, an action property).

*Argument.* What another transaction commits changes what is collected of its own
component only (`Ajeno`), and a component that nobody is collecting is what it was
(`OtroComponente`). The price cannot go under the minimum without an approval because
whoever makes it count passes the deferred trigger (`DisparadorAutoriza`).

Only `CorrectPlan` changes the terms of a sale that is no longer a draft (`SoloCorrige`).
That the plan it leaves adds up is an argument about `reconcileCorrectedPaymentPlan`
row by row: what becomes of each old row and which ones are added (`FilasDelPlan`,
`Renglones`). The positions of the financings number them one to one, so the corrected
ones are exactly those asked for (`Lugares`, `Numera`, `FinanciacionesSon`). What is paid
in cash is one new row, or the first one alone, or the first one with what the others
leave (`EnManoCuadra`). The trade-ins stay. The three sums make the price
(`CorregidaCuadra`, with the lemmas of `Sums`).

### `Desks`: `DesksProofs`, on `Sums`

For any number of service orders, types, sales, units, plates, clients, documents, keys,
amounts, days and requests in flight (for the inquiries, any number of copies of any
requests; TLC's instance has three). Assumptions: amounts, periods and days are natural
numbers and what is typed is of its type (`DatosEnviados`); NULL is no value and no row
(`NuloAparte`); the organization begins with rows that obey the checks and unique
indexes of their tables: an amount for the plate only if the client pays it, no plate on
two units (no index says so: one that is already on two is a duplicate stock made
before), no document on two clients (`EscenariosPosibles`). The theorems use no budget.

- `Inductive`: `Spec => []IInv`. Three of the desks write what an earlier step read, so
  their invariants do not survive the write by themselves. `IInv` says of each request
  of the workshop that, if the order still has the version it read, what it will write
  is an order that may stand: signed work is the order's own, a delivery charges what
  it says, anything else charges nothing (`PedidosOK`, `Vigente`). Of an inquiry it says what
  its step has found out (`TramiteOK`): who holds the document's lock is alone with it, and the
  client it found is the one the document has, or the document was edited; who looks the
  key up again will find it, or the document was edited. Of a reminder it says that who
  was called was called about the one that is today's (`RecordatoriosInv`). Of a plate
  being registered, that no other unit has it and no other request brings it, or
  `carreras` says so (`TramitesPatenteOK`). Of the
  policies, that they are numbered without gaps (`Numeradas`).
- `TypeCorrect`; `DeliveredComplete` (`EntregadaCompleta`); `PlatesUpToDate`
  (`PatenteAlDia`); `NotCalledTwice` (`NoSeLlamaDosVeces`); `RegisteredOnce`
  (`ConsultaUnaVez`); `PriceOfEachDay` (`PrecioDeCadaDia`, an action property).

*Argument.* `IInv` is a conjunction of one invariant for each desk, and each desk has a
lemma that its own steps keep it and another that the steps of the others do
(`Comienza`, `Sigue`).

- *Incomes.* The status of an income depends on its own movements only (`CobradoEsSuma`,
  `OtroEstado`), so a charge of one desk leaves those of the others as they were. An edit
  computes it again from the new amount (`updateIncomeEstado`) and keeps what delivery an
  income comes from (`Conserva`).
- *Workshop.* Every write increments the version, so for two requests that read the same
  version the first makes the second void; the one that writes computed it from the row
  as it is (`writeSigue`).
- *Plates.* The queries of the dashboard and the row of the sale decide alike
  (`AvisosIguales`), over the states of a sale and of its incomes. A plate is compared with those
  of the other units before it is written; what another request or stock writes in
  between is in `carreras` by then (`RecibePatenteSigue`, `updateUnitSigue`). `carreras`
  names the plates at risk, so the claim stands for the others.
- *Reminders.* The due reminder of a unit changes only with an order or a delivery of that
  unit, and such a step takes the unit out of `llamadas` (`OlvidaSigue`, `LlamadaUnaVez`).
- *Inquiries.* A step of one request leaves what the others know true (`OtrosTramites`), an
  answer stays right (`RespuestasSiguen`), and the step itself establishes what the next
  phase needs (`PasoSigue`).
- *Prices.* The last of the applicable policies exists and is unique (`HayUltima`). A new
  policy ends those of its scope that were open when it begins, and has the greatest
  number: in its range it is alone (`SuRango`, `CreaSinSolapes`), and before its first
  day each day has the last policy that it had (`DiasDeAntes`, `MismaUltima`).

### Only model-checked

- Liveness: `PagoConfirmado`, under the fairness of `Commissions`.
- The violations of the findings, which are counterexamples.

All the other properties of the runs are theorems above.

## 5. What is not modelled, and why

- A vehicle taken in part payment (`createTradeIn`), the guarantor, observations and
  papers of a sale: they are written once and nothing else reads them in a guard.
- Components paid with an own credit: `CreditPlans` has the credit, `PaymentPlan` the
  plan; the step between them is the confirmation of a credit, which the second takes
  as external.
- Bulk loads of units (a repetition of `createUnit`), movements of units (a log).
- Business days and holidays (`ar-holidays.ts`): a table; `Plazo` stands for them.
- Brands, models, versions, photos, suppliers, financial institutions, concepts and
  providers: create and update of rows that other handlers only refer to.
- Branch scope and row-level security: a filter on every query. Row-lock granularity
  inside the handlers of sales, and the deadlocks PostgreSQL breaks.
- Reports, the assistant, mail and the credit bureau client read or call out and
  change no shared state.

Behaviours met while modelling that no run states as a property, because no
document, comment or test says otherwise, or that a property excepts:

- *Price policies.* The provision of a version does not ask whether the policy it
  finds is active (`catalog.service.ts:190`), so a version may be left without a
  price; what it adds is not compared with later policies, so two may be in force on
  one day. A temporary policy leaves the days after it without a price.
- *Commissions.* An agreement of the manager's settlement in flight overwrites a paid
  one (`commissions.service.ts:1410`); a payment of the manager has no idempotency key.
  The unique index of settlements has no branch, so a seller with sales in two branches
  is settled for the first one only. A sale whose date is corrected after its settlement
  is counted in two months.
- *Access.* A public password reset un-configures the last administrator
  (`auth.service.ts:155`); the late result of its mail is written without looking at the
  version (`:222`, `:240`); a login in flight during a revocation leaves a session.
- *Payment plan.* Two collections of one component at once may leave its status out of
  date, since the component is not locked. Collections may exceed its amount, also without
  overlap: `incomes.collect` compares with its own income only
  (`incomes.service.ts:727`). Rows without a platform, that only an import leaves, have
  their price corrected without touching the plan (`sales.service.ts:2210`, `:2294`,
  `:2378`); these, and imported ones without a list or a minimum price, are not modelled.
- *Charges.* The finance office may change the amount of the income of a service order or
  of a plate (`incomes.service.ts:569` locks only those of components and instalments),
  so it may differ from the order's: `CobradaUnaVez` says that a delivered order has one
  charge, its own, and nothing of its amount.
- *Credits.* The two last instalments paid at once leave the credit ACTIVO.
- *Plates.* Two sales that register one plate at once both succeed. Stock writes a
  plate that another unit has (`inventory.service.ts:437`, `:610`, `supply.service.ts:403`):
  nothing looks for it and no unique index refuses it. A plate that stock updates to a
  blank is received for the two alerts (`sales.service.ts:521`, `:3014`) and not for the
  row (`licensing.ts:139`). `PatenteAlDia` excepts these three.
- *Workshop.* The repetition of a free delivery is answered with STALE_VERSION: only
  orders with an income are recognised (`service-orders.service.ts:612`).
- *Reminders.* Correcting a delivery off and on, or finishing an order again on another
  day, moves the due day, and a reminder that was resolved comes back.
- *Clients.* Editing a document takes no advisory lock: an inquiry for that document
  may be answered with a conflict although nobody used its key.

## 6. Plan

The theorems state every safety and action property of the runs. What could be added:

- The hazards without a property in `PROJECT.json`: an order that arrives for an
  operation that reserved a unit meanwhile, the order in which receiving and deciding
  lock, and the operation a takeover skips.
- An abstract specification of an inquiry (a key is registered once) that `Inquiries`
  implements, and of the price of a day that `Prices` implements, proved from `IInv`.
