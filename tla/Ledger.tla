-------------------------------- MODULE Ledger --------------------------------
(***************************************************************************)
(* What the cash ledger promises, without saying how: money is moved by    *)
(* posting entries that are never changed, one at a time or, between two   *)
(* accounts, one for each; an entry is taken back at most once, by one     *)
(* opposite entry of the same account and amount.                          *)
(***************************************************************************)
EXTENDS Integers

CONSTANTS Cuentas, Ids, Importes

VARIABLE asientos   \* the entries posted so far

Sentidos == {"CREDITO", "DEBITO"}

Asiento ==
    [id : Ids, caja : Cuentas, sentido : Sentidos, importe : Importes,
     revierte : Ids \cup {0}]

Opuesto(s) == CHOOSE t \in Sentidos : t # s

Libre(id) == \A a \in asientos : a.id # id

Devuelto(a) == \E b \in asientos : b.revierte = a.id

Init == asientos = {}

\* One new entry.
Post(a) ==
    /\ Libre(a.id)
    /\ a.revierte = 0
    /\ asientos' = asientos \cup {a}

\* Two entries of one amount, one for each account.
Transfer(a, b) ==
    /\ Libre(a.id) /\ Libre(b.id) /\ a.id # b.id
    /\ a.caja # b.caja
    /\ a.sentido = "DEBITO" /\ b.sentido = "CREDITO"
    /\ a.importe = b.importe
    /\ a.revierte = 0 /\ b.revierte = 0
    /\ asientos' = asientos \cup {a, b}

\* The entry r takes a back.
Contra(r, a) ==
    /\ Libre(r.id)
    /\ a \in asientos /\ a.revierte = 0 /\ ~Devuelto(a)
    /\ r = [id |-> r.id, caja |-> a.caja, sentido |-> Opuesto(a.sentido),
            importe |-> a.importe, revierte |-> a.id]

Reverse(r, a) == Contra(r, a) /\ asientos' = asientos \cup {r}

\* An entry is taken back and another one is posted in its place.
Replace(r, a, b) ==
    /\ Contra(r, a)
    /\ Libre(b.id) /\ b.id # r.id /\ b.revierte = 0
    /\ asientos' = asientos \cup {r, b}

ReverseTransfer(r, a, q, b) ==
    /\ Contra(r, a) /\ Contra(q, b)
    /\ r.id # q.id /\ a # b
    /\ asientos' = asientos \cup {r, q}

\* The entries of a step are the ones it adds.
Nuevos == asientos' \ asientos

Next ==
    \/ \E a \in Nuevos : Post(a)
    \/ \E a, b \in Nuevos : Transfer(a, b)
    \/ \E r \in Nuevos, a \in asientos : Reverse(r, a)
    \/ \E r, b \in Nuevos, a \in asientos : Replace(r, a, b)
    \/ \E r, q \in Nuevos, a, b \in asientos : ReverseTransfer(r, a, q, b)

Spec == Init /\ [][Next]_asientos
===============================================================================
