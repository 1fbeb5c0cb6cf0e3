------------------------------ MODULE StockLease ------------------------------
(***************************************************************************)
(* What the stock side of the sales promises about a physical unit: an     *)
(* operation holds it on a lease.  While the lease runs nobody can take    *)
(* the unit away; once it has run out another operation may take the unit  *)
(* over, and the sale can no longer be closed on it; a unit sold to an     *)
(* operation is its for good.                                              *)
(***************************************************************************)
CONSTANTS Operaciones, Unidades, Ninguna

VARIABLES
    posee,      \* [Operaciones -> the unit the operation holds, or Ninguna]
    enPlazo,    \* the operations whose lease still runs
    vendidas    \* the units sold

leaseVars == <<posee, enPlazo, vendidas>>

Init ==
    /\ posee = [o \in Operaciones |-> Ninguna]
    /\ enPlazo = {}
    /\ vendidas = {}

Titulares(u) == {o \in Operaciones : posee[o] = u}

\* o leases u, which is free or whose lease has run out.  The new lease may
\* itself be over already, when it is dated back.
Tomar(o, u) ==
    /\ posee[o] = Ninguna
    /\ u \notin vendidas
    /\ Titulares(u) \cap enPlazo = {}
    /\ posee' = [p \in Operaciones |->
                    IF p = o THEN u ELSE IF posee[p] = u THEN Ninguna ELSE posee[p]]
    /\ enPlazo' \in {enPlazo, enPlazo \cup {o}}
    /\ UNCHANGED vendidas

Soltar(o) ==
    /\ posee[o] \notin vendidas
    /\ posee' = [posee EXCEPT ![o] = Ninguna]
    /\ enPlazo' = enPlazo \ {o}
    /\ UNCHANGED vendidas

Vencer(o) ==
    /\ enPlazo' = enPlazo \ {o}
    /\ UNCHANGED <<posee, vendidas>>

\* Only the holder of a lease that still runs buys the unit.
Vender(o) ==
    /\ o \in enPlazo
    /\ posee[o] \in Unidades \ vendidas
    /\ vendidas' = vendidas \cup {posee[o]}
    /\ enPlazo' = enPlazo \ {o}
    /\ UNCHANGED posee

Next ==
    \E o \in Operaciones :
        \/ \E u \in Unidades : Tomar(o, u)
        \/ Soltar(o)
        \/ Vencer(o)
        \/ Vender(o)

Spec == Init /\ [][Next]_leaseVars
===============================================================================
