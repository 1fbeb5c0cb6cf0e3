--------------------------------- MODULE Prices --------------------------------
(***************************************************************************)
(* The price policies of a version (src/src/catalog): each one is in force *)
(* on a range of days, in a branch or in the organization; a new one ends  *)
(* the one before.  The supplier's and the stock's inline catalog forms    *)
(* provision a version with a first policy under another lock: what they   *)
(* read may have changed when they write, two steps.                       *)
(*                                                                         *)
(* Days are numbers; a range without end has Siempre, later than any day.  *)
(* Left out: amounts (the minimum never exceeds the list price), currency, *)
(* and the brand, model and version the forms also create.                 *)
(***************************************************************************)
EXTENDS Naturals, FiniteSets, FiniteSetsExt

CONSTANTS
    Sucursales,     \* branches with prices of their own
    DeTodas,        \* the scope of the organization (SQL NULL)
    UltimoDia       \* last day

Siempre == UltimoDia + 1
Dias == 0..UltimoDia
Alcances == Sucursales \cup {DeTodas}

VARIABLES
    politicas,      \* policies, by order of creation  politicas_precios_vehiculos
    provision       \* the first day a form that found no policy will write

preciosVars == <<politicas, provision>>

\* The policies of a scope that are in force some day from desde to hasta.
Solapadas(ps, alcance, desde, hasta) ==
    {p \in ps : p.alcance = alcance /\ p.desde <= hasta /\ p.hasta >= desde}

activePricePolicyWhere(ps, alcance, dia) ==
    {p \in Solapadas(ps, alcance, dia, dia) : p.activa}

\* The last to begin; of those, the last created.
Ultima(ps) ==
    CHOOSE p \in ps : \A q \in ps :
        q.desde < p.desde \/ (q.desde = p.desde /\ q.id <= p.id)

findEffectivePricePolicy(ps, sucursal, dia) ==
    LET propia == activePricePolicyWhere(ps, sucursal, dia)
        general == activePricePolicyWhere(ps, DeTodas, dia)
    IN  IF propia # {} THEN {Ultima(propia).id}
        ELSE IF general # {} THEN {Ultima(general).id} ELSE {}

\* The unique index of the open policies, and the checked range.
Admisible(ps) ==
    /\ \A p \in ps : p.desde <= p.hasta
    /\ \A p, q \in ps :
          p.activa /\ q.activa /\ p.hasta = Siempre /\ q.hasta = Siempre
            /\ p.alcance = q.alcance => p = q

Nueva(alcance, desde, hasta, provista) ==
    [id |-> Cardinality(politicas) + 1, alcance |-> alcance, desde |-> desde,
     hasta |-> hasta, activa |-> TRUE, provista |-> provista]

\* Mutant of Reemplazada: the policy before is switched off instead of ended.
Reemplazada_apagada(p, desde) == [p EXCEPT !.activa = FALSE]

\* What is left of a policy when another one begins.
Reemplazada(p, desde) ==
    IF p.desde = desde THEN [p EXCEPT !.activa = FALSE]
    ELSE [p EXCEPT !.hasta = desde - 1]

-------------------------------------------------------------------------------
(* Requests *)

createPricePolicy(alcance, desde, hasta) ==
    /\ desde <= hasta
    /\ LET previas == {p \in Solapadas(politicas, alcance, desde, hasta) : p.activa}
           tras == (politicas \ previas)
                     \cup {Reemplazada(p, desde) : p \in previas}
                     \cup {Nueva(alcance, desde, hasta, FALSE)}
       IN  /\ \A p \in previas : p.desde <= desde
           /\ Admisible(tras)
           /\ politicas' = tras
    /\ UNCHANGED provision

\* The form finds a policy of the organization for the day, active or not, or
\* will add one.  The lock of the model lets in one form at a time.
provisionVersionWithPolicy(desde, dia) ==
    /\ provision = Siempre /\ desde <= dia
    /\ Solapadas(politicas, DeTodas, dia, dia) = {}
    /\ provision' = desde
    /\ UNCHANGED politicas

Provee ==
    /\ provision # Siempre
    /\ LET tras == politicas \cup {Nueva(DeTodas, provision, Siempre, TRUE)}
       IN  Admisible(tras) /\ politicas' = tras
    /\ provision' = Siempre

\* The transaction of the form ends without a trace.
DeshaceProvision ==
    /\ provision # Siempre
    /\ provision' = Siempre
    /\ UNCHANGED politicas

-------------------------------------------------------------------------------
(* Properties *)

PreciosOK ==
    /\ Admisible(politicas)
    /\ \A p \in politicas : p.alcance \in Alcances /\ p.desde \in Dias
    /\ provision \in Dias \cup {Siempre}

\* The policy that a step adds by hand is the price of every day of its range,
\* in its scope, and of no earlier day: what was sold before keeps its price.
\* The price of a branch is only its own.
NoReescribe ==
    \A n \in politicas' \ politicas :
        (~ n.provista /\ n.id > Cardinality(politicas)) =>
            \A s \in Alcances, d \in Dias :
                IF d < n.desde \/ n.alcance \notin {s, DeTodas}
                THEN findEffectivePricePolicy(politicas', s, d)
                       = findEffectivePricePolicy(politicas, s, d)
                ELSE (s = n.alcance /\ d <= n.hasta) =>
                        findEffectivePricePolicy(politicas', s, d) = {n.id}

\* No day has two active policies of one scope, but for provisioned ones, that
\* are written under another lock and without looking at other days.
SinSolapes ==
    \A p, q \in politicas :
        (p # q /\ p.alcance = q.alcance /\ p.activa /\ q.activa
            /\ ~ p.provista /\ ~ q.provista)
        => p.hasta < q.desde \/ q.hasta < p.desde

\* The price of every day is the one the last policy for it set.
PrecioDeCadaDia == [][NoReescribe /\ SinSolapes']_preciosVars
===============================================================================
