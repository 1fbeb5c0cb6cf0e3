----------------------------- MODULE MCCommissions -----------------------------
(* A small instance of Commissions for TLC. *)
EXTENDS Commissions, TLC

CONSTANTS o1, o2, norte, sur

SucursalDeCada == o1 :> norte @@ o2 :> sur

PrecioDeCada == o1 :> 100 @@ o2 :> 200

Tramo(min, max, importe) ==
    [minUnits |-> min, maxUnits |-> max, fixedAmount |-> importe]

Escala == <<Tramo(1, 1, 1), Tramo(2, Siempre, 3)>>

\* One valid scale and three that are refused.
EscalasPedidas ==
    {Escala, <<>>, <<Tramo(2, Siempre, 1)>>, <<Tramo(1, 1, 1), Tramo(3, Siempre, 2)>>}

Rige(ambito) == [estado |-> "ACTIVA", ambito |-> ambito, desde |-> 1,
                 hasta |-> Siempre, escala |-> Escala]

DosEscalas == 1 :> Rige("VENDEDOR") @@ 2 :> Rige("GERENCIA") @@ 3 :> NoHay

SinEscalas == [p \in Politicas |-> NoHay]

Porciento == [modo |-> "PORCENTAJE", porcentaje |-> 1, politica |-> NoHay,
              alcance |-> "TODAS_LAS_SUCURSALES", activo |-> TRUE]

DeEscala == [modo |-> "ESCALA", porcentaje |-> NoHay, politica |-> 2,
             alcance |-> "TODAS_LAS_SUCURSALES", activo |-> TRUE]

Topes(v, c, a, g, p, per) ==
    [ventas |-> v, cortes |-> c, acuerdos |-> a, acuerdosG |-> g, pagos |-> p,
     perdidas |-> per, politicas |-> 0, config |-> 0]

\* Behaviours apart: the calendar with settlements of a seller and of the
\* manager; payments of the seller; of the manager; configurations; policies.
LosEscenarios ==
    {[politicas |-> DosEscalas, config |-> DeEscala, quedan |-> Topes(2, 1, 2, 0, 0, 0)],
     [politicas |-> DosEscalas, config |-> DeEscala, quedan |-> Topes(1, 2, 2, 0, 0, 0)],
     [politicas |-> DosEscalas, config |-> DeEscala, quedan |-> Topes(2, 2, 0, 2, 0, 0)],
     [politicas |-> DosEscalas, config |-> NoHay, quedan |-> Topes(0, 0, 3, 0, 2, 2)],
     [politicas |-> DosEscalas, config |-> Porciento, quedan |-> Topes(2, 0, 0, 2, 2, 1)],
     [politicas |-> DosEscalas, config |-> NoHay,
      quedan |-> [Topes(1, 0, 0, 1, 0, 0) EXCEPT !.politicas = 2, !.config = 1]],
     [politicas |-> SinEscalas, config |-> NoHay,
      quedan |-> [Topes(0, 0, 0, 0, 0, 0) EXCEPT !.politicas = 4]]}
===============================================================================
