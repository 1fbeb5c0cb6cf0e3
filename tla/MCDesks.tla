-------------------------------- MODULE MCDesks --------------------------------
(* A small instance of Desks for TLC. *)
EXTENDS Desks, TLC

CONSTANTS s1, s2, primero, v1, v2, u1, u2, u3, c1, c2, c3

LasListas == {<<>>, <<"pendiente">>, <<"si">>, <<"si", "no">>}

\* One plate written in two ways, another one, and a blank.
LasPatentes == {[letras |-> "AB123CD", escrita |-> "AB 123 CD"],
                [letras |-> "AB123CD", escrita |-> "AB-123-CD"],
                [letras |-> "EF456GH", escrita |-> "EF456GH"],
                [letras |-> "", escrita |-> ""]}

SinTipos == primero :> NoHay
ConTipos == primero :> [tareas |-> 1, activo |-> TRUE]

VentaEn(estado, unidad, modalidad, importe) ==
    [estado |-> estado, unidad |-> unidad, modalidad |-> modalidad,
     importe |-> importe, estimada |-> IF modalidad = NoHay THEN NoHay ELSE Plazo,
     recibida |-> FALSE, entregada |-> NoHay]

\* The first client pays the plate; the second sale says nothing of it and its
\* unit is a used one.
LasVentas == v1 :> VentaEn("APROBADA", u1, "PAGA_CLIENTE", 2)
             @@ v2 :> VentaEn("PENDIENTE_APROBACION", NoHay, NoHay, NoHay)
Aprobadas == v1 :> VentaEn("APROBADA", u1, "BONIFICADA", NoHay)
             @@ v2 :> VentaEn("APROBADA", u2, "BONIFICADA", NoHay)
Entregadas == [Aprobadas EXCEPT ![v1].entregada = 0]

Nuevas == u1 :> NoHay @@ u2 :> NoHay @@ u3 :> NoHay
Usada3 == [Nuevas EXCEPT ![u3] = [letras |-> "AB123CD", escrita |-> "AB 123 CD"]]

\* One client without a document, so that an edition may give it one.
UnCliente == c1 :> [doc |-> SinDato, activo |-> TRUE] @@ c2 :> SinDato @@ c3 :> SinDato

Nadie == [tipos |-> 0, altas |-> 0, taller |-> 0, entregas |-> 0, ventas |-> 0,
          modalidades |-> 0, patentes |-> 0, stock |-> 0, cobros |-> 0,
          dias |-> 0, avisos |-> 0, motos |-> {}, precios |-> 0, consultas |-> 0,
          clientes |-> 0]

Ordinario(q) ==
    [tipos |-> ConTipos, ventas |-> LasVentas, placas |-> Nuevas, hoy |-> 0,
     clientes |-> UnCliente, quedan |-> q]

\* Behaviours apart.  The workshop: an order worked on, signed, reopened and
\* delivered; two deliveries against the finance office; types of service.
DelTaller ==
    {Ordinario([Nadie EXCEPT !.altas = 1, !.taller = 4, !.entregas = 1]),
     Ordinario([Nadie EXCEPT !.altas = 1, !.taller = 2, !.entregas = 2,
                             !.cobros = 1]),
     [Ordinario([Nadie EXCEPT !.tipos = 2, !.altas = 2, !.taller = 1])
        EXCEPT !.tipos = SinTipos]}

\* Plates: what is charged, the calendar, two plates at once, stock among them.
DePatentes ==
    {[Ordinario([Nadie EXCEPT !.ventas = 1, !.modalidades = 1, !.patentes = 1,
                              !.cobros = 2]) EXCEPT !.placas = Usada3],
     [Ordinario([Nadie EXCEPT !.ventas = 3, !.modalidades = 1, !.patentes = 1,
                              !.dias = 2]) EXCEPT !.placas = Usada3],
     [Ordinario([Nadie EXCEPT !.ventas = 2, !.patentes = 3])
        EXCEPT !.placas = Usada3, !.ventas = Aprobadas],
     [Ordinario([Nadie EXCEPT !.ventas = 1, !.patentes = 2, !.stock = 2])
        EXCEPT !.ventas = Aprobadas],
     Ordinario([Nadie EXCEPT !.patentes = 1, !.stock = 2, !.dias = 2])}

\* A delivered unit is called about while it comes to the workshop; the delivery
\* is corrected between two calls.
DeAvisos ==
    {[Ordinario([Nadie EXCEPT !.altas = 1, !.taller = 2, !.avisos = 2, !.dias = 3,
                              !.motos = {u1}])
        EXCEPT !.ventas = Entregadas],
     [Ordinario([Nadie EXCEPT !.ventas = 2, !.avisos = 3, !.dias = 3,
                              !.motos = {u1}])
        EXCEPT !.ventas = Entregadas]}

DePrecios == {[Ordinario([Nadie EXCEPT !.precios = 3]) EXCEPT !.hoy = 2]}

DeConsultas == {Ordinario([Nadie EXCEPT !.consultas = 3, !.clientes = 1])}

LosEscenarios == DelTaller \cup DePatentes \cup DeAvisos \cup DePrecios \cup DeConsultas

\* Two payloads of one document and one of another.
LosPedidos == [doc : {"d1"}, resto : {"a", "b"}] \cup {[doc |-> "d2", resto |-> "a"]}

Simetria == Permutations(Procesos) \cup Permutations(Claves)
              \cup Permutations(Mostrador)
===============================================================================
