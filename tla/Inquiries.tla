------------------------------- MODULE Inquiries -------------------------------
(***************************************************************************)
(* Credit inquiries (src/src/credit-inquiries): an inquiry is registered   *)
(* once per Idempotency-Key, however often its request is sent.  A request *)
(* looks the key up in one transaction and registers in another one, that  *)
(* locks the document, finds or creates the client and may lose to another *)
(* request at the unique indexes; then it looks the key up again.          *)
(*                                                                         *)
(* A payload is a document and the rest of its fingerprint.  Left out: the *)
(* institution, registrant, branch and operation, that only refuse a       *)
(* request, and the lists.                                                 *)
(***************************************************************************)
EXTENDS Clients

CONSTANTS
    LlavesConsulta,   \* values of the Idempotency-Key
    Pedidos,          \* payloads: [doc, resto]
    Mostrador         \* requests in flight

VARIABLES
    consultas,    \* inquiries: key, payload and client  consultas_crediticias
    tramites,     \* [Mostrador -> request or SinDato]   where each request is
    respuestas    \* history: what the requests were answered

consultasVars == <<clientesVars, consultas, tramites, respuestas>>

\* The unique index of the keys.
ConClave(clave) == {q \in consultas : q.clave = clave}

En(p, fase) == tramites[p] # SinDato /\ tramites[p].fase = fase

SigueEn(p, fase, cliente) ==
    tramites' = [tramites EXCEPT ![p].fase = fase, ![p].cliente = cliente]

Responde(p, resultado, cliente) ==
    /\ respuestas' = respuestas \cup
          {[clave |-> tramites[p].clave, pedido |-> tramites[p].pedido,
            resultado |-> resultado, cliente |-> cliente]}
    /\ tramites' = [tramites EXCEPT ![p] = SinDato]

\* The same key again: its inquiry, or a conflict when the payload is another.
replay(p) ==
    LET q == CHOOSE x \in consultas : x.clave = tramites[p].clave
    IN  IF q.pedido = tramites[p].pedido
        THEN Responde(p, "consulta", q.cliente)
        ELSE Responde(p, "otro pedido", SinDato)

-------------------------------------------------------------------------------
(* The steps of a request *)

Enviar(p, clave, pedido) ==
    /\ tramites[p] = SinDato
    /\ tramites' = [tramites EXCEPT ![p] =
          [fase |-> "buscar", clave |-> clave, pedido |-> pedido,
           cliente |-> SinDato]]
    /\ UNCHANGED <<clientesVars, consultas, respuestas>>

findByIdempotencyKey(p) ==
    /\ En(p, "buscar")
    /\ IF ConClave(tramites[p].clave) # {} THEN replay(p)
       ELSE SigueEn(p, "registrar", SinDato) /\ UNCHANGED respuestas
    /\ UNCHANGED <<clientesVars, consultas>>

\* The lock of the document, to the end of the transaction, and the client.
findOrCreateClient(p) ==
    LET doc == tramites[p].pedido.doc
    IN  /\ En(p, "registrar") /\ BloqueaDocumento(doc)
        /\ bloqueos' = bloqueos \cup {doc}
        /\ SigueEn(p, "confirmar",
                IF ClientesCon(doc) = {} THEN SinDato
                ELSE CHOOSE c \in ClientesCon(doc) : TRUE)
        /\ UNCHANGED <<clientes, editados, consultas, respuestas>>

\* The commit, with the client c it creates or found; or the unique violation
\* of the key or of the document.
createInquiry(p, c) ==
    LET r == tramites[p]
        nuevo == r.cliente = SinDato
    IN  /\ En(p, "confirmar")
        /\ IF nuevo THEN clientes[c] = SinDato ELSE c = r.cliente
        /\ bloqueos' = bloqueos \ {r.pedido.doc}
        /\ IF ConClave(r.clave) = {} /\ (nuevo => Disponible(r.pedido.doc))
           THEN /\ clientes' = IF nuevo THEN Alta(c, r.pedido.doc) ELSE clientes
                /\ consultas' = consultas \cup
                      {[clave |-> r.clave, pedido |-> r.pedido, cliente |-> c]}
                /\ Responde(p, "consulta", c)
           ELSE /\ SigueEn(p, "releer", SinDato)
                /\ UNCHANGED <<clientes, consultas, respuestas>>
        /\ UNCHANGED editados

\* After the unique violation.
Releer(p) ==
    /\ En(p, "releer")
    /\ IF ConClave(tramites[p].clave) # {} THEN replay(p)
       ELSE Responde(p, "conflicto", SinDato)
    /\ UNCHANGED <<clientesVars, consultas>>

\* The request is lost, by an error or a restart; its transaction, if it has
\* one, is rolled back.
Perder(p) ==
    /\ tramites[p] # SinDato
    /\ bloqueos' = IF En(p, "confirmar") THEN bloqueos \ {tramites[p].pedido.doc}
                   ELSE bloqueos
    /\ tramites' = [tramites EXCEPT ![p] = SinDato]
    /\ UNCHANGED <<clientes, editados, consultas, respuestas>>

Paso(p) ==
    \/ findByIdempotencyKey(p)
    \/ findOrCreateClient(p)
    \/ \E c \in Clientes : createInquiry(p, c)
    \/ Releer(p)
    \/ Perder(p)

-------------------------------------------------------------------------------
(* Properties *)

ConsultasOK ==
    /\ ClientesOK
    /\ \A q \in consultas : q.pedido \in Pedidos /\ clientes[q.cliente] # SinDato
    /\ \A p \in Mostrador : tramites[p] # SinDato =>
          tramites[p].fase \in {"buscar", "registrar", "confirmar", "releer"}

\* A request is registered once: every answer to one key and payload is the one
\* inquiry of that key; the inquiries of one document are of one client; and a
\* request is refused only if its key belongs to another payload or somebody
\* edited the client of its document meanwhile.  However many copies of it run
\* at once, are lost or are sent again.
ConsultaUnaVez ==
    /\ \A r \in respuestas : r.resultado = "consulta" =>
          ConClave(r.clave) =
             {[clave |-> r.clave, pedido |-> r.pedido, cliente |-> r.cliente]}
    /\ \A q, x \in consultas : q.pedido.doc = x.pedido.doc =>
          q.cliente = x.cliente \/ q.pedido.doc \in editados
    /\ \A r \in respuestas :
          /\ r.resultado = "otro pedido" =>
                \E q \in ConClave(r.clave) : q.pedido # r.pedido
          /\ r.resultado = "conflicto" => r.pedido.doc \in editados
===============================================================================
