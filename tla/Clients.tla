-------------------------------- MODULE Clients --------------------------------
(***************************************************************************)
(* The clients of an organization (src/src/clients) and the other requests *)
(* that find or create one by its document: a sale and a credit inquiry.   *)
(* Those lock the document; the edition of a client does not, and the      *)
(* unique index of the documents decides.  Names, phones and addresses are *)
(* left out, and clients without a document but for their place.           *)
(***************************************************************************)
EXTENDS Naturals, FiniteSets, FiniteSetsExt

CONSTANTS
    Clientes,     \* ids of clients
    Documentos,   \* documents, as type and normalized number
    SinDato       \* SQL NULL

VARIABLES
    clientes,     \* [Clientes -> row or SinDato]
    bloqueos,     \* documents locked by a transaction that looks for a client
    editados      \* history: documents an edition gave to a client, or took

clientesVars == <<clientes, bloqueos, editados>>

Alta(c, doc) == [clientes EXCEPT ![c] = [doc |-> doc, activo |-> TRUE]]

\* The client who has a document.
ClientesCon(doc) ==
    {c \in Clientes : clientes[c] # SinDato /\ clientes[c].doc = doc}

\* The unique index of type and number.
Disponible(doc) == doc = SinDato \/ ClientesCon(doc) = {}

\* Mutant of BloqueaDocumento: the document is not locked.
BloqueaDocumento_sinEsperar(doc) == TRUE

\* The advisory lock of the document is granted when nobody has it.
BloqueaDocumento(doc) == doc \notin bloqueos

-------------------------------------------------------------------------------
(* Requests, each one transaction *)

createClient(c, doc) ==
    /\ clientes[c] = SinDato
    /\ doc # SinDato => BloqueaDocumento(doc)
    /\ Disponible(doc)
    /\ clientes' = Alta(c, doc)
    /\ UNCHANGED <<bloqueos, editados>>

\* The edition locks the client, not the document.
updateClient(c, doc) ==
    /\ clientes[c] # SinDato /\ clientes[c].doc # doc
    /\ Disponible(doc)
    /\ clientes' = [clientes EXCEPT ![c].doc = doc]
    /\ editados' = editados \cup ({doc, clientes[c].doc} \ {SinDato})
    /\ UNCHANGED bloqueos

updateStatus(c, activo) ==
    /\ clientes[c] # SinDato /\ clientes[c].activo # activo
    /\ clientes' = [clientes EXCEPT ![c].activo = activo]
    /\ UNCHANGED <<bloqueos, editados>>

\* A sale with the client's data: an inactive client is active again.
resolveClient(c, doc) ==
    /\ BloqueaDocumento(doc)
    /\ IF ClientesCon(doc) # {}
       THEN c \in ClientesCon(doc)
            /\ clientes' = [clientes EXCEPT ![c].activo = TRUE]
       ELSE clientes[c] = SinDato /\ clientes' = Alta(c, doc)
    /\ UNCHANGED <<bloqueos, editados>>

-------------------------------------------------------------------------------
ClientesOK ==
    /\ \A c \in Clientes : clientes[c] # SinDato =>
          clientes[c].doc \in Documentos \cup {SinDato}
            /\ clientes[c].activo \in BOOLEAN
    /\ \A doc \in Documentos : Cardinality(ClientesCon(doc)) <= 1
    /\ bloqueos \subseteq Documentos /\ editados \subseteq Documentos
===============================================================================
