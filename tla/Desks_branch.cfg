SPECIFICATION Spec
CONSTANTS
    s1 = s1
    s2 = s2
    primero = primero
    v1 = v1
    v2 = v2
    u1 = u1
    u2 = u2
    u3 = u3
    c1 = c1
    c2 = c2
    c3 = c3
    NoHay = NoHay
    Claves = {k1, k2}
    Importes = {0, 1, 2}
    MaxIngresos = 2
    Ordenes = {s1, s2}
    Tipos = {primero}
    Otros = {frenos, luces}
    Listas <- LasListas
    PorDefecto = 2
    Procesos = {p1, p2}
    Ventas = {v1, v2}
    Unidades = {u1, u2, u3}
    Patentes <- LasPatentes
    Plazo = 1
    MaxDia = 3
    FIRST_SERVICE_DAYS = 2
    UnAnio = 3
    DAYS_AHEAD = 1
    OVERDUE_DAYS = 1
    Sucursales = {b1}
    DeTodas = DeTodas
    UltimoDia = 4
    Clientes = {c1, c2, c3}
    Documentos = {"d1", "d2"}
    SinDato = SinDato
    LlavesConsulta = {q1, q2}
    Pedidos <- LosPedidos
    Mostrador = {m1, m2, m3}
    Escenarios <- LosEscenarios
SYMMETRY Simetria
INVARIANTS
    TypeOK
    EntregadaCompleta
    PatenteAlDia
    NoSeLlamaDosVeces
    ConsultaUnaVez
PROPERTY
    PrecioDeCadaDia
CHECK_DEADLOCK FALSE
