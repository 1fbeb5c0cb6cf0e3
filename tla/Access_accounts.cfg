SPECIFICATION Spec
CONSTANTS
    ana = ana
    beto = beto
    caro = caro
    ADMINISTRADOR = ADMINISTRADOR
    TALLER = TALLER
    NUEVO = NUEVO
    GESTION = GESTION
    VENTAS = VENTAS
    Usuarios = {ana, beto, caro}
    Roles = {ADMINISTRADOR, TALLER, NUEVO}
    Conjuntos <- Pedidos
    Sesiones = {1, 2, 3}
    Procesos = {p1, p2}
    Escenarios <- LosEscenarios
    NoHay = NoHay
SYMMETRY Simetria
INVARIANTS
    TypeOK
    Administrable
    SesionDeSuClave
    InvitacionAlDia
CHECK_DEADLOCK FALSE
