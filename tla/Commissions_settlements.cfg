SPECIFICATION Spec
CONSTANTS
    o1 = o1
    o2 = o2
    norte = norte
    sur = sur
    Operaciones = {o1, o2}
    SucursalDe <- SucursalDeCada
    Precio <- PrecioDeCada
    Principal = norte
    GERENTE = GERENTE
    UltimoMes = 2
    DiasMes = 4
    Medio = 2
    MinDias = 3
    DiasVenta = {4, 5}
    DiasPolitica = {3, 6}
    Politicas = {1, 2, 3}
    Escalas <- EscalasPedidas
    Porcentajes = {1}
    Importes = {1, 2}
    Pedidos = {k1, k2}
    Siempre = 99
    Escenarios <- LosEscenarios
    NoHay = NoHay
INVARIANTS
    TypeOK
    CadaVentaEnSuMes
    UnaPoliticaPorDia
PROPERTIES
    PagadaNoCambia
    SePagaLoVisto
    PagoConfirmado
CHECK_DEADLOCK FALSE
