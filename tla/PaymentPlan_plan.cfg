SPECIFICATION Spec
CONSTANTS
    f1 = f1
    f2 = f2
    Plataformas <- MCPlataformas
    Precios = {1, 2}
    Politicas <- MCPoliticas
    Financieras = {f1, f2}
    TiposEnviados <- MCTipos
    MaxEntradas = 2
    MaxComponentes = 2
    MaxIngresos = 2
    MaxMovimientos = 3
    MaxAprobaciones = 2
    MaxEnCurso = 2
SYMMETRY MCSimetria
INVARIANTS
    TypeOK
    PrecioAutorizado
    EstadoDelComponente
PROPERTY
    CorreccionCuadra
