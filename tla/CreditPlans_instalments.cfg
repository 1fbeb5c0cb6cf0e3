SPECIFICATION Spec
CONSTANTS
    p1 = p1
    k1 = k1
    Planes = {p1}
    Creditos = {k1}
    MaxCuotas = 2
    MaxFinanciado = 3
    MaxIngresos = 2
    MaxMovimientos = 3
    MaxEnCurso = 2
INVARIANTS
    TypeOK
    FinalizadoSiiPagadas
    CuotasCuadran
