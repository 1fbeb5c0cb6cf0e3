SPECIFICATION Spec
CONSTANTS
    c1 = c1
    c2 = c2
    i1 = i1
    g1 = g1
    p1 = p1
    v1 = v1
    w1 = w1
    t1 = t1
    norte = norte
    sur = sur
    k1 = k1
    k2 = k2
    k3 = k3
    socio = socio
    Cuentas = {c1, c2}
    Importadas = {}
    ResponsableDe <- UnSocio
    Ingresos = {i1}
    Gastos = {g1}
    Compras = {p1}
    Pagos = {v1}
    Retiros = {w1}
    Transferencias = {t1}
    Sucursales = {norte}
    Claves = {k1, k2, k3}
    MaxImporte = 2
    MaxMovimientos = 4
    MaxFilas = 1
    MaxEnCurso = 2
    Ninguna = Ninguna
SYMMETRY Simetria
INVARIANTS
    TypeOK
    CobradoSegunLibro
    EnteroODeshecho
    CuentasCuadran
PROPERTY
    ImplementaLibro
