SPECIFICATION Spec
CONSTANTS
    o1 = o1
    o2 = o2
    u1 = u1
    u2 = u2
    a1 = a1
    a2 = a2
    k1 = k1
    k2 = k2
    moto = moto
    moto2 = moto2
    usada = usada
    auto = auto
    norte = norte
    sur = sur
    ana = ana
    Operaciones = {o1, o2}
    Unidades = {u1, u2}
    Disponibilidades = {}
    Solicitudes = {}
    Sucursales = {norte, sur}
    Versiones = {moto, usada}
    Motos = {moto, usada}
    Usadas = {usada}
    VersionDe <- DeMoto
    Usuarios = {ana}
    MaxCantidad = 0
    Ninguna = Ninguna
SYMMETRY Simetria
INVARIANTS
    StockConsistente
    UnidadDeUnaSolaVenta
    VendidaEnVentaCerrada
    UnidadDeLaOperacion
PROPERTIES
    CambioDesactualiza
    EntregadaConservaUnidad
    ImplementaArriendo
