SPECIFICATION Spec
CONSTANTS
    o1 = o1
    o2 = o2
    u1 = u1
    u2 = u2
    a1 = a1
    a2 = a2
    k1 = k1
    k2 = k2
    moto = moto
    moto2 = moto2
    usada = usada
    auto = auto
    norte = norte
    sur = sur
    ana = ana
    Operaciones = {o1}
    Unidades = {u1}
    Disponibilidades = {}
    Solicitudes = {k1, k2}
    Sucursales = {norte}
    Versiones = {moto}
    Motos = {moto}
    Usadas = {}
    VersionDe <- DeMoto
    Usuarios = {ana}
    MaxCantidad = 0
    Ninguna = Ninguna
SYMMETRY Simetria
INVARIANTS
    UnPedidoVigentePorOperacion


