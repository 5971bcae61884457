SPECIFICATION Spec
CONSTANTS
    d1 = d1
    d2 = d2
    Brokers = {1, 2}
    Drones = {d1}
    Pedidos <- UmPago
    Descarregam = {d1}
    MaxSalto = 1
    MaxFalhas = 1
    MaxQuedas = 1
INVARIANTS TypeOK  SemDespertarPerdido
 
VIEW VistaDeUm
CHECK_DEADLOCK FALSE
