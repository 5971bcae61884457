SPECIFICATION SpecJusta
CONSTANTS
    d1 = d1
    d2 = d2
    Brokers = {1, 2}
    Drones = {d1}
    Pedidos <- UmPago
    Descarregam = {}
    MaxSalto = 1
    MaxFalhas = 0
    MaxQuedas = 1
PROPERTIES PedidoLiberado
CHECK_DEADLOCK FALSE
