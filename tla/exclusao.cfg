SPECIFICATION Spec
CONSTANTS
    d1 = d1
    d2 = d2
    Brokers = {1, 2}
    Drones = {d1, d2}
    Pedidos <- DoisEUm
    Descarregam = {}
    MaxSalto = 1
    MaxFalhas = 0
    MaxQuedas = 0
INVARIANTS ExclusaoSalvoFuros ReservaSalvoFuros AdiadosEsperamAlguem EsperaTemMotivo
PROPERTIES SoSobreposicaoPerde
SYMMETRY Frota
CONSTRAINT NenhumPouso
CHECK_DEADLOCK FALSE
