SPECIFICATION Spec
CONSTANTS
    b1 = b1
    b2 = b2
    b3 = b3
    b4 = b4
    pais = pais
    oc1 = oc1
    Brokers = {b1, b2}
    Contas = {pais}
    Ocorrencias = {oc1}
    MaxBlocos = 2
    SaldoInicial = 10
    Custo = 10
    Recompensa = 5
    Recarga = 100
    LimiteRecarga = 20
    Demandas <- RecargaEFraude
    Maliciosos = {b2}
    Iniciantes = {b2}
    MaxQuedas = 2
INVARIANTS TypeOK ChainsValidas AdulteradoIsolado PassadoComum
PROPERTIES  ImplementaLivro
CHECK_DEADLOCK FALSE
