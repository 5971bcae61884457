SPECIFICATION Spec
CONSTANTS
    b1 = b1
    b2 = b2
    b3 = b3
    b4 = b4
    pais = pais
    oc1 = oc1
    Brokers = {b1, b2, b3}
    Contas = {pais}
    Ocorrencias = {oc1}
    MaxBlocos = 2
    SaldoInicial = 10
    Custo = 10
    Recompensa = 5
    Recarga = 100
    LimiteRecarga = 20
    Demandas <- DoisAutores
    Maliciosos = {}
    Iniciantes = {}
    MaxQuedas = 0
INVARIANTS ChainsValidas VotosReais MaioriaAceitou BifurcacaoTemVotoDuplo
PROPERTIES DisputaMonotona
SYMMETRY Troca
VIEW Vista
CHECK_DEADLOCK FALSE
