SPECIFICATION Spec
CONSTANTS
    b1 = b1
    b2 = b2
    pais = pais
    oc1 = oc1
    Brokers = {b1, b2}
    Contas = {pais}
    Ocorrencias = {oc1}
    MaxBlocos = 5
    SaldoInicial = 30
    Custo = 10
    Recompensa = 5
    Recarga = 100
    LimiteRecarga = 20
    Gravadores = {1, 2}
    Inodes = {1, 2, 3, 4}
    Autor = b1
    MaxCommits = 3
    Propostas <- PagamentosELaudos
    Recebidas <- UmaRecebida
    MaxParadas = 2
INVARIANTS TypeOK ArquivoSalvoCorrida DiscoAtual SaldosSalvoFuros PerdaLimitada
CHECK_DEADLOCK FALSE
