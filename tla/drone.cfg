SPECIFICATION Spec
CONSTANTS
    Brokers = {b1, b2}
    Consumos = {16}
    MaxFalhas = 1
SYMMETRY Simetria
INVARIANTS TypeOK UmVooPorVez AlguemDevolve BateriaBasta SoEsqueceRetido
CHECK_DEADLOCK FALSE
