SPECIFICATION Spec
CONSTANTS
    Entradas = {o1, o2, o3, o4}
    Instantes = {1, 2}
    Teto = 4
INVARIANTS TypeOK EsperaLimitada
PROPERTIES ImplementaEspera
SYMMETRY Simetria
