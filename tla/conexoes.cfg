\* Two brokers and one failure of any kind.
SPECIFICATION SpecJusta
CONSTANTS
    Brokers = {1, 2}
    MaxSockets = 5
    MaxFalhas = 1
INVARIANTS
    TypeOK
    EntradaComLeitor
PROPERTIES
    AlguemVolta
    QuebraNotada
\* Connected brokers that nothing disturbs have nothing left to do.
CHECK_DEADLOCK FALSE
