SPECIFICATION Spec
CONSTANTS
    Operation = {o1, o2, o3}
    Action = {a}
    Poll = {p}
    Cli = {c1, c2}
    Nobody = nobody
INVARIANTS OneWorks FlagShowsTask
PROPERTIES FlagClears
