\* The constants of MCBalances.cfg.
CONSTANTS
    a1 = a1
    a2 = a2
    a3 = a3
    Addr = {a1, a2, a3}
    Modulus = 3
    Chain <- MCChain
    Values = {0, 1}
    MaxDepth = 1
    Nil = Nil
SPECIFICATION Spec
SYMMETRY Symmetry
INVARIANTS
    SelfDestructPays
