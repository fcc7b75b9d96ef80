\* Three accounts, 2 units of ether, amounts below 3, one inner frame at a time.
CONSTANTS
    a1 = a1
    a2 = a2
    a3 = a3
    Addr = {a1, a2, a3}
    Modulus = 3
    Chain <- MCChain
    Values = {0, 1}
    MaxDepth = 1
    Nil = Nil
SPECIFICATION Spec
SYMMETRY Symmetry
INVARIANTS
    TypeOK
    BeforeIntact
    AfterIsCurrent
    NoOverdraft
    BalancesExact
    NeverRicher
    NothingMinted
