\* One contract and two free addresses, frames nested twice, nonces up to 3.  A
\* creation that would pass that bound stops there, so deadlock is not checked.
CONSTANTS
    factory = factory
    a1 = a1
    a2 = a2
    Addr = {factory, a1, a2}
    MaxNonce = 3
    MaxDepth = 2
    ChainNonce <- MCChainNonce
    Contracts = {factory}
    Nil = Nil
SYMMETRY FreeAddresses
SPECIFICATION Spec
INVARIANTS
    TypeOK
    NoncesCoherent
    NoncesExact
    AddressesFresh
PROPERTIES
    NoncesNeverFall
CHECK_DEADLOCK FALSE
