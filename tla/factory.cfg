CONSTANTS
    w1 = w1
    w2 = w2
    w3 = w3
    l1 = l1
    l2 = l2
    l3 = l3
    Wallets <- ThreeWallets
    Loans <- ThreeLoans
    Nobody = Nobody
    Restricted = TRUE
SPECIFICATION Spec
INVARIANTS
    RegistryAgrees
    LoansListed
PROPERTIES
    ImplementsOwnership
