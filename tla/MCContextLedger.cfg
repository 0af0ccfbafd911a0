SPECIFICATION LedgerSpec
CONSTANTS
    BudgetShapes <- MCBudgetShapes
    Budgets <- MCBudgets
    SectionTypes <- MCSectionTypes
    SectionOrder <- MCSectionOrder
    ExactSections <- MCExactSections
    NaiveTokens <- MCNaiveTokens
    SentTokens <- MCSentTokens
    OmissionTokens <- MCOmissionTokens
    InvalidationTokens <- MCInvalidationTokens
    s1 = s1
    s2 = s2
    Sessions = {s1, s2}
    Sections <- MCSections
    Shapes <- MCShapes
    Clocks <- MCClocks
INVARIANTS
    TypeOK
    OmitBacked
    InvalidateOnce
    PruningIsAllowed
PROPERTY KeepsPromise
CHECK_DEADLOCK FALSE
