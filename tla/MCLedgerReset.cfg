SPECIFICATION InOrderSpec
CONSTANTS
    BudgetShapes <- MCBudgetShapes
    Budgets <- MCBudgets
    SectionTypes <- MCSectionTypes
    SectionOrder <- MCSectionOrder
    ExactSections <- MCExactSections
    NaiveTokens <- MCNaiveTokens
    SentTokens <- MCSentTokens
    OmissionTokens <- MCOmissionTokens
    InvalidationTokens <- MCInvalidationTokens
    s1 = s1
    s2 = s2
    Sessions = {s1}
    Sections <- MCSections
    Shapes <- ResetShapes
    Clocks <- LongClocks
INVARIANT ResetForcesResend
CHECK_DEADLOCK FALSE
