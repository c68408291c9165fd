\* Callers may bind a token that another window holds.
SPECIFICATION Spec
CONSTANTS
    Markets = {m1}
    References = {ref}
    Symbols = {s1}
    Tokens = {t1, t2, t3}
    MaxId = 4
    FreshTokens = FALSE
    None = None
INVARIANT
    TokensExact
\* A registry whose keys are all taken and that has no windows is at rest.
CHECK_DEADLOCK FALSE
