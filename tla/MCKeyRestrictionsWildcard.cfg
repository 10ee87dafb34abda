CONSTANTS
    Targets = {token, exchange}
    Selectors = {transfer, approve, wildcard}
    SelectorWildcard = wildcard
    Recipients = {bob, carol}
    Lists = {{}, {bob}}
    MaxRules = 2
    MaxScopes = 2
SYMMETRY Symmetry
SPECIFICATION Spec
INVARIANTS WildcardIsWild
