CONSTANTS
    page = page
    entry = entry
    A = A
    B = B
    any = any
    journals = journals
    plain = plain
    journal = journal
    mine = mine
    all = all
    bad = bad
    gone = gone
    Paths = {page, entry}
    Names = {A, B}
    Patterns = {any, journals}
    Matching <- MCMatching
    Types = {plain, journal}
    Missing = gone
    Contents = {mine, all, bad, gone}
    Yaml <- MCYaml
    Defaults <- MCDefaults
    None = None
    FaultKinds = {"crash"}
    MaxFaults = 1
    MaxEdits = 1
SPECIFICATION Spec
CHECK_DEADLOCK FALSE
INVARIANTS
    DenseTypesMatch
