CONSTANTS
    page = page
    entry = entry
    A = A
    B = B
    any = any
    journals = journals
    plain = plain
    journal = journal
    mine = mine
    all = all
    bad = bad
    gone = gone
    Paths = {page, entry}
    Names = {A, B}
    Patterns = {any, journals}
    Matching <- MCMatching
    Types = {plain, journal}
    Missing = gone
    Contents = {mine, all, bad, gone}
    Yaml <- MCYaml
    Defaults <- MCDefaults
    None = None
    FaultKinds = {"crash", "kill", "sync", "chroma"}
    MaxFaults = 2
    MaxEdits = 3
SPECIFICATION Spec
CHECK_DEADLOCK FALSE
INVARIANTS
    RowsFollowConfig
    TypesAgreeWithoutFaults
