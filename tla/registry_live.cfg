SPECIFICATION FairSpec
CONSTANTS
    A = A
    B = B
    hp = hp
    s1 = s1
    s2 = s2
    t1 = t1
    t2 = t2
    None = None
    Raw = Raw
    Symbols = {s1}
    Targets = {t1}
    Admins = {a1, a2}
    Players = {p1}
    a1 = a1
    a2 = a2
    p2 = p2
    p1 = p1
    Catalog <- MCShortCatalog
    Exported <- MCExportedOne
    Located <- MCExportedOne
    Signed = {s1}
    ApiModes = {"invoke", "enter"}
    RawTargets = {}
    Hookable = {t1}
    MaxEntries = 1
PROPERTIES
    AdminCallsReturn
    PlayerCallsReturn
CHECK_DEADLOCK FALSE
