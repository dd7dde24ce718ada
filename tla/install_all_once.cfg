SPECIFICATION Spec
CONSTANTS
    A = A
    B = B
    hp = hp
    s1 = s1
    s2 = s2
    t1 = t1
    t2 = t2
    None = None
    Raw = Raw
    Symbols = {s1}
    Targets = {t1}
    Admins = {a1}
    Players = {p1}
    a1 = a1
    a2 = a2
    p2 = p2
    p1 = p1
    Catalog <- MCShortCatalog
    Exported <- MCExportedOne
    Located <- MCExportedOne
    Signed = {}
    ApiModes = {"invoke", "enter"}
    RawTargets = {t1}
    Hookable = {t1}
    MaxEntries = 1
INVARIANT InstallAllLeavesNothing
