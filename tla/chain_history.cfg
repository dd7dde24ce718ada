SPECIFICATION Spec
CONSTANTS
    A = A
    B = B
    hp = hp
    mana = mana
    Catalog <- MCCatalog
    MaxAdds = 5
INVARIANTS
    RunOrderIsPriorityThenAge
    AdmissionIgnoresOrder
CHECK_DEADLOCK FALSE
