CONSTANTS
    Layout <- MCLayout
    ReservedBytes = 1
    Sizes = {1, 2, 3}
SPECIFICATION Spec
INVARIANTS FreeListsSound
PROPERTIES RefusedOnlyWhenFull ImplementsFreeBytes
