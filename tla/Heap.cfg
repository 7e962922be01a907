CONSTANTS
    LIST_POISON = 0
    FirstPage = 1
    LastPage = 4
    PageUnits = 5
    obj_size = 2
    slab_mem_size = 4
    bitmap_length = 3
    Sizes = {2, 5}
    RunLengths = {1, 2}
SPECIFICATION Spec
INVARIANTS
    AllocationsDisjoint
    HeapTiled
    ListsSound
    FirstFreeLeast
PROPERTY OwnersApart
CHECK_DEADLOCK FALSE
