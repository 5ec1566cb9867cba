\* Four blocks of two bytes: half of all pointers are not aligned.
SPECIFICATION Spec
CONSTANTS
    item_size = 2
    size_max = 4
INVARIANTS
    TypeOK
    LinksAreFree
PROPERTY
    ImplementsBlockPool
