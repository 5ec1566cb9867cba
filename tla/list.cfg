\* Two lists of up to four items that move between them.
SPECIFICATION Spec
CONSTANTS
    ListHead = {h1, h2}
    ListItem = {a, b, c, d}
    NULL = null
INVARIANTS
    TypeOK
    LinksAgree
PROPERTY
    ImplementsListOrder
