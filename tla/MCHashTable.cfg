\* Four entries, three buckets, keys that collide in a bucket and keys that are equal.
CONSTANTS
    Item = {x1, x2, x3, x4}
    NULL = NULL
    HASHTAB_SIZE = 3
    Key = {0, 1, 2, 3}
SPECIFICATION Spec
SYMMETRY Symmetry
INVARIANTS ChainsWellFormed FindsNewest NoFreedEntryRead EachVisitedOnce
