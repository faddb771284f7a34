SPECIFICATION Spec
CONSTANTS
    c1 = c1
    c2 = c2
    f1 = f1
    f2 = f2
    Calls = {c1, c2}
    Folders = {f1, f2}
    Categories <- SSLCategories
    MaxEntries = 3
    Leftovers = {TRUE}
    Faults <- OpenWriteFaults
SYMMETRY Symmetry
INVARIANTS
    TypeOK
    OrderKept
    LostAlone
    CategoriesApart
