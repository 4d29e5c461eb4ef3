SPECIFICATION Spec
CONSTANTS
    Categories = {c1, c2, c3}
    Listings = {l1}
    Pictures = {i1}
    Slots = {s1, s2}
    Inputs <- MCInputs
    None = None
    MayCrash = TRUE
SYMMETRY MCSymmetry
INVARIANTS
    CategoriesAreATree
    ListingsAreFiled
    DeliveryIsConsistent
    PicturesAreStored
