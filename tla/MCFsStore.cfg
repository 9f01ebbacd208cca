CONSTANTS
    Keys = {k1, k2}
SYMMETRY KeySymmetry
SPECIFICATION Spec
CONSTRAINT OneErased
INVARIANTS
    NeverTorn
    ReceiptLasts
    NothingComesBack
CHECK_DEADLOCK FALSE
