\* Two operators, two rotations, two possible site counts.
CONSTANTS
    ann = ann
    ben = ben
    Operators <- MCOperators
    MaxKeys = 3
    MaxSites = 2
SPECIFICATION Spec
SYMMETRY MCSymmetry
INVARIANTS TypeOK KeyHeld 
