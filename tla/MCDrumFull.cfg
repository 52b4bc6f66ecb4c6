SPECIFICATION Spec
CONSTANTS
    Rings = {1, 2}
    DIR = 255
    Names = {a, b, c}
    Contents = {x, y}
    Empty = Empty
    NoRing = NoRing
    NoFile = NoFile
    Overwritten = Overwritten
SYMMETRY MCSymmetry
INVARIANTS
    FullIsRefused
    
