SPECIFICATION Spec
CONSTANTS
    o1 = o1
    o2 = o2
    c1 = c1
    c2 = c2
    c3 = c3
    s1 = s1
    s2 = s2
    Objects = {o1, o2}
    Cells = {c1, c2, c3}
    Strings = {s1, s2}
    NoObject = NoObject
    NoCell = NoCell
SYMMETRY MCSymmetry
INVARIANTS
    RefsExact
    StringsFindTheirObject
    NothingDangles
    PointersFresh
