SPECIFICATION StoreSpec
CONSTANTS
    p1 = p1  p2 = p2  new = new  old = old
    Procs = {p1, p2}
    Artifacts = {new}
    Legacy = {}
SYMMETRY MCSymmetry
INVARIANTS
    RejectedNeverPublished
