SPECIFICATION LockSpec
CONSTANTS
    Proc = {p1, p2, p3}
    Path = {f}
    Inode = {i1, i2, i3, i4}
    Global = Global
    None = None
    UnlinkOpen = {f}
    MaxDepth = 1
SYMMETRY Symm
INVARIANTS MutualExclusion
