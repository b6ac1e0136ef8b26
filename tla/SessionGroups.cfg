SPECIFICATION Spec
CONSTANTS
    Request = {r1, r2}
    Session = {s1, s2}
    Code = {c1, c2}
    Grant = {g1, g2}
    None = None
    Bounds <- SmallBounds
SYMMETRY Symmetry
INVARIANTS
    TypeOK SignOutIsComplete SignedOutGroupIsDead LogoutPanicsOnlyIfGone OrphanOnlyByRace
    NewGrantReplacesOld CodeUsedTwiceOnlyByOverlap
