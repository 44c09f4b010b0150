\* Two panels of either kind, two starts or joins, two deep links.
CONSTANTS
    Panel = {p1, p2}
    Job = {j1, j2}
    Link = {l1, l2}
    MaxTests = 2
    MaxOpening = 2
    None = None
SPECIFICATION Spec
SYMMETRY Symmetry
INVARIANTS ShareScreenIsLive NoUntestedStart ConfirmedLinkShown OverlayHasJoin
CHECK_DEADLOCK FALSE
