\* Two consoles, and one console among strangers.
CONSTANTS
    Sides = {"A", "B"}
    Ctxs = {"a", "x", "b"}
    Home <- OnTwoConsoles
    Scenes <- FourScenes
SPECIFICATION Spec
INVARIANT EndIsToldLast
INVARIANT MapsAgree
INVARIANT SidesAgree
PROPERTY ClosedStaysClosed
CHECK_DEADLOCK FALSE
