SPECIFICATION Spec
CONSTANTS
    Msg = {m1, m2, m3, m4}
    None = None
    NativeAgent = TRUE
    Events <- AllCalls
SYMMETRY Symmetry
INVARIANTS
    IndInv
    OneTurnAtATime
    MessageInOnePlace
    LiveRunIsCurrent
PROPERTIES
    NoRunWhileClosing
    ServiceSpec
CHECK_DEADLOCK FALSE
