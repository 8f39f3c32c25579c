SPECIFICATION Spec
CONSTANTS
    a = a
    b = b
    c = c
    t1 = t1
    t2 = t2
    t3 = t3
    t4 = t4
    Star = Star
    Words = Words
    Chars = {a, b, c}
    Tokens = {t1, t2, t3, t4}
    Texts <- MCTexts
    Detectors <- MCDetectors
    TypeOf <- MCTypeOf
    Priority <- MCPriority
    Calls = {"process", "proxy"}
    Policies <- MCPolicies
    MaxSpans <- MCMaxSpans
    MaxReply = 2
SYMMETRY MCSymmetry
INVARIANTS
    TypeOK
    ReplaceableInOrder
    DroppedForReason
    MaskExact
    NewContentStaysMasked
    WarnedOrComplete
CHECK_DEADLOCK FALSE
