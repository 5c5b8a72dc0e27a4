CONSTANTS
    a = a
    b = b
    t = t
    u = u
    x = x
    y = y
    z = z
    far = far
    u1 = u1
    u2 = u2
    u3 = u3
    u4 = u4
    u5 = u5
    u6 = u6
    u7 = u7
    u8 = u8
    u9 = u9
    u10 = u10
    u11 = u11
    u12 = u12
    u13 = u13
    u14 = u14
    u15 = u15
    u16 = u16
    u17 = u17
    u18 = u18
    u19 = u19
    u20 = u20
    u21 = u21
    u22 = u22
    u23 = u23
    u24 = u24
    None = None
    Uuids <- TwentyFour
    s1 = s1
    s2 = s2
    Slots = {s1, s2}
SYMMETRY Symmetry
CONSTANTS
    Worlds <- SomeWorlds
SPECIFICATION Spec
CHECK_DEADLOCK FALSE
INVARIANTS
    EditsAreAccepted
    ResponsesArePublished
    ContextsRest
    CacheIsCoherent
