CONSTANTS
    a = a
    b = b
    c = c
    d = d
    Paths = {a, b, c, d}
    Broken = {d}
    Icon = icon
    Tiles = {t1, t2}
    Nil = Nil
    Slots = {0, 1}
    MaxImages = 4
    MaxLoaded = 2
    MaxRefs = 2
    window = window
    menu = menu
    item = item
    plain = plain
    bold = bold
    None = None
    small = small
    large = large
    absent = absent
    Fonts = {small, large}
    Missing = {absent}
    MaxUses = 3
    w1 = w1
    w2 = w2
    Widgets = {w1, w2}
    Kinds <- MCKinds
    Chain <- MCChain
    Styles = {plain, bold}
    Skins <- MCSkins
    WindowStyles <- MCWindowStyles
    DefaultStyle = 8
    MaxSets = 2
    art = art
    Images = {art}
    MaxLost = 1
    b1 = b1
    b2 = b2
    Blocks = {b1, b2}
    Recent = 1
    MaxTime = 4
    Partly = Partly
    MaxWrites = 3

SPECIFICATION AllSpec
INVARIANT PoolAgrees
INVARIANT LooksAsStyled
INVARIANT HeldIsThere
INVARIANT FileSurvives
SYMMETRY Same
PROPERTY DrawnFromMemory
CHECK_DEADLOCK FALSE
