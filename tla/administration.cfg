CONSTANTS
    None = None
    Worker = {w1, w2}
    Role = {sales}
    profile = profile
    menu1 = menu1
    menu2 = menu2
    view = view
    edit = edit
    Menu = {profile, menu1, menu2}
    Function = {view, edit}
    SystemMenu = profile
    DefaultMenus <- MenusOf
    DefaultFunctions <- FunctionsOf
    Base <- BaseOf
    Requires <- RequiresOf
    Packs <- PacksOf
    MenuLists <- SentMenus
    FunctionLists <- SentFunctions
    Department = {d1, d2, d3}
    User = {u1, u2, u3}
    Seeded = u1
    Item = {i1}
    t1 = t1
    t2 = t2
    t3 = t3
    Type = {t1, t2, t3}
    TypeKey <- KeyOf
    Bodies <- SentBodies
SPECIFICATION SpecAll
CHECK_DEADLOCK FALSE
INVARIANTS TypesOK MenusAreChosen AcyclicUnlessCrossed
PROPERTIES ChangesReach WalkEnds RemovalKeepsAdmin
