SPECIFICATION Spec
CONSTANTS
    Tabs = {t1}
    Users = {u1, u2}
    Rights = {r}
    MaxVersion = 1
    MaxToken = 2
    MaxKey = 1
    MaxTime = 1
    GrantLife = 1
    None = None
INVARIANTS
    TypeOK
    OldRightsStayGone
    RightsAreOfTheirVersion
PROPERTIES
    LateDenialIsIgnored
    EntryEnds
CHECK_DEADLOCK FALSE
