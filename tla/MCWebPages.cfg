CONSTANTS
 Businesses = {"b1", "b2"}
 Units = {"u1", "u2"}
 BusinessOf <- MCBusinessOf
 Products = {"p1"}
 UnitOf <- MCUnitOf
 Home = "u1"
 Cent = 2
 MaxAmount = 1
 MaxLines = 2
 Catalogue = {"p1", "p2"}
 MaxColumns = 3
 NewSaves = 1
 Members = {"m1", "m2"}
 Baselines = {"cashier", "manager"}
 OtherRoles = {"owner"}
 Screens = {"s1", "s2"}
 BaseScreens <- MCBaseScreens
 InitialAccess <- MCAccess
 MaxDrafts = 1
 MemberSaves = 1
 MaxBusinesses = 2
 MaxUnits = 1
 Slots = {1, 2}
 Roles = {"business_admin", "cashier"}
 Dimensions = {"shops", "products"}
 EntitiesOf <- MCEntities
 Timeframes = {"daily"}
 Dates = {1}
 MaxRequests = 2
SPECIFICATION Spec
INVARIANTS TypeOK SentAmountsAgree LedgerFollowsFilter SavedOnce UntouchedSaveKeepsAccess ListSettles ReportFollowsChoice
