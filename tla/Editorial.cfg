SPECIFICATION Spec
CONSTANTS
    Null = Null
    Absent = Absent
    r1 = r1
    d1 = d1
    s1 = s1
    s2 = s2
    Sessions = {s1, s2}
    Restaurants = {r1}
    Dishes = {d1}
    DishOf <- MCDishOf
    Identities = {"seen", "moved"}
    Prices = {8000}
    Patches <- MCPatches
    DishPatches <- MCDishPatches
    MaxVersion = 4
SYMMETRY Equals
INVARIANTS
    VerifiedWasSeen
    PublishedDishPriced
    EveryVersionAudited
PROPERTIES
    PublishNeedsVerification
    EvidenceRootKept
