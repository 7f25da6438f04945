SPECIFICATION Spec
CONSTANTS
    Null = Null
    n1 = n1
    n2 = n2
    w1 = w1
    i1 = i1
    i2 = i2
    i3 = i3
    s1 = s1
    s2 = s2
    Names <- MCNames
    Places <- MCPlaces
    Contacts <- MCContacts
    Similar <- MCSimilar
    Near <- MCNear
    Canon <- MCCanon
    Sessions = {s1, s2}
    Ids = {i1, i2, i3}
    OsmRefs = {n1, n2}
    SiteRefs = {w1}
    Commands <- RaceCommands
    Requests <- RaceRequests
    Edits <- RaceEdits
    MaxVersion = 2
SYMMETRY Twins
INVARIANTS
    UntouchedSheetsDistinct
    DraftsTraced
    RunsAccountForDrafts
    AnswersOnFile
    AuditTrail
PROPERTIES
    LinksPermanent
    SourceMonotone
    SheetsChangeByEdit
