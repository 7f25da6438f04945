CONSTANTS
  Sessions = {s1, s2}
  Names = {"a", "b"}
  Points = {"p1", "p2"}
  NodeIds = {"r", "g"}
  Licenses = {"l1"}
  Pages <- MCPages
  Drafts <- MCDrafts
  Reviews = {0, 1}
  ReviewDays = 1
  MaxDay = 2
  Null = Null
SPECIFICATION Spec
SYMMETRY Twins
INVARIANTS
    TypeOK
    EachSourceOnce
    OrderIsIrrelevant
    RecordsAccountedFor
PROPERTIES
    StagedUnderReview
