\* All 27 revisions, up and down in any order, over one row of one table.
SPECIFICATION Spec
CONSTANT None = None
INVARIANTS
    SchemaServesRevision
    LatestMatchesOrm
    RevisionsApply
    BackfillsAgreeWithCode
