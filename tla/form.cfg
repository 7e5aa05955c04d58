SPECIFICATION Spec
CONSTANTS
    d1 = d1
    d2 = d2
    Fields <- MCFields
    Docs <- MCDocs
    Datum <- MCDatum
    Depths = {1, 2, 3}
    Schemas = {TRUE, FALSE}
    MaxEdits = 2
INVARIANT EntriesKept
PROPERTY ThrowsOnlyOnBroken
CHECK_DEADLOCK FALSE
