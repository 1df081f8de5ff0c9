SPECIFICATION FairSpec
CONSTANTS
    MaxRequests = 4
    Projects = {A, B}
    Nothing = Nothing
INVARIANTS
    ShownIsOpen
PROPERTIES
    LaterChoiceStays RequestsEnd
CHECK_DEADLOCK FALSE
