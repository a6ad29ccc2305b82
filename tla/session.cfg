SPECIFICATION FairSpec
CONSTANTS
    MaxSessions = 3
PROPERTIES
    LostSessionReplaced
    HangupReconnects
CHECK_DEADLOCK FALSE
