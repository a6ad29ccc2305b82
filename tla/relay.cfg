\* One client after another; one token and one anonymous connection.
SPECIFICATION Spec
CONSTANTS
    NumConns = 2
    Tokens = 1
    BatchSize = 1
    MaxNonRLRetries = 0
    DisconnectRetries = 2
    MaxSessions = 2
INVARIANTS
    AckFreesServer
    BatchNotForgotten
PROPERTIES
    RepliesMatch
    BatchAnswered
    ServerRecovers
CHECK_DEADLOCK FALSE
