SPECIFICATION ArtifactSpec
CONSTANTS
    Pull = {"w"}
    Peer = {"p", "q"}
    MaxIssues = 1
    MaxChanges = 1
    LineEndIsRead = FALSE
PROPERTY
    HeaderIsFollowedByTheRange
CHECK_DEADLOCK FALSE
