SPECIFICATION Spec
CONSTANTS
    Client = Client
    Servers = {s1, s2, s3}
    NoTag = NoTag
    MaxInit = 2
    MaxCookie = 2
INVARIANTS CompletedAgree NeverStranded
PROPERTY Resolves
CHECK_DEADLOCK FALSE
