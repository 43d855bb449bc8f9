SPECIFICATION Spec
CONSTANTS
    Clients = {c1, c2}
    PageClients = {c1}
    ImageClients = {c2}
    UploadClients = {c2}
    Urls = {u1, u2, u3}
    Unsupported = {u3}
    RuledOut = {u2}
    MaxRedirects = 2
    MaxRequests = 2
    Window = 3
    TicksPerSecond = 2
    MaxTime = 4
INVARIANTS WindowBound RetryAfterSuffices NeverRefusedEarly OnlyPublicContacted RuledOutOnlyByRedirect
PROPERTY FetchBounded
CHECK_DEADLOCK FALSE
