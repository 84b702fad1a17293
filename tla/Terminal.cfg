\* A codec that decodes base64 or none for the browser, one that adds a
\* stream number and base64 or neither for the server; two messages each way.
SPECIFICATION FairSpec
CONSTANTS
    MaxMessages = 2
    BrowserProtocols = {"base64.terminal.gitlab.com", "none"}
    ServerProtocols = {"terminal.gitlab.com", "base64.channel.k8s.io"}
CHECK_DEADLOCK FALSE
INVARIANTS
    StopsArrive
    RelayedFaithfully
PROPERTIES
    RevocationEndsSession
    SessionLeavesNothing
