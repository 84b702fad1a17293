SPECIFICATION Spec
CONSTANTS
    MaxMessages = 1
    BrowserProtocols = {"terminal.gitlab.com"}
    ServerProtocols = {"channel.k8s.io"}
CHECK_DEADLOCK FALSE
INVARIANTS
    OneWriterPerConnection
