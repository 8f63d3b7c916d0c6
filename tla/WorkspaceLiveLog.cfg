SPECIFICATION cpSpec
CONSTANTS
    Channels = {"agents", "copilot"}
    MaxLinks = 2
INVARIANT WorkspaceKeepsOffTheLiveLog
CHECK_DEADLOCK FALSE
