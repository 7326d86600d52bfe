CONSTANTS
    Methods = {GET, POST}
    Patterns <- MCPatterns
    Paths <- MCPaths
    Handlers = {h1}
    Ports = {a1, a2}
    MaxDetached = 1
    None = None
SPECIFICATION AppSpec
INVARIANT CountsRegistered
