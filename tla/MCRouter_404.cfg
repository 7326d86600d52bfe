\* Two methods, five patterns that overlap, clash or are malformed.
CONSTANTS
    Methods = {GET, POST}
    Patterns <- MCPatterns
    Paths <- MCPaths
    Handlers = {h1, h2}
    None = None
SPECIFICATION Spec
INVARIANT NotFoundMeansNoRoute
