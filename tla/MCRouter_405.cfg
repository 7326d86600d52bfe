\* Two methods, two patterns that overlap, neither of which is ever refused.
CONSTANTS
    Methods = {GET, POST}
    Patterns <- MCPlainPatterns
    Paths <- MCPaths
    Handlers = {h1, h2}
    None = None
SPECIFICATION Spec
INVARIANT NotAllowedMeansOtherMethod
