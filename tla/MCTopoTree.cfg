CONSTANTS
    NodeIds <- MCNodeIds
    Paths <- MCPaths
SPECIFICATION Spec
INVARIANT TypeOK
INVARIANT CheckMatchesTree
INVARIANT TreeIsRouteUnion
