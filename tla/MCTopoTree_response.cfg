CONSTANTS
    NodeIds <- MCNodeIds
    Paths <- MCPaths
SPECIFICATION Spec
INVARIANT TopoResponseExact
