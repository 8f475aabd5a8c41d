----------------------------- MODULE MCTopoTree -----------------------------
EXTENDS TopoTree

\* Three sensor nodes; every route of up to three hops, repeats included.
MCNodeIds == {1, 2, 3}
MCPaths == BoundedSeq(MCNodeIds, 3)
====
