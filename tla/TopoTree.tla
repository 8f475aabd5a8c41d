------------------------------ MODULE TopoTree ------------------------------
(***************************************************************************)
(* The gateway's sensor-network topology tree (src/csrc/ndnd/ndnd_main.c:  *)
(* topo_tree_build, topo_tree_recycling and the body of topo_management;   *)
(* src/csrc/ndnd/ndw.h: topo_tree_traversal and the "topo" branch of       *)
(* request_from_backbone).                                                 *)
(*                                                                         *)
(* A topology message carries a route data[0..num-1] from a sensor node    *)
(* (data[0]) up to the node next to the gateway (data[num-1]).  The tree   *)
(* hangs under topo_head, a calloc'd node with nodeID 0.  Here a tree is a *)
(* record: kids[n] is the ptr[0..child_num-1] array of node n, in order,   *)
(* and check[id] is topo_tree_node_check[id], which is meant to say        *)
(* whether a node with that id is in the tree.  Node ids are unique in the *)
(* tree (that is what check enforces), so a node is named by its id and    *)
(* the head by TopHead.  Memory that recycling leaks is not represented:   *)
(* it is unreachable, and a node built again gets a fresh child array.     *)
(***************************************************************************)
EXTENDS Integers, Sequences, SequencesExt

CONSTANTS
    NodeIds,   \* the node ids messages may carry (uint16_t, <= 100 in practice)
    Paths      \* the routes (data[0..num-1] as a sequence) the network delivers

ASSUME NodeIds \subseteq Nat /\ Paths \subseteq Seq(NodeIds)

TopHead == -1      \* topo_head; its nodeID is the 0 of the memset
TreeNodes == NodeIds \cup {TopHead}

EmptyTree == [kids    |-> [n \in TreeNodes |-> <<>>],
              check   |-> [n \in NodeIds |-> 0],
              rebuild |-> FALSE]

\* The nodes reachable from the head.
RECURSIVE Below(_, _)
Below(kids, n) == {n} \cup UNION {Below(kids, c) : c \in ToSet(kids[n])}
InTree(t) == Below(t.kids, TopHead) \ {TopHead}

\* Mutant of BuildAt: a matching child is found but the loop breaks
\* without descending into it.
RECURSIVE BuildAtNoDescend(_, _, _, _)
BuildAtNoDescend(t, node, path, index) ==
    IF index < 0 THEN t
    ELSE LET id == path[index + 1]
             c  == t.kids[node]
         IN  IF id \in ToSet(c) THEN t
             ELSE IF t.check[id] = 1 THEN [t EXCEPT !.rebuild = TRUE]
             ELSE BuildAtNoDescend([t EXCEPT !.kids[node] = Append(@, id),
                                             !.kids[id] = <<>>,
                                             !.check[id] = 1],
                                   id, path, index - 1)

(***************************************************************************)
(* topo_tree_build(node, node_list, index, flag): descend into the child   *)
(* whose id is node_list[index]; if there is none, either the id is        *)
(* already elsewhere in the tree (set the rebuild flag and stop) or append *)
(* a new child, mark it in the check array and descend into it.            *)
(***************************************************************************)
RECURSIVE BuildAt(_, _, _, _)
BuildAt(t, node, path, index) ==
    IF index < 0 THEN t
    ELSE LET id == path[index + 1]
             c  == t.kids[node]
         IN  IF id \in ToSet(c) THEN BuildAt(t, id, path, index - 1)
             ELSE IF t.check[id] = 1 THEN [t EXCEPT !.rebuild = TRUE]
             ELSE BuildAt([t EXCEPT !.kids[node] = Append(@, id),
                                    !.kids[id] = <<>>,
                                    !.check[id] = 1],
                          id, path, index - 1)

\* topo_tree_recycling: free the subtree of ptr[0] and empty the head.
Recycle(t) ==
    IF t.kids[TopHead] = <<>> THEN t ELSE [t EXCEPT !.kids[TopHead] = <<>>]

\* Mutants of TopoStep: the rebuild flag not reset, and the check array
\* not cleared on a rebuild.
TopoStepKeepFlag(t, path) ==
    LET b == BuildAt(t, TopHead, path, Len(path) - 1)
    IN  IF b.rebuild THEN [Recycle(b) EXCEPT !.check = [n \in NodeIds |-> 0]]
                     ELSE b

TopoStepKeepCheck(t, path) ==
    LET b == BuildAt(t, TopHead, path, Len(path) - 1)
    IN  IF b.rebuild THEN [Recycle(b) EXCEPT !.rebuild = FALSE] ELSE b

(***************************************************************************)
(* One message of topo_management: build from data[num-1] down to data[0]; *)
(* if the flag was raised, clear the check array, recycle the tree and     *)
(* reset the flag.  The message itself is not built again.                 *)
(***************************************************************************)
TopoStep(t, path) ==
    LET b == BuildAt(t, TopHead, path, Len(path) - 1)
    IN  IF b.rebuild
        THEN [Recycle(b) EXCEPT !.check = [n \in NodeIds |-> 0],
                                !.rebuild = FALSE]
        ELSE b

(***************************************************************************)
(* topo_tree_traversal(node): the line "id parent" of the node, then those *)
(* of its children in order.  The "topo" request calls it on ptr[0] once   *)
(* for each child of the head, and answers the lines after "0 count".     *)
(***************************************************************************)
RECURSIVE Traverse(_, _, _)
Traverse(kids, n, parent) ==
    FoldLeft(LAMBDA acc, c : acc \o Traverse(kids, c, n), <<<<n, parent>>>>,
             kids[n])

TopoResponse(t) ==
    IF Len(t.kids[TopHead]) > 0
    THEN FoldLeft(LAMBDA acc, i : acc \o Traverse(t.kids, t.kids[TopHead][1], 0),
                  <<>>, [i \in 1..Len(t.kids[TopHead]) |-> i])
    ELSE <<>>

-----------------------------------------------------------------------------
(* The topology thread on its own: one message after another.              *)

VARIABLES
    tree,      \* the tree record above
    routes     \* history: the routes processed since the tree was last wiped

vars == <<tree, routes>>

\* The (child, parent) links a route asks for: data[num-1] under the head,
\* each data[i] under data[i+1].
Links(path) ==
    {<<path[i], IF i = Len(path) THEN TopHead ELSE path[i + 1]>> :
        i \in 1..Len(path)}

\* A set of routes fits in one tree when no node is given two parents.
Consistent(ps) ==
    LET ls == UNION {Links(p) : p \in ps}
    IN  \A l, m \in ls : l[1] = m[1] => l[2] = m[2]

Init == tree = EmptyTree /\ routes = {}

Receive(path) ==
    /\ tree' = TopoStep(tree, path)
    /\ routes' = IF Consistent(routes \cup {path}) THEN routes \cup {path}
                                                  ELSE {}

Next == \E p \in Paths : Receive(p)

Spec == Init /\ [][Next]_vars

-----------------------------------------------------------------------------
TypeOK ==
    /\ tree.kids \in [TreeNodes -> Seq(NodeIds)]
    /\ tree.check \in [NodeIds -> {0, 1}]
    /\ tree.rebuild = FALSE
    /\ routes \subseteq Paths

(***************************************************************************)
(* topo_tree_node_check marks exactly the ids that are in the tree, and no *)
(* id occurs twice in it.  topo_tree_build trusts the check array to       *)
(* decide between "append a child" and "this node moved: rebuild"; a mark  *)
(* left behind by recycling would make every later route through that id  *)
(* wipe the tree.                                                          *)
(***************************************************************************)
CheckMatchesTree ==
    /\ \A id \in NodeIds : tree.check[id] = 1 <=> id \in InTree(tree)
    /\ \A n \in TreeNodes : IsInjective(tree.kids[n])
    /\ \A m, n \in InTree(tree) \cup {TopHead} :
          m # n => ToSet(tree.kids[m]) \cap ToSet(tree.kids[n]) = {}

(***************************************************************************)
(* Across any sequence of messages, the tree is exactly the union of the   *)
(* routes received since the last conflict: every link a route asked for   *)
(* is there, and no link is there that no such route asked for.  A route   *)
(* that would give a node a second parent (the node moved, or occurs      *)
(* twice in the route) wipes everything, itself included.  topo_tree_build *)
(* has to descend into an existing child, append a missing one and stop   *)
(* at a conflict, and topo_management has to recycle, clear the check     *)
(* array and reset the flag, for this to hold message after message.       *)
(***************************************************************************)
TreeIsRouteUnion ==
    {<<c, n>> \in NodeIds \X (InTree(tree) \cup {TopHead}) :
        c \in ToSet(tree.kids[n])} = UNION {Links(p) : p \in routes}

(***************************************************************************)
(* The answer to a "topo" interest lists every node of the tree exactly    *)
(* once (the "0 count" line before the list is not checked).               *)
(***************************************************************************)
TopoResponseExact ==
    LET r == TopoResponse(tree)
    IN  /\ IsInjective(r)
        /\ {r[i][1] : i \in DOMAIN r} = InTree(tree)
====
