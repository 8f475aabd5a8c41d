----------------------------- MODULE MCGateway -----------------------------
EXTENDS Gateway

\* Two routes that share a node, so that the tree grows and can conflict.
MCTopoMsgs == {<<1>>, <<2, 1>>}
MCNodeIds == {1, 2}
\* One node the refresh loop reaches (id < 10) and one it does not.
MCMapIds == {3, 12}
MCReadings == {[loc |-> 1, val |-> 1], [loc |-> 2, val |-> 2]}
MCInterests == {"ints/a", "ints/b"}
\* For the liveness run: one reading and one interest name suffice.
MCOneReading == {[loc |-> 1, val |-> 1]}
MCOneInterest == {"ints/a"}
====
