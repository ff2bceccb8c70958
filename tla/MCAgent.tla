-------------------------------- MODULE MCAgent --------------------------------
(***************************************************************************)
(* The agent, and the walk that reads the text it scores: three nodes with   *)
(* any two children each, so that trees share nodes and have cycles, under   *)
(* every depth, number of nodes and budget up to where they no longer bite.  *)
(***************************************************************************)
EXTENDS Agent, TextWalk
LOCAL INSTANCE Sequences
LOCAL INSTANCE SequencesExt

Nodes == 1..3
Lists == UNION {[1..n -> Nodes] : n \in 0..2}
Shapes == [Nodes -> Lists]

\* Two nodes show the same, and one more than it.
Shown == <<<<"t1">>, <<"t1", Blank>>, <<"t2", "t1">>>>
Tree(shape) == [children |-> shape, text |-> Shown]

Unbounded == [depth |-> 8, nodes |-> 8]
AllReads == 16
Limits == [depth : 1..3, nodes : 1..3]

\* What can be reached from a node: as many steps as there are nodes are enough.
Below(shape, S) == S \cup UNION {Range(shape[n]) : n \in S}
Reachable(shape, n) == Below(shape, Below(shape, Below(shape, {n})))

Whole(shape) == Extract(Tree(shape), 1, Unbounded, AllReads)

\* Without bounds every node is read that can be reached, once, whatever the cycles.
ASSUME WalkIsComplete ==
  \A shape \in Shapes :
    /\ Range(Whole(shape).visited) = Reachable(shape, 1)
    /\ IsInjective(Whole(shape).visited)
    /\ ~Whole(shape).hitDepth /\ ~Whole(shape).hitNodes

\* A walk that names no bound has read what there is: this is what tells an application
\* without text from a walk that gave up.
ASSUME BoundsAreTold ==
  \A shape \in Shapes, limits \in Limits :
    LET w == Extract(Tree(shape), 1, limits, AllReads)
    IN ~w.hitDepth /\ ~w.hitNodes => Range(w.visited) = Reachable(shape, 1)

\* The bound on the nodes and the budget cut the text off at its end: what has been read
\* by then is the beginning of the whole text.
ASSUME CutIsPrefix ==
  \A shape \in Shapes :
    /\ \A n \in 1..3 : IsPrefix(Extract(Tree(shape), 1, [Unbounded EXCEPT !.nodes = n], AllReads).lines,
                                Whole(shape).lines)
    /\ \A answered \in 0..6 :
         IsPrefix(Extract(Tree(shape), 1, Unbounded, answered).lines, Whole(shape).lines)

\* Where no node hangs under two others, the text is that of the nodes in reading order.
Trees == {shape \in Shapes :
            /\ \A n \in Nodes : n \notin Range(shape[n]) /\ 1 \notin Range(shape[n])
            /\ \A n \in Nodes : IsInjective(shape[n])
            /\ \A m, n \in Nodes : m # n => Range(shape[m]) \cap Range(shape[n]) = {}
            /\ Reachable(shape, 1) = Nodes}
RECURSIVE Preorder(_, _)
Preorder(shape, n) == <<n>> \o FlattenSeq([i \in DOMAIN shape[n] |-> Preorder(shape, shape[n][i])])
ASSUME ReadingOrder ==
  /\ Trees # {}
  /\ \A shape \in Trees : Whole(shape).visited = Preorder(shape, 1)

\* The spent budget is the bound nobody is told of; and a node may be missed that is no
\* deeper than the bound, since a longer way led to the node above it first.
ASSUME WhatIsNotTold ==
  /\ \E shape \in Shapes :
       LET w == Extract(Tree(shape), 1, Unbounded, 1)
       IN ~w.hitDepth /\ ~w.hitNodes /\ Range(w.visited) # Reachable(shape, 1)
  /\ LET shape == <<<<2, 3>>, <<3>>, <<4>>, <<>>>>
         w == Extract([children |-> shape, text |-> [n \in 1..4 |-> <<>>]], 1,
                      [Unbounded EXCEPT !.depth = 3], AllReads)
     IN Below(shape, Below(shape, {1})) \ Range(w.visited) = {4}

=============================================================================
