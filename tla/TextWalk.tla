-------------------------------- MODULE TextWalk --------------------------------
(***************************************************************************)
(* AccessibilityText: the text of the focused window, by a bounded walk of   *)
(* its accessibility tree. A tree may have cycles, and one node may hang     *)
(* under several others; its reads are messages to another process, and once *)
(* the budget of the walk is spent none of them is answered any more.        *)
(* tree.children and tree.text give what each node exposes, in order.        *)
(***************************************************************************)
EXTENDS Integers, FiniteSets
LOCAL INSTANCE Sequences
LOCAL INSTANCE SequencesExt

CONSTANTS
  Blank,    (* a string with nothing but white space *)
  NoNode    (* no frontmost application *)

\* Only neighbours are compared: a container repeats the text of its one child.
AddLine(lines, value) ==
  IF value = Blank \/ (lines # <<>> /\ Last(lines) = value) THEN lines ELSE Append(lines, value)

\* SystemAXProbe: `answered` reads come before the end of the budget.
TextOf(tree, node, reads, answered) == IF reads < answered THEN tree.text[node] ELSE <<>>
ChildrenOf(tree, node, reads, answered) == IF reads < answered THEN tree.children[node] ELSE <<>>

Popped(w) == [w EXCEPT !.stack = Front(@)]

\* The children are pushed last first, so that the first of them is popped next.
Read(tree, answered, w) ==
  LET top == Last(w.stack)
      below == ChildrenOf(tree, top.node, w.reads + 1, answered)
      Beneath(node) == [node |-> node, depth |-> top.depth + 1]
  IN [w EXCEPT !.stack   = Front(@) \o Reverse([i \in DOMAIN below |-> Beneath(below[i])]),
               !.visited = Append(@, top.node),
               !.lines   = FoldLeft(AddLine, @, TextOf(tree, top.node, w.reads, answered)),
               !.reads   = @ + 2]

RECURSIVE Walk(_, _, _, _)
Walk(tree, limits, answered, w) ==
  CASE w.stack = <<>> -> w
    [] w.stack # <<>> /\ Len(w.visited) >= limits.nodes -> [w EXCEPT !.hitNodes = TRUE]
    [] OTHER ->
       LET top == Last(w.stack)
       IN Walk(tree, limits, answered,
            CASE top.depth > limits.depth     -> [Popped(w) EXCEPT !.hitDepth = TRUE]
              [] top.depth <= limits.depth /\ Contains(w.visited, top.node) -> Popped(w)
              [] OTHER                        -> Read(tree, answered, w))

\* extract(from:probe:limits:)
Extract(tree, root, limits, answered) ==
  Walk(tree, limits, answered,
       [stack |-> <<[node |-> root, depth |-> 1]>>, visited |-> <<>>, lines |-> <<>>,
        reads |-> 0, hitDepth |-> FALSE, hitNodes |-> FALSE])

\* SystemAXProbe.focusedRoot: an application without a focused window is read itself.
FocusedRoot(application, window) ==
  IF application = NoNode THEN NoNode ELSE IF window = NoNode THEN application ELSE window

ExtractFocusedText(tree, root, limits, answered) ==
  IF root = NoNode THEN <<>> ELSE Extract(tree, root, limits, answered).lines

=============================================================================
