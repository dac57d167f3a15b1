------------------------- MODULE MCWorkspaceLayout -------------------------
(* Instances of WorkspaceLayout for TLC. *)
EXTENDS WorkspaceLayout

\* The rows of initialModules that hold more than one module.
TwoRows == <<8, 4, 8, 4>>
OneRow == <<8, 4>>

Block(id, columns) == [id |-> id, columns |-> columns]
Version2(order, blocks, next) ==
  [format |-> "v2", nextModuleId |-> next, layout |-> order, blocks |-> blocks]

\* Layouts of every format: with ids repeated, unknown or left out in the
\* order, widths outside the grid, a next id too small, two blocks of one id.
OldLayouts ==
  {Version2(<<3, 3, 9, 1>>, <<Block(1, 6), Block(2, 20), Block(3, 1)>>, 2),
   Version2(<<1, 2>>, <<Block(1, 6), Block(1, 6)>>, 3),
   Version2(<<>>, <<>>, 0),
   [format |-> "v1", nextModuleId |-> 0, layout |-> <<2>>,
    blocks |-> <<[id |-> 2, size |-> "wide"], [id |-> 1, size |-> "normal"]>>],
   [format |-> "legacy", nextModuleId |-> 1,
    blocks |-> <<[id |-> 2, size |-> "full"], Block(1, 15)>>],
   [format |-> "unreadable"]}

\* Every layout of n modules with widths from a set.
AnyLayout(n, widths) ==
  {Version2([i \in 1..n |-> i], [i \in 1..n |-> Block(i, w[i])], n + 1) : w \in [1..n -> widths]}

FourOrFive == AnyLayout(4, {3, 4, 6, 12}) \cup AnyLayout(5, {3, 7})
NoLayout == {}
=============================================================================
