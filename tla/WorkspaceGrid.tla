---------------------------- MODULE WorkspaceGrid ----------------------------
(***************************************************************************)
(* The arithmetic of the workspace grid (logic.ts) and the form in which a *)
(* layout is stored (layout-serialization.ts and the legacy parser of      *)
(* use-workspace-modules.ts), as operators on lists of modules.            *)
(*                                                                         *)
(* A module is its id and its width in columns.  Kind, label and config    *)
(* are carried along unread by everything modelled here, and heights only  *)
(* by their clamp; they are left out.                                      *)
(***************************************************************************)
EXTENDS Integers, SequencesExt

GridColumns == 12
MinColumns == 3
Widths == MinColumns..GridColumns
Modules == [id : Nat \ {0}, columns : Widths]
Placements == {"before", "after"}
CustomColumns == 4

\* The numbers of a set, and the elements of a list at some of its places, in
\* ascending order.
Ascending(S) ==
  [n \in 1..Cardinality(S) |-> CHOOSE x \in S : Cardinality({y \in S : y <= x}) = n]
Only(list, places) ==
  LET order == Ascending(places) IN [n \in DOMAIN order |-> list[order[n]]]

IdsOf(list) == {list[i].id : i \in DOMAIN list}
OrderOf(list) == [i \in DOMAIN list |-> list[i].id]
WidthsOf(list) == [i \in DOMAIN list |-> list[i].columns]
PositionOf(list, id) == SelectInSeq(list, LAMBDA m : m.id = id)
PlaceOf(ids, id) == SelectInSeq(ids, LAMBDA m : m = id)
ModuleOf(list, id) == list[PositionOf(list, id)]
Without(list, id) == Only(list, {i \in DOMAIN list : list[i].id # id})

\* Fault: the width asked for is taken.
AnyWidth(columns) == columns

Clamp(columns) ==
  IF columns < MinColumns THEN MinColumns
  ELSE IF columns > GridColumns THEN GridColumns ELSE columns

Normalize(list) == [i \in DOMAIN list |-> [list[i] EXCEPT !.columns = Clamp(@)]]

SetColumns(list, id, columns) ==
  [i \in DOMAIN list |-> IF list[i].id = id THEN [list[i] EXCEPT !.columns = Clamp(columns)]
                                            ELSE list[i]]

-----------------------------------------------------------------------------
(* Rows: modules fill a row from the left until one does not fit. *)

ColumnsBetween(list, from, to) == SumFunctionOnSet(WidthsOf(list), from..to)

\* Fault: a row is closed only when it is already full.
FitsUnlessFull(list, first, i) == ColumnsBetween(list, first, i - 1) < GridColumns

Fits(list, first, i) == ColumnsBetween(list, first, i) <= GridColumns

\* The position at which the row of each module starts.
RowStarts(list) ==
  LET start[i \in DOMAIN list] ==
        IF i = 1 THEN 1
        ELSE LET current == start[i - 1]
             IN IF Fits(list, current, i) THEN current ELSE i
  IN start

\* packWorkspaceModules: a module alone in its row takes the whole of it.
Pack(list) ==
  LET widths == Normalize(list)
      start == RowStarts(widths)
      Solo(i) == \A j \in DOMAIN list \ {i} : start[j] # start[i]
  IN [i \in DOMAIN list |->
       [id |-> list[i].id,
        columnStart |-> IF Solo(i) THEN 1 ELSE 1 + ColumnsBetween(widths, start[i], i - 1),
        columnSpan |-> IF Solo(i) THEN GridColumns ELSE widths[i].columns,
        rowIndex |-> Cardinality({start[j] : j \in 1..i}) - 1]]

\* The ids in the target's row, in their order; none when there is no target.
RowIds(list, target) ==
  LET packed == Pack(list)
      targetRow == ModuleOf(packed, target).rowIndex
  IN IF target \notin IdsOf(list) THEN <<>>
     ELSE OrderOf(Only(packed, {i \in DOMAIN packed : packed[i].rowIndex = targetRow}))

-----------------------------------------------------------------------------
(* Moving modules. *)

\* Fault: the target's place is not corrected for the module taken out.
UncorrectedPlace(from, to, placement) == IF placement = "after" THEN to + 1 ELSE to

\* Where the moved module goes once it is taken out.
InsertionPlace(from, to, placement) ==
  LET adjusted == IF from < to THEN to - 1 ELSE to
  IN IF placement = "after" THEN adjusted + 1 ELSE adjusted

MoveModule(list, source, target, placement) ==
  LET from == PositionOf(list, source)
      to == PositionOf(list, target)
  IN IF source = target \/ from = 0 \/ to = 0 THEN list
     ELSE InsertAt(RemoveAt(list, from), InsertionPlace(from, to, placement), list[from])

PushToEnd(list, source) ==
  LET from == PositionOf(list, source)
  IN IF from = 0 THEN list ELSE Append(RemoveAt(list, from), list[from])

\* Fault: the first module that can be narrowed is.
FirstNarrowable(columns) ==
  {i \in DOMAIN columns : columns[i] > MinColumns
                          /\ \A j \in 1..(i - 1) : columns[j] = MinColumns}

\* The widest modules, none when all have the least width.
Widest(columns) ==
  {i \in DOMAIN columns : columns[i] > MinColumns
                          /\ \A j \in DOMAIN columns : columns[j] <= columns[i]}

\* distributeColumnsAcrossRow: the first of the widest gives up a column,
\* as often as the row is too wide by.
Distribute(columns) ==
  LET excess == SumFunction(columns) - GridColumns
      narrowed[n \in 0..excess] ==
        IF n = 0 THEN columns
        ELSE LET wider == narrowed[n - 1]
                 widest == Widest(wider)
             IN IF widest = {} THEN wider
                ELSE [wider EXCEPT ![Min(widest)] = @ - 1]
  IN IF excess > 0 THEN narrowed[excess] ELSE columns

\* rebalanceRowModules.
Rebalance(list, ids) ==
  LET normal == Normalize(list)
      members == Only(ids, {i \in DOMAIN ids : ids[i] \in IdsOf(list)})
      columns == Distribute([i \in DOMAIN members |-> ModuleOf(normal, members[i]).columns])
  IN IF Len(members) <= 1 THEN normal
     ELSE [i \in DOMAIN normal |->
            IF normal[i].id \in ToSet(members)
            THEN [normal[i] EXCEPT !.columns = columns[PlaceOf(members, normal[i].id)]]
            ELSE normal[i]]

\* moveModuleToSharedRow, called with two different ids: the target's row is
\* read before the move.
MoveToSharedRow(list, source, target, placement) ==
  LET targetRow == RowIds(list, target)
      row == Only(targetRow, {i \in DOMAIN targetRow : targetRow[i] # source})
      place == PlaceOf(row, target)
      moved == MoveModule(list, source, target, placement)
  IN IF row = <<>> THEN moved
     ELSE Rebalance(moved, InsertAt(row, IF placement = "after" THEN place + 1 ELSE place, source))

-----------------------------------------------------------------------------
(* Stored layouts.  A record of format "v2" or "v1" has an order (layout)  *)
(* and blocks, the older "legacy" one only the blocks, which are then in   *)
(* order; "unreadable" stands for all that no parser accepts.  A block has *)
(* a width or one of the three old sizes.  An id or a width that is no     *)
(* positive integer is rejected with the whole layout, so they are         *)
(* positive here, and a next id of 0 stands for one that is not.           *)

Sizes == {"full", "wide", "normal"}
Blocks == [id : Nat \ {0}, columns : Nat \ {0}] \cup [id : Nat \ {0}, size : Sizes]
Layouts ==
  [format : {"unreadable"}]
  \cup [format : {"legacy"}, nextModuleId : Nat, blocks : Seq(Blocks)]
  \cup [format : {"v1", "v2"}, nextModuleId : Nat, blocks : Seq(Blocks),
        layout : Seq(Nat \ {0})]

LegacyColumns(size) == CASE size = "full" -> GridColumns
                         [] size = "wide" -> 8
                         [] size = "normal" -> 4

BlockModule(block) ==
  [id |-> block.id,
   columns |-> IF "size" \in DOMAIN block THEN LegacyColumns(block.size)
                                          ELSE Clamp(block.columns)]

SmallestNextId(ids) == IF ids = {} THEN 1 ELSE Max(ids) + 1

\* Fault: the stored number is believed.
StoredNextId(next, ids) == IF next > 0 THEN next ELSE SmallestNextId(ids)

NextIdAfter(next, ids) == Max({next, SmallestNextId(ids)})

\* buildWorkspaceLayoutState's order: the ids of the layout that have a block,
\* each once, then the other blocks by id.
RestoredOrder(layout, ids) ==
  Only(layout, {i \in DOMAIN layout :
                  layout[i] \in ids /\ \A j \in 1..(i - 1) : layout[j] # layout[i]})
  \o Ascending(ids \ ToSet(layout))

Nothing == [modules |-> <<>>, nextModuleId |-> 0]

\* deserializeWorkspaceLayout, then parseLegacyPersistedLayout; Nothing when
\* both give up.
Restore(layout) ==
  IF layout.format = "unreadable" \/ ~IsInjective(OrderOf(layout.blocks)) THEN Nothing
  ELSE LET blocks == [i \in DOMAIN layout.blocks |-> BlockModule(layout.blocks[i])]
           order == IF layout.format = "legacy" THEN OrderOf(blocks)
                    ELSE RestoredOrder(layout.layout, IdsOf(blocks))
       IN [modules |-> [i \in DOMAIN order |-> ModuleOf(blocks, order[i])],
           nextModuleId |-> NextIdAfter(layout.nextModuleId, IdsOf(blocks))]

\* serializeWorkspaceLayout.
Serialize(modules, nextModuleId) ==
  LET normal == Normalize(modules)
      sorted == Ascending(IdsOf(normal))
  IN [format |-> "v2",
      nextModuleId |-> NextIdAfter(nextModuleId, IdsOf(normal)),
      layout |-> OrderOf(normal),
      blocks |-> [i \in DOMAIN sorted |-> ModuleOf(normal, sorted[i])]]
=============================================================================
