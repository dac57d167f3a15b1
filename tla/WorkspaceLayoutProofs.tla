------------------------ MODULE WorkspaceLayoutProofs ------------------------
(***************************************************************************)
(* Theorems about WorkspaceLayout, for any default layout, any layouts     *)
(* stored by earlier versions, any widths and any number of gestures,      *)
(* edits and reloads.                                                      *)
(***************************************************************************)
EXTENDS WorkspaceLayout, WorkspaceGridProofs

-----------------------------------------------------------------------------
(* A drag lives as long as the press behind it.  Which modules there are   *)
(* and where a drop puts them plays no part in it: the operators on lists  *)
(* stay unexpanded, and of the lists only that no id is None is asked.     *)

\* The pointer has its two fields, and the browser knows four states of it.
PointerIsKnown ==
  /\ pointer = [is |-> pointer.is, on |-> pointer.on]
  /\ pointer.is \in {"up", "down", "native", "dropped"}

\* A pointer drag is of some module.
DragIsOfModule == mode = "pointer" => dragging # None

NoModuleIsNone == None \notin IdsOf(modules)

GInv == PointerIsKnown /\ DragIsOfModule /\ GestureFollowsPointer

\* A step that leaves the gesture alone.
LEMMA Elsewhere ==
  ASSUME GInv, UNCHANGED <<dragging, mode, dropTarget, resizing, pointer>> PROVE GInv'
  BY DEF GInv, PointerIsKnown, DragIsOfModule, GestureFollowsPointer

\* A step that clears the drag, whatever it does to the pointer.
LEMMA Cleared ==
  ASSUME ClearDrag, pointer' = Up \/ (pointer' = pointer /\ pointer.is \in {"up", "down"}),
         GInv
  PROVE  GInv'
  BY NoneAssumption
  DEF ClearDrag, Up, GInv, PointerIsKnown, DragIsOfModule, GestureFollowsPointer

LEMMA GestureInit == Init => GInv
  BY NoneAssumption DEF Init, Up, GInv, PointerIsKnown, DragIsOfModule, GestureFollowsPointer

LEMMA PageSteps ==
  ASSUME GInv, Load \/ Save \/ Reload \/ AddModule \/ ResetLayout \/ TransitionCommits
         \/ (\E columns \in PointerWidths : ResizeMove(columns))
         \/ (\E id \in IdsOf(modules) : RemoveModule(id))
  PROVE  GInv'
<1>1. CASE Load \/ Save \/ TransitionCommits
  BY <1>1, Elsewhere DEF Load, Save, TransitionCommits, drag
<1>2. CASE AddModule \/ \E id \in IdsOf(modules) : RemoveModule(id)
  BY <1>2, Elsewhere DEF AddModule, RemoveModule, drag
<1>3. CASE \E columns \in PointerWidths : ResizeMove(columns)
  BY <1>3, Elsewhere DEF ResizeMove, drag
<1>4. CASE Reload
  BY <1>4, Cleared DEF Reload
<1>5. CASE ResetLayout
  BY <1>5, Cleared DEF ResetLayout, Edit
<1>6. QED
  BY <1>1, <1>2, <1>3, <1>4, <1>5

LEMMA Presses ==
  ASSUME GInv, NoModuleIsNone, NEW id \in IdsOf(modules),
         \/ PointerDown(id) \/ DragStart(id)
         \/ \E direction \in Directions : ResizeStart(id, direction)
  PROVE  GInv'
<1>1. CASE PointerDown(id)
  BY <1>1
  DEF PointerDown, NoModuleIsNone, Up, drag, GInv, PointerIsKnown, DragIsOfModule,
      GestureFollowsPointer
<1>2. CASE DragStart(id)
  BY <1>2
  DEF DragStart, NoModuleIsNone, DraggingAnother, GInv, PointerIsKnown, DragIsOfModule,
      GestureFollowsPointer
<1>3. CASE \E direction \in Directions : ResizeStart(id, direction)
  BY <1>3, NoneAssumption
  DEF ResizeStart, ClearDrag, Up, GInv, PointerIsKnown, DragIsOfModule, GestureFollowsPointer
<1>4. QED
  BY <1>1, <1>2, <1>3

LEMMA Targeting ==
  ASSUME GInv,
         \/ DragOverCanvas
         \/ \E id \in IdsOf(modules), placement \in Placements :
              PointerEnter(id, placement) \/ DragOverModule(id, placement)
  PROVE  GInv'
<1>1. ASSUME NEW id, NEW placement, PointerEnter(id, placement) \/ DragOverModule(id, placement)
      PROVE  GInv'
  <2>1. /\ dropTarget' = [id |-> id, placement |-> placement]
        /\ dragging # None /\ dragging # id
        /\ UNCHANGED <<dragging, mode, resizing, pointer>>
    BY <1>1 DEF PointerEnter, DragOverModule, DraggingAnother
  <2>2. dropTarget'.id = id
    BY <2>1
  <2>3. QED
    BY <2>1, <2>2 DEF GInv, PointerIsKnown, DragIsOfModule, GestureFollowsPointer
<1>2. CASE DragOverCanvas
  BY <1>2 DEF DragOverCanvas, GInv, PointerIsKnown, DragIsOfModule, GestureFollowsPointer
<1>3. QED
  BY <1>1, <1>2

LEMMA Droppings ==
  ASSUME GInv,
         \/ DropOnCanvas
         \/ \E id \in IdsOf(modules) \cup {0} : ForeignDrop(id)
         \/ \E id \in IdsOf(modules), placement \in Placements :
              PointerUpOnModule(id, placement) \/ DropOnModule(id, placement)
  PROVE  GInv'
<1>1. CASE NativeDropDone /\ resizing = None /\ pointer.is = "native"
  <2>1. pointer' = [is |-> "dropped", on |-> pointer.on]
    BY <1>1 DEF NativeDropDone, GInv, PointerIsKnown
  <2>2. QED
    BY <1>1, <2>1, NoneAssumption
    DEF NativeDropDone, GInv, PointerIsKnown, DragIsOfModule, GestureFollowsPointer
<1>2. CASE DropOnCanvas \/ \E id \in IdsOf(modules), placement \in Placements :
                             DropOnModule(id, placement)
  BY <1>1, <1>2 DEF DropOnCanvas, DropOnModule
<1>3. CASE \E id \in IdsOf(modules) \cup {0} : ForeignDrop(id)
  BY <1>3, NoneAssumption
  DEF ForeignDrop, Up, GInv, PointerIsKnown, DragIsOfModule, GestureFollowsPointer
<1>4. CASE \E id \in IdsOf(modules), placement \in Placements : PointerUpOnModule(id, placement)
  BY <1>4, Cleared DEF PointerUpOnModule
<1>5. QED
  BY <1>2, <1>3, <1>4

LEMMA Endings ==
  ASSUME GInv, PointerUpElsewhere \/ PointerLost \/ DragEnd PROVE GInv'
<1>1. CASE PointerUpElsewhere
  <2>1. CASE ReleaseEnds
    BY <1>1, <2>1, Cleared DEF PointerUpElsewhere, Release
  <2>2. CASE ~ReleaseEnds
    BY <1>1, <2>2
    DEF PointerUpElsewhere, Release, ReleaseEnds, drag, Up, GInv, PointerIsKnown,
        DragIsOfModule, GestureFollowsPointer
  <2>3. QED
    BY <2>1, <2>2
<1>2. CASE PointerLost
  <2>1. CASE ReleaseEnds
    BY <1>2, <2>1, Cleared DEF PointerLost, Release, ReleaseEnds, GInv, GestureFollowsPointer
  <2>2. CASE ~ReleaseEnds
    BY <1>2, <2>2
    DEF PointerLost, Release, ReleaseEnds, drag, Up, GInv, PointerIsKnown,
        DragIsOfModule, GestureFollowsPointer
  <2>3. QED
    BY <2>1, <2>2
<1>3. CASE DragEnd
  BY <1>3, Cleared DEF DragEnd
<1>4. QED
  BY <1>1, <1>2, <1>3

LEMMA GestureStep == GInv /\ NoModuleIsNone /\ [Next]_vars => GInv'
<1> SUFFICES ASSUME GInv, NoModuleIsNone, [Next]_vars PROVE GInv'
  OBVIOUS
<1>1. CASE UNCHANGED vars
  BY <1>1, Elsewhere DEF vars
<1>2. ASSUME NEW id \in IdsOf(modules), OnModule(id) PROVE GInv'
  BY <1>2, PageSteps, Presses, Targeting, Droppings DEF OnModule
<1>3. QED
  BY <1>1, <1>2, PageSteps, Targeting, Droppings, Endings DEF Next

-----------------------------------------------------------------------------
(* The lists of modules, as shown and as the queued resizes will make them. *)

\* Modules with different ids, all below the next one.
GoodList(list, next) ==
  /\ list \in Seq(Modules)
  /\ IsInjective(OrderOf(list))
  /\ \A id \in IdsOf(list) : id < next

GoodLists ==
  /\ GoodList(modules, nextModuleId)
  /\ GoodList(ahead, nextModuleId)
  /\ nextModuleId \in Nat \ {0}

StoredIsLayout == stored = None \/ stored \in Layouts

LEMMA PickedIsGood ==
  ASSUME NEW list, NEW next, GoodList(list, next), NEW new \in Seq(Modules), NEW p,
         Picks(p, new, list)
  PROVE  GoodList(new, next)
  BY PickedIds DEF GoodList

LEMMA SameIdsIsGood ==
  ASSUME NEW list, NEW next, GoodList(list, next), NEW new \in Seq(Modules),
         DOMAIN new = DOMAIN list, \A i \in DOMAIN list : new[i].id = list[i].id
  PROVE  GoodList(new, next)
<1>1. OrderOf(new) = OrderOf(list) /\ IdsOf(new) = IdsOf(list)
  BY SameOrder
<1>2. QED
  BY <1>1 DEF GoodList

LEMMA DefaultIsGood ==
  /\ GoodList(DefaultModules, SmallestNextId(IdsOf(DefaultModules)))
  /\ SmallestNextId(IdsOf(DefaultModules)) \in Nat \ {0}
<1>1. DefaultWidths \in Seq(Widths) /\ DOMAIN DefaultWidths = 1..Len(DefaultWidths)
      /\ Len(DefaultWidths) \in Nat
  BY WidthsAssumption
<1>2. /\ DOMAIN DefaultModules = 1..Len(DefaultWidths)
      /\ \A i \in 1..Len(DefaultWidths) :
           DefaultModules[i] = [id |-> i, columns |-> DefaultWidths[i]]
  BY <1>1 DEF DefaultModules
<1>3. \A i \in 1..Len(DefaultWidths) : DefaultModules[i] \in Modules /\ DefaultModules[i].id = i
  BY <1>1, <1>2 DEF Modules
<1>4. DefaultModules \in Seq(Modules)
  <2>1. DefaultModules \in [1..Len(DefaultWidths) -> Modules]
    BY <1>1, <1>2, <1>3 DEF DefaultModules
  <2>2. QED
    BY <1>1, <2>1
<1>5. IsInjective(OrderOf(DefaultModules))
  BY <1>2, <1>3 DEF IsInjective, OrderOf
<1>6. IdsOf(DefaultModules) \in SUBSET Nat /\ IsFiniteSet(IdsOf(DefaultModules))
  BY <1>4, IdsAreFinite
<1>7. QED
  BY <1>4, <1>5, <1>6, SmallestIs DEF GoodList

LEMMA AppendedIsGood ==
  ASSUME NEW list, NEW next \in Nat \ {0}, GoodList(list, next)
  PROVE  GoodList(Append(list, [id |-> next, columns |-> CustomColumns]), next + 1)
<1>1. PICK m : m = [id |-> next, columns |-> CustomColumns]
  OBVIOUS
<1>2. m \in Modules /\ m.id = next
  BY <1>1 DEF Modules, CustomColumns, Widths, MinColumns, GridColumns
<1>3. /\ list \in Seq(Modules) /\ IsInjective(OrderOf(list))
      /\ \A id \in IdsOf(list) : id < next /\ id \in Nat
  BY IdsAreFinite DEF GoodList
<1>4. next \notin IdsOf(list)
  BY <1>3
<1>5. PICK new : new = Append(list, m)
  OBVIOUS
<1>6. new \in Seq(Modules) /\ IdsOf(new) = IdsOf(list) \cup {next} /\ IsInjective(OrderOf(new))
  BY <1>2, <1>3, <1>4, <1>5, AppendIs
<1>7. \A id \in IdsOf(new) : id < next + 1
  BY <1>3, <1>6
<1>8. QED
  BY <1>1, <1>5, <1>6, <1>7 DEF GoodList

LEMMA WithoutIsGood ==
  ASSUME NEW list, NEW next, GoodList(list, next), NEW id
  PROVE  GoodList(Without(list, id), next)
<1>1. list \in Seq(Modules)
  BY DEF GoodList
<1>2. Without(list, id) \in Seq(Modules) /\ \E p : Picks(p, Without(list, id), list)
  BY <1>1, WithoutIs
<1>3. QED
  BY <1>2, PickedIsGood

LEMMA ResizedIsGood ==
  ASSUME NEW list, NEW next, GoodList(list, next), NEW id, NEW columns \in Int
  PROVE  GoodList(SetColumns(list, id, columns), next)
<1>1. list \in Seq(Modules)
  BY DEF GoodList
<1>2. QED
  BY <1>1, SetColumnsIs, SameIdsIsGood

\* The module of each place of a list after a module was moved within it.
ShiftedModules(new, list, from, at) ==
  \A k \in 1..Len(list) : new[k] = list[Shifted(Len(list), from, at)[k]]

LEMMA ShiftedIsGood ==
  ASSUME NEW list, NEW next, GoodList(list, next), NEW new \in Seq(Modules),
         NEW from \in 1..Len(list), NEW at \in 1..Len(list),
         Len(new) = Len(list), ShiftedModules(new, list, from, at)
  PROVE  /\ GoodList(new, next)
         /\ IdsOf(new) = IdsOf(list)
<1>1. PICK n \in Nat : n = Len(list) /\ DOMAIN list = 1..n /\ DOMAIN new = 1..n
  BY DEF GoodList
<1>2. PICK p : p = Shifted(n, from, at)
  OBVIOUS
<1>3. from \in 1..n /\ at \in 1..n
  BY <1>1
<1>4. p \in [1..n -> 1..n] /\ IsInjective(p)
  <2>1. /\ Shifted(n, from, at) \in [1..n -> 1..n]
        /\ IsInjective(Shifted(n, from, at))
    BY <1>3, ShiftedIs
  <2>2. QED
    BY <1>2, <2>1
<1>5. \A i \in 1..n : \E k \in 1..n : p[k] = i
  <2>1. \A i \in 1..n : \E k \in 1..n : Shifted(n, from, at)[k] = i
    BY <1>3, ShiftedIs
  <2>2. QED
    BY <1>2, <2>1
<1>6. \A k \in 1..n : new[k] = list[p[k]]
  BY <1>1, <1>2 DEF ShiftedModules
<1>7. Picks(p, new, list)
  BY <1>1, <1>4, <1>6 DEF Picks
<1>8. GoodList(new, next)
  BY <1>7, PickedIsGood
<1>9. \A i \in DOMAIN list : \E k \in DOMAIN new : p[k] = i
  BY <1>1, <1>5
<1>10. QED
  BY <1>7, <1>8, <1>9, PickedIds

LEMMA PushedIsGood ==
  ASSUME NEW list, NEW next, GoodList(list, next), NEW source
  PROVE  GoodList(PushToEnd(list, source), next)
<1>1. list \in Seq(Modules) /\ Len(list) \in Nat
  BY DEF GoodList
<1>2. PICK from : from = PositionOf(list, source)
  OBVIOUS
<1>3. PICK new : new = PushToEnd(list, source)
  OBVIOUS
<1>4. /\ new \in Seq(Modules) /\ Len(new) = Len(list)
      /\ from = 0 => new = list
      /\ from # 0 => /\ from \in 1..Len(list)
                     /\ ShiftedModules(new, list, from, Len(list))
  BY <1>1, <1>2, <1>3, PushedIs DEF ShiftedModules
<1>5. from # 0 => Len(list) \in 1..Len(list)
  BY <1>1, <1>4
<1>6. QED
  BY <1>3, <1>4, <1>5, ShiftedIsGood

LEMMA MovedIsGood ==
  ASSUME NEW list, NEW next, GoodList(list, next), NEW source, NEW target, NEW placement,
         source # target
  PROVE  /\ GoodList(MoveToSharedRow(list, source, target, placement), next)
         /\ IdsOf(MoveToSharedRow(list, source, target, placement)) = IdsOf(list)
<1>1. list \in Seq(Modules) /\ IsInjective(OrderOf(list))
  BY DEF GoodList
<1>2. PICK from : from = PositionOf(list, source)
  OBVIOUS
<1>3. PICK to : to = PositionOf(list, target)
  OBVIOUS
<1>4. PICK at : at = InsertionPlace(from, to, placement)
  OBVIOUS
<1>5. PICK moved : moved = MoveModule(list, source, target, placement)
  OBVIOUS
<1>6. PICK new : new = MoveToSharedRow(list, source, target, placement)
  OBVIOUS
<1>7. /\ moved \in Seq(Modules) /\ Len(moved) = Len(list)
      /\ from = 0 \/ to = 0 => moved = list
      /\ from # 0 /\ to # 0 =>
           /\ from \in 1..Len(list) /\ at \in 1..Len(list)
           /\ ShiftedModules(moved, list, from, at)
  BY <1>1, <1>2, <1>3, <1>4, <1>5, ModuleMoved DEF ShiftedModules
<1>8. GoodList(moved, next) /\ IdsOf(moved) = IdsOf(list)
  <2>1. CASE from = 0 \/ to = 0
    BY <1>7, <2>1
  <2>2. CASE from # 0 /\ to # 0
    <3>1. /\ GoodList(list, next) /\ moved \in Seq(Modules) /\ Len(moved) = Len(list)
          /\ from \in 1..Len(list) /\ at \in 1..Len(list)
          /\ ShiftedModules(moved, list, from, at)
      BY <1>7, <2>2
    <3>2. QED
      BY ONLY <3>1, ShiftedIsGood
  <2>3. QED
    BY <2>1, <2>2
<1>9. /\ new \in Seq(Modules) /\ DOMAIN new = DOMAIN moved
      /\ \A i \in DOMAIN moved : new[i].id = moved[i].id
  BY <1>1, <1>5, <1>6, SharedRowMoved
<1>10. GoodList(new, next) /\ IdsOf(new) = IdsOf(moved)
  BY <1>8, <1>9, SameIdsIsGood, SameOrder
<1>11. QED
  BY <1>6, <1>8, <1>10

LEMMA ListsInit == Init => GoodLists /\ StoredIsLayout
  BY DefaultIsGood, StoredAssumption DEF Init, GoodLists, StoredIsLayout

\* What a drop makes of a list.
Dropped(list, source, target) ==
  IF target = None THEN PushToEnd(list, source)
  ELSE MoveToSharedRow(list, source, target.id, target.placement)

LEMMA DropsAre ==
  ASSUME NEW source, NEW target, Drops(source, target)
  PROVE  /\ modules' = Dropped(modules, source, target)
         /\ ahead' = Dropped(ahead, source, target)
         /\ lastDrop' = [source |-> source, target |-> target, from |-> modules]
         /\ saveDue' = TRUE
         /\ UNCHANGED <<nextModuleId, loaded, stored, kept>>
  BY DEF Drops, Apply, Dropped, storage

LEMMA DroppedIsGood ==
  ASSUME NEW list, NEW next, GoodList(list, next), NEW source, NEW target,
         target = None \/ target.id # source
  PROVE  GoodList(Dropped(list, source, target), next)
<1>1. CASE target = None
  BY <1>1, PushedIsGood DEF Dropped
<1>2. CASE target # None
  BY <1>2, MovedIsGood DEF Dropped
<1>3. QED
  BY <1>1, <1>2

\* A drop has a module that is not the dropped one for its target, or none.
DropsApart(source, target) ==
  /\ Drops(source, target)
  /\ target = None \/ target.id # source

LEMMA DropsAreApart ==
  ASSUME GInv,
         \/ DropOnCanvas
         \/ \E id \in IdsOf(modules) \cup {0} : ForeignDrop(id)
         \/ \E id \in IdsOf(modules), placement \in Placements :
              PointerUpOnModule(id, placement) \/ DropOnModule(id, placement)
  PROVE  \E source : \E target \in {None, dropTarget} \cup
                         {[id |-> id, placement |-> placement] :
                            id \in IdsOf(modules), placement \in Placements} :
           DropsApart(source, target)
<1>1. CASE DropOnCanvas
  <2>1. pointer.is = "native" /\ dragging = pointer.on
        /\ (dropTarget = None \/ dropTarget.id # dragging)
    BY <1>1 DEF DropOnCanvas, GInv, GestureFollowsPointer
  <2>2. Drops(IF dragging # None THEN dragging ELSE pointer.on, dropTarget)
    BY <1>1 DEF DropOnCanvas
  <2>3. Drops(dragging, dropTarget)
    BY <2>1, <2>2
  <2>4. QED
    BY <2>1, <2>3 DEF DropsApart
<1>2. CASE \E id \in IdsOf(modules) \cup {0} : ForeignDrop(id)
  <2>1. PICK id : ForeignDrop(id)
    BY <1>2
  <2>2. dropTarget = None /\ dragging = None
    BY <2>1 DEF ForeignDrop, Up, GInv, GestureFollowsPointer
  <2>3. Drops(IF dragging # None THEN dragging ELSE id, dropTarget)
    BY <2>1 DEF ForeignDrop
  <2>4. Drops(id, dropTarget)
    BY <2>2, <2>3
  <2>5. QED
    BY <2>2, <2>4 DEF DropsApart
<1>3. CASE \E id \in IdsOf(modules), placement \in Placements :
             PointerUpOnModule(id, placement) \/ DropOnModule(id, placement)
  <2>1. PICK id \in IdsOf(modules), placement \in Placements :
          PointerUpOnModule(id, placement) \/ DropOnModule(id, placement)
    BY <1>3
  <2>2. PICK target : target = [id |-> id, placement |-> placement]
    OBVIOUS
  <2>3. target.id = id
    BY <2>2
  <2>4. Drops(dragging, target) /\ dragging # id
    BY <2>1, <2>2 DEF PointerUpOnModule, DropOnModule, DraggingAnother
  <2>5. QED
    BY <2>2, <2>3, <2>4 DEF DropsApart
<1>4. QED
  BY <1>1, <1>2, <1>3

LEMMA DropsGood ==
  ASSUME GoodLists, NEW source, NEW target, DropsApart(source, target)
  PROVE  GoodLists'
<1>1. /\ modules' = Dropped(modules, source, target)
      /\ ahead' = Dropped(ahead, source, target)
      /\ nextModuleId' = nextModuleId
  BY DropsAre DEF DropsApart
<1>2. target = None \/ target.id # source
  BY DEF DropsApart
<1>3. /\ GoodList(Dropped(modules, source, target), nextModuleId)
      /\ GoodList(Dropped(ahead, source, target), nextModuleId)
  BY <1>2, DroppedIsGood DEF GoodLists
<1>4. GoodList(modules', nextModuleId') /\ GoodList(ahead', nextModuleId')
  BY <1>1, <1>3
<1>5. QED
  BY <1>1, <1>4 DEF GoodLists

LEMMA LoadGood ==
  ASSUME GoodLists, StoredIsLayout, Load PROVE GoodLists'
<1>1. PICK restored : restored = Restored(stored)
  OBVIOUS
<1>2. /\ modules' = IF restored # Nothing THEN restored.modules ELSE modules
      /\ ahead' = IF restored # Nothing THEN restored.modules ELSE ahead
      /\ nextModuleId' = IF restored # Nothing THEN restored.nextModuleId ELSE nextModuleId
  BY <1>1 DEF Load
<1>3. CASE restored = Nothing
  <2>1. modules' = modules /\ ahead' = ahead /\ nextModuleId' = nextModuleId
    BY <1>2, <1>3
  <2>2. QED
    BY <2>1 DEF GoodLists
<1>4. CASE restored # Nothing
  <2>1. stored \in Layouts /\ restored = Restore(stored)
    BY <1>1, <1>4 DEF StoredIsLayout, Restored
  <2>2. GoodList(restored.modules, restored.nextModuleId)
        /\ restored.nextModuleId \in Nat \ {0}
    BY <1>4, <2>1, RestoreIs DEF GoodList
  <2>3. /\ modules' = restored.modules /\ ahead' = restored.modules
        /\ nextModuleId' = restored.nextModuleId
    BY <1>2, <1>4
  <2>4. QED
    BY <2>2, <2>3 DEF GoodLists
<1>5. QED
  BY <1>3, <1>4

LEMMA EditsGood ==
  ASSUME GoodLists,
         Reload \/ ResetLayout \/ AddModule \/ \E id \in IdsOf(modules) : RemoveModule(id)
  PROVE  GoodLists'
<1>1. CASE Reload \/ ResetLayout
  <2>1. /\ modules' = DefaultModules /\ ahead' = DefaultModules
        /\ nextModuleId' = SmallestNextId(IdsOf(DefaultModules))
    BY <1>1 DEF Reload, ResetLayout, Apply
  <2>2. QED
    BY <2>1, DefaultIsGood DEF GoodLists
<1>2. CASE AddModule
  <2>1. PICK m : m = [id |-> nextModuleId, columns |-> CustomColumns]
    OBVIOUS
  <2>2. modules' = Append(modules, m) /\ ahead' = Append(ahead, m)
        /\ nextModuleId' = nextModuleId + 1
    BY <1>2, <2>1 DEF AddModule, Apply
  <2>3. GoodList(Append(modules, m), nextModuleId + 1)
    BY <2>1, AppendedIsGood DEF GoodLists
  <2>4. GoodList(Append(ahead, m), nextModuleId + 1)
    BY <2>1, AppendedIsGood DEF GoodLists
  <2>5. nextModuleId + 1 \in Nat \ {0}
    BY DEF GoodLists
  <2>6. QED
    BY <2>2, <2>3, <2>4, <2>5 DEF GoodLists
<1>3. CASE \E id \in IdsOf(modules) : RemoveModule(id)
  <2>1. PICK id : RemoveModule(id)
    BY <1>3
  <2>2. modules' = Without(modules, id) /\ ahead' = Without(ahead, id)
        /\ nextModuleId' = nextModuleId
    BY <2>1 DEF RemoveModule, Apply
  <2>3. GoodList(Without(modules, id), nextModuleId) /\ GoodList(Without(ahead, id), nextModuleId)
    BY WithoutIsGood DEF GoodLists
  <2>4. QED
    BY <2>2, <2>3 DEF GoodLists
<1>4. QED
  BY <1>1, <1>2, <1>3

LEMMA ResizingGood ==
  ASSUME GoodLists, NEW columns \in PointerWidths, ResizeMove(columns),
         resizing \in [id : Nat, direction : Directions, startColumns : Widths]
  PROVE  GoodLists'
<1>1. PICK width : width = IF resizing.direction = "south" THEN resizing.startColumns
                           ELSE Clamp(columns)
  OBVIOUS
<1>2. width \in Int
  BY <1>1, ClampIs, PointerAssumption DEF Widths, MinColumns, GridColumns
<1>3. /\ ahead' = SetColumns(ahead, resizing.id, width)
      /\ modules' = modules /\ nextModuleId' = nextModuleId
  BY <1>1 DEF ResizeMove
<1>4. GoodList(SetColumns(ahead, resizing.id, width), nextModuleId)
  BY <1>2, ResizedIsGood DEF GoodLists
<1>5. QED
  BY <1>3, <1>4 DEF GoodLists

LEMMA StillGood ==
  ASSUME GoodLists, TransitionCommits \/ UNCHANGED <<modules, ahead, nextModuleId>>
  PROVE  GoodLists'
  BY DEF TransitionCommits, GoodLists

-----------------------------------------------------------------------------
(* The other state of the hook has its types. *)

HookTypes ==
  /\ loaded \in BOOLEAN
  /\ dragging \in Nat \/ dragging = None
  /\ mode \in {"pointer", "native", None}
  /\ dropTarget \in Targets \/ dropTarget = None
  /\ \/ resizing = None
     \/ resizing \in [id : Nat, direction : Directions, startColumns : Widths]
  /\ pointer \in [is : {"up", "down", "native", "dropped"}, on : Nat \cup {None}]
  /\ saveDue \in BOOLEAN

LEMMA TypesAre == TypeOK /\ IdsUnique <=> GoodLists /\ HookTypes
  BY DEF TypeOK, IdsUnique, GoodLists, GoodList, HookTypes

LEMMA UpIsTyped == Up \in [is : {"up", "down", "native", "dropped"}, on : Nat \cup {None}]
  BY DEF Up

LEMMA HookTypesInit == Init => HookTypes
<1> SUFFICES ASSUME Init PROVE HookTypes
  OBVIOUS
<1>1. /\ loaded = FALSE /\ saveDue = FALSE
      /\ dragging = None /\ mode = None /\ dropTarget = None /\ resizing = None
      /\ pointer = Up
  BY DEF Init
<1>2. QED
  BY <1>1, UpIsTyped DEF HookTypes

\* The modules have ids and widths, and so do the places to drop beside them.
LEMMA ModulesAreTyped ==
  ASSUME GoodLists, NEW id \in IdsOf(modules)
  PROVE  /\ id \in Nat /\ id # 0 /\ id # None
         /\ ModuleOf(modules, id).columns \in Widths
         /\ \A placement \in Placements : [id |-> id, placement |-> placement] \in Targets
<1>1. modules \in Seq(Modules)
  BY DEF GoodLists, GoodList
<1>2. id \in Nat \ {0}
  BY <1>1, IdsAreFinite
<1>3. ModuleOf(modules, id).columns \in Widths
  BY <1>1, ModuleIs DEF Modules
<1>4. \A placement \in Placements : [id |-> id, placement |-> placement] \in Targets
  BY <1>2 DEF Targets
<1>5. QED
  BY <1>2, <1>3, <1>4, NoneAssumption

LEMMA PageTypes ==
  ASSUME HookTypes, Load \/ Save \/ Reload \/ AddModule \/ ResetLayout \/ TransitionCommits
         \/ (\E columns \in PointerWidths : ResizeMove(columns))
         \/ (\E id \in IdsOf(modules) : RemoveModule(id))
  PROVE  HookTypes'
<1>1. CASE Load \/ Save \/ TransitionCommits
  BY <1>1 DEF Load, Save, TransitionCommits, drag, HookTypes
<1>2. CASE AddModule \/ \E id \in IdsOf(modules) : RemoveModule(id)
  BY <1>2 DEF AddModule, RemoveModule, Apply, drag, HookTypes
<1>3. CASE \E columns \in PointerWidths : ResizeMove(columns)
  BY <1>3 DEF ResizeMove, drag, HookTypes
<1>4. CASE Reload
  BY <1>4 DEF Reload, ClearDrag, Up, HookTypes
<1>5. CASE ResetLayout
  BY <1>5 DEF ResetLayout, ClearDrag, Apply, HookTypes
<1>6. QED
  BY <1>1, <1>2, <1>3, <1>4, <1>5

LEMMA PressTypes ==
  ASSUME GoodLists, HookTypes, NEW id \in IdsOf(modules),
         \/ PointerDown(id) \/ DragStart(id)
         \/ \E direction \in Directions : ResizeStart(id, direction)
  PROVE  HookTypes'
<1>1. id \in Nat /\ ModuleOf(modules, id).columns \in Widths
  BY ModulesAreTyped
<1>2. CASE PointerDown(id)
  BY <1>1, <1>2 DEF PointerDown, drag, HookTypes
<1>3. CASE DragStart(id)
  BY <1>1, <1>3 DEF DragStart, HookTypes
<1>4. CASE \E direction \in Directions : ResizeStart(id, direction)
  <2>1. PICK width \in Widths : width = ModuleOf(modules, id).columns
    BY <1>1
  <2>2. PICK direction \in Directions : ResizeStart(id, direction)
    BY <1>4
  <2>3. /\ resizing' = [id |-> id, direction |-> direction, startColumns |-> width]
        /\ pointer' = [is |-> "down", on |-> None]
        /\ ClearDrag
        /\ UNCHANGED <<loaded, saveDue>>
    BY <2>1, <2>2 DEF ResizeStart
  <2>4. QED
    BY <1>1, <2>1, <2>3 DEF ClearDrag, HookTypes
<1>5. QED
  BY <1>2, <1>3, <1>4

LEMMA TargetTypes ==
  ASSUME GoodLists, HookTypes,
         \/ DragOverCanvas
         \/ \E id \in IdsOf(modules), placement \in Placements :
              PointerEnter(id, placement) \/ DragOverModule(id, placement)
  PROVE  HookTypes'
<1>1. CASE DragOverCanvas
  BY <1>1 DEF DragOverCanvas, HookTypes
<1>2. CASE \E id \in IdsOf(modules), placement \in Placements :
             PointerEnter(id, placement) \/ DragOverModule(id, placement)
  <2>1. /\ dropTarget' \in Targets
        /\ UNCHANGED <<loaded, dragging, mode, resizing, pointer, saveDue>>
    BY <1>2, ModulesAreTyped DEF PointerEnter, DragOverModule
  <2>2. QED
    BY <2>1 DEF HookTypes
<1>3. QED
  BY <1>1, <1>2

LEMMA DropTypes ==
  ASSUME HookTypes,
         \/ DropOnCanvas
         \/ \E id \in IdsOf(modules) \cup {0} : ForeignDrop(id)
         \/ \E id \in IdsOf(modules), placement \in Placements :
              PointerUpOnModule(id, placement) \/ DropOnModule(id, placement)
  PROVE  HookTypes'
<1>1. CASE NativeDropDone /\ saveDue' = TRUE /\ loaded' = loaded
  <2>1. pointer' \in [is : {"up", "down", "native", "dropped"}, on : Nat \cup {None}]
    BY <1>1 DEF NativeDropDone, HookTypes
  <2>2. QED
    BY <1>1, <2>1 DEF NativeDropDone, HookTypes
<1>2. CASE DropOnCanvas \/ \E id \in IdsOf(modules), placement \in Placements :
                             DropOnModule(id, placement)
  BY <1>1, <1>2, DropsAre DEF DropOnCanvas, DropOnModule
<1>3. CASE \E id \in IdsOf(modules) \cup {0} : ForeignDrop(id)
  BY <1>3, DropsAre DEF ForeignDrop, HookTypes
<1>4. CASE \E id \in IdsOf(modules), placement \in Placements : PointerUpOnModule(id, placement)
  <2>1. /\ dragging' = None /\ mode' = None /\ dropTarget' = None /\ resizing' = resizing
        /\ pointer' = Up
        /\ saveDue' = TRUE /\ loaded' = loaded
    BY <1>4, DropsAre DEF PointerUpOnModule, ClearDrag
  <2>2. QED
    BY <2>1, UpIsTyped DEF HookTypes
<1>5. QED
  BY <1>2, <1>3, <1>4

LEMMA EndTypes ==
  ASSUME HookTypes, PointerUpElsewhere \/ PointerLost \/ DragEnd PROVE HookTypes'
<1>1. CASE PointerUpElsewhere
  BY <1>1 DEF PointerUpElsewhere, Release, ClearDrag, drag, Up, HookTypes
<1>2. CASE PointerLost
  BY <1>2 DEF PointerLost, Release, ClearDrag, drag, Up, HookTypes
<1>3. CASE DragEnd
  BY <1>3 DEF DragEnd, ClearDrag, Up, HookTypes
<1>4. QED
  BY <1>1, <1>2, <1>3

-----------------------------------------------------------------------------
(* What the browser holds. *)

LEMMA SaveKeeps ==
  ASSUME GoodLists, StoredIsLayout, StoredIsKept, Save PROVE StoredIsLayout' /\ StoredIsKept'
<1>1. CASE UNCHANGED storage
  BY <1>1 DEF storage, StoredIsLayout, StoredIsKept
<1>2. CASE /\ stored' = Serialize(modules, nextModuleId)
           /\ kept' = [modules |-> modules, nextModuleId |-> nextModuleId]
  <2>1. PICK layout : layout = Serialize(modules, nextModuleId)
    OBVIOUS
  <2>2. /\ layout \in Layouts
        /\ Restore(layout) = [modules |-> modules, nextModuleId |-> nextModuleId]
    BY <2>1, SavedIsRestored DEF GoodLists, GoodList
  <2>3. stored' = layout /\ layout # None
    BY <1>2, <2>1, <2>2, NoneAssumption
  <2>4. QED
    BY <1>2, <2>2, <2>3 DEF StoredIsLayout, StoredIsKept, Restored
<1>3. QED
  BY <1>1, <1>2 DEF Save

LEMMA LoadKeeps ==
  ASSUME StoredIsLayout, StoredIsKept, Load PROVE StoredIsLayout' /\ StoredIsKept'
<1>1. /\ stored' = IF Restored(stored) # Nothing THEN stored ELSE None
      /\ kept' = kept
  BY DEF Load, MaySave
<1>2. QED
  BY <1>1 DEF StoredIsLayout, StoredIsKept

LEMMA StorageKeeps ==
  ASSUME StoredIsLayout, StoredIsKept, UNCHANGED storage
  PROVE  StoredIsLayout' /\ StoredIsKept'
  BY DEF storage, StoredIsLayout, StoredIsKept

LEMMA KeptInit == Init => StoredIsKept
  BY DEF Init, StoredIsKept

-----------------------------------------------------------------------------
(* The inductive invariant.  That nothing is dropped beside itself, which   *)
(* keeps the ids apart, follows from the gestures; that no module is None,  *)
(* which keeps the gestures apart, from the types of the lists.             *)

WInv ==
  /\ GoodLists
  /\ HookTypes
  /\ GInv
  /\ StoredIsLayout
  /\ StoredIsKept

LEMMA LayoutInit == Init => WInv
  BY ListsInit, HookTypesInit, GestureInit, KeptInit DEF WInv

LEMMA OnModuleStep ==
  ASSUME WInv, NEW id \in IdsOf(modules), OnModule(id)
  PROVE  GoodLists' /\ HookTypes' /\ StoredIsLayout' /\ StoredIsKept'
<1> USE DEF WInv
<1>1. CASE RemoveModule(id)
  <2>1. UNCHANGED storage
    BY <1>1 DEF RemoveModule
  <2>2. QED
    BY <1>1, <2>1, EditsGood, PageTypes, StorageKeeps
<1>2. CASE \/ PointerDown(id) \/ DragStart(id)
           \/ \E direction \in Directions : ResizeStart(id, direction)
  <2>1. UNCHANGED <<modules, ahead, nextModuleId>> /\ UNCHANGED storage
    BY <1>2 DEF PointerDown, DragStart, ResizeStart, lists
  <2>2. QED
    BY <1>2, <2>1, StillGood, PressTypes, StorageKeeps
<1>3. CASE \E placement \in Placements :
             PointerEnter(id, placement) \/ DragOverModule(id, placement)
  <2>1. UNCHANGED <<modules, ahead, nextModuleId>> /\ UNCHANGED storage
    BY <1>3 DEF PointerEnter, DragOverModule, lists
  <2>2. QED
    BY <1>3, <2>1, StillGood, TargetTypes, StorageKeeps
<1>4. CASE \E placement \in Placements :
             PointerUpOnModule(id, placement) \/ DropOnModule(id, placement)
  <2>1. PICK source, target : DropsApart(source, target)
    BY <1>4, DropsAreApart
  <2>2. UNCHANGED storage
    BY <2>1, DropsAre DEF DropsApart, storage
  <2>3. QED
    BY <1>4, <2>1, <2>2, DropsGood, DropTypes, StorageKeeps
<1>5. QED
  BY <1>1, <1>2, <1>3, <1>4 DEF OnModule

LEMMA LayoutStep == WInv /\ [Next]_vars => WInv'
<1> SUFFICES ASSUME WInv, [Next]_vars PROVE WInv'
  OBVIOUS
<1> USE DEF WInv
<1>1. NoModuleIsNone
  BY ModulesAreTyped DEF NoModuleIsNone
<1>2. GInv'
  BY <1>1, GestureStep
<1>3. CASE UNCHANGED vars
  <2>1. UNCHANGED <<modules, ahead, nextModuleId>> /\ UNCHANGED storage
    BY <1>3 DEF vars, storage
  <2>2. HookTypes'
    BY <1>3 DEF vars, HookTypes
  <2>3. QED
    BY <1>2, <2>1, <2>2, StillGood, StorageKeeps
<1>4. CASE Load
  BY <1>2, <1>4, LoadGood, PageTypes, LoadKeeps
<1>5. CASE Save
  <2>1. UNCHANGED <<modules, ahead, nextModuleId>>
    BY <1>5 DEF Save, lists
  <2>2. QED
    BY <1>2, <1>5, <2>1, StillGood, PageTypes, SaveKeeps
<1>6. CASE Reload \/ AddModule \/ ResetLayout
  <2>1. UNCHANGED storage
    BY <1>6 DEF Reload, AddModule, ResetLayout
  <2>2. QED
    BY <1>2, <1>6, <2>1, EditsGood, PageTypes, StorageKeeps
<1>7. CASE \E columns \in PointerWidths : ResizeMove(columns)
  <2>1. UNCHANGED storage
    BY <1>7 DEF ResizeMove
  <2>2. resizing \in [id : Nat, direction : Directions, startColumns : Widths]
    BY <1>7 DEF ResizeMove, HookTypes
  <2>3. QED
    BY <1>2, <1>7, <2>1, <2>2, ResizingGood, PageTypes, StorageKeeps
<1>8. CASE TransitionCommits
  <2>1. UNCHANGED storage
    BY <1>8 DEF TransitionCommits
  <2>2. QED
    BY <1>2, <1>8, <2>1, StillGood, PageTypes, StorageKeeps
<1>9. CASE PointerUpElsewhere \/ PointerLost \/ DragEnd
  <2>1. UNCHANGED <<modules, ahead, nextModuleId>> /\ UNCHANGED storage
    BY <1>9 DEF PointerUpElsewhere, PointerLost, DragEnd, lists
  <2>2. QED
    BY <1>2, <1>9, <2>1, StillGood, EndTypes, StorageKeeps
<1>10. CASE DragOverCanvas
  <2>1. UNCHANGED <<modules, ahead, nextModuleId>> /\ UNCHANGED storage
    BY <1>10 DEF DragOverCanvas, lists
  <2>2. QED
    BY <1>2, <1>10, <2>1, StillGood, TargetTypes, StorageKeeps
<1>11. CASE DropOnCanvas \/ \E id \in IdsOf(modules) \cup {0} : ForeignDrop(id)
  <2>1. PICK source, target : DropsApart(source, target)
    BY <1>11, DropsAreApart
  <2>2. UNCHANGED storage
    BY <2>1, DropsAre DEF DropsApart, storage
  <2>3. QED
    BY <1>2, <1>11, <2>1, <2>2, DropsGood, DropTypes, StorageKeeps
<1>12. CASE \E id \in IdsOf(modules) : OnModule(id)
  BY <1>2, <1>12, OnModuleStep
<1>13. QED
  BY <1>3, <1>4, <1>5, <1>6, <1>7, <1>8, <1>9, <1>10, <1>11, <1>12 DEF Next

LEMMA LayoutInvariant == Spec => []WInv
  BY LayoutInit, LayoutStep, PTL DEF Spec

\* The state of the hook has its types, and every width on the page or queued
\* for it is one of the grid's: clampWorkspaceColumns and
\* distributeColumnsAcrossRow (logic.ts) and the parsers of stored layouts let no
\* other through, whatever was stored, asked for by a resize or left by a drop.
THEOREM TypeCorrectness == Spec => []TypeOK
<1>1. WInv => TypeOK
  BY TypesAre DEF WInv
<1>2. QED
  BY <1>1, LayoutInvariant, PTL

\* No two modules of the page, nor of what queued resizes will make of it, have
\* one id, and nextModuleId stays above them all (use-workspace-modules.ts),
\* through stored layouts of every format, additions, removals, resets and drops.
THEOREM IdsStayUnique == Spec => []IdsUnique
<1>1. WInv => IdsUnique
  BY TypesAre DEF WInv
<1>2. QED
  BY <1>1, LayoutInvariant, PTL

\* A drag of useWorkspaceModules lives exactly as long as the press or the browser's
\* drag behind it, in every interleaving of presses, resizes, drops, lost
\* pointers, reloads and resets.
THEOREM GesturesEnd == Spec => []GestureFollowsPointer
<1>1. WInv => GestureFollowsPointer
  BY DEF WInv, GInv
<1>2. QED
  BY <1>1, LayoutInvariant, PTL

\* The browser holds the layout the user last had saved, or brought along, in a
\* form from which deserializeWorkspaceLayout restores it exactly: the save effect
\* of use-workspace-modules.ts waits for the load, the load removes only what no
\* parser reads, and serializeWorkspaceLayout loses nothing.
THEOREM LayoutIsKept == Spec => []StoredIsKept
<1>1. WInv => StoredIsKept
  BY DEF WInv
<1>2. QED
  BY <1>1, LayoutInvariant, PTL

-----------------------------------------------------------------------------
(* Where a drop lands. *)

\* The others, in their order, once the one at a place is left out of a list.
LEMMA OthersAre ==
  ASSUME NEW n \in Nat, NEW list \in Seq(Modules), Len(list) = n, IsInjective(OrderOf(list)),
         NEW at \in 1..n, NEW id, list[at].id = id
  PROVE  /\ DOMAIN OrderOf(Without(list, id)) = 1..(n - 1)
         /\ \A k \in 1..(n - 1) :
              OrderOf(Without(list, id))[k] = list[IF k < at THEN k ELSE k + 1].id
<1>1. DOMAIN list = 1..n
  OBVIOUS
<1>2. PICK places : places = {i \in DOMAIN list : list[i].id # id}
  OBVIOUS
<1>3. places = (1..n) \ {at}
  BY <1>1, <1>2 DEF IsInjective, OrderOf
<1>4. PICK f : f = [k \in 1..(n - 1) |-> IF k < at THEN k ELSE k + 1]
  OBVIOUS
<1>5. /\ f \in [1..(n - 1) -> places] /\ n - 1 \in Nat
      /\ \A i, j \in 1..(n - 1) : i < j => f[i] < f[j]
  <2>1. n - 1 \in Nat /\ at \in Nat
    OBVIOUS
  <2>2. \A k \in 1..(n - 1) : f[k] = IF k < at THEN k ELSE k + 1
    BY <1>4
  <2>3. \A k \in 1..(n - 1) : f[k] \in 1..n /\ f[k] # at
    BY <2>1, <2>2
  <2>4. f \in [1..(n - 1) -> places]
    BY <1>3, <1>4, <2>2, <2>3
  <2>5. \A i, j \in 1..(n - 1) : i < j => f[i] < f[j]
    BY <2>1, <2>2
  <2>6. QED
    BY <2>1, <2>4, <2>5
<1>6. \A x \in places : \E i \in 1..(n - 1) : f[i] = x
  <2>1. ASSUME NEW x \in (1..n) \ {at} PROVE \E i \in 1..(n - 1) : f[i] = x
    <3>1. CASE x < at
      <4>1. x \in 1..(n - 1) /\ f[x] = x
        BY <1>4, <3>1
      <4>2. QED
        BY <4>1
    <3>2. CASE x > at
      <4>1. x - 1 \in 1..(n - 1) /\ f[x - 1] = x
        BY <1>4, <3>2
      <4>2. QED
        BY <4>1
    <3>3. QED
      BY <3>1, <3>2
  <2>2. QED
    BY <1>3, <2>1
<1>7. PICK rest : rest = Without(list, id)
  OBVIOUS
<1>8. /\ DOMAIN rest = 1..(n - 1)
      /\ \A k \in 1..(n - 1) : rest[k] = list[f[k]]
  <2>1. rest = Only(list, places) /\ places \in SUBSET DOMAIN list
    BY <1>2, <1>7 DEF Without
  <2>2. PICK m \in Nat : m = n - 1
    BY <1>5
  <2>3. Enumerates(f, m, places)
    BY <1>5, <1>6, <2>2 DEF Enumerates
  <2>4. /\ DOMAIN Only(list, places) = 1..m
        /\ \A i \in 1..m : Only(list, places)[i] = list[f[i]]
    <3>1. list \in Seq(Modules) /\ places \in SUBSET DOMAIN list /\ m \in Nat
      BY <2>1
    <3>2. QED
      BY ONLY <2>3, <3>1, OnlyIs
  <2>5. QED
    BY <2>1, <2>2, <2>4
<1>9. QED
  BY <1>4, <1>7, <1>8 DEF OrderOf

\* The order without a module depends on nothing but the order.
LEMMA SameOthers ==
  ASSUME NEW list \in Seq(Modules), NEW new \in Seq(Modules), NEW id,
         OrderOf(new) = OrderOf(list)
  PROVE  OrderOf(Without(new, id)) = OrderOf(Without(list, id))
<1>1. /\ DOMAIN new = DOMAIN list
      /\ \A i \in DOMAIN list : new[i].id = list[i].id
  <2>1. DOMAIN OrderOf(new) = DOMAIN new /\ DOMAIN OrderOf(list) = DOMAIN list
    BY DEF OrderOf
  <2>2. \A i \in DOMAIN list : OrderOf(new)[i] = new[i].id /\ OrderOf(list)[i] = list[i].id
    BY <2>1 DEF OrderOf
  <2>3. QED
    BY <2>1, <2>2
<1>2. PICK places : places = {i \in DOMAIN list : list[i].id # id}
  OBVIOUS
<1>3. /\ places = {i \in DOMAIN new : new[i].id # id}
      /\ places \in SUBSET DOMAIN list /\ places \in SUBSET DOMAIN new
  BY <1>1, <1>2
<1>4. PICK a : a = Only(list, places)
  OBVIOUS
<1>5. PICK b : b = Only(new, places)
  OBVIOUS
<1>6. PICK p : p = Ascending(places)
  OBVIOUS
<1>7. /\ DOMAIN a = 1..Cardinality(places) /\ DOMAIN b = 1..Cardinality(places)
      /\ \A n \in 1..Cardinality(places) : p[n] \in places
      /\ \A n \in 1..Cardinality(places) : a[n] = list[p[n]]
      /\ \A n \in 1..Cardinality(places) : b[n] = new[p[n]]
  <2>1. /\ p \in [DOMAIN a -> places] /\ DOMAIN a = 1..Cardinality(places)
        /\ \A n \in DOMAIN a : a[n] = list[p[n]]
    <3>1. list \in Seq(Modules)
      OBVIOUS
    <3>2. QED
      BY ONLY <1>3, <1>4, <1>6, <3>1, OnlyPicks
  <2>2. DOMAIN b = 1..Cardinality(places) /\ \A n \in DOMAIN b : b[n] = new[p[n]]
    <3>1. new \in Seq(Modules)
      OBVIOUS
    <3>2. QED
      BY ONLY <1>3, <1>5, <1>6, <3>1, OnlyPicks
  <2>3. QED
    BY <2>1, <2>2
<1>8. OrderOf(a) = OrderOf(b)
  BY <1>1, <1>3, <1>7 DEF OrderOf
<1>9. Without(list, id) = a /\ Without(new, id) = b
  BY <1>2, <1>3, <1>4, <1>5 DEF Without
<1>10. QED
  BY <1>8, <1>9

\* The modules of a list of n in the order in which one has moved.
ShiftedIds(new, list, n, from, at) ==
  \A k \in 1..n : new[k].id = list[Shifted(n, from, at)[k]].id

\* What moving the module at one place to another does to the order of the list.
LEMMA MovedOrder ==
  ASSUME NEW n \in Nat, NEW list \in Seq(Modules), Len(list) = n, IsInjective(OrderOf(list)),
         NEW new \in Seq(Modules), Len(new) = n, NEW from \in 1..n, NEW at \in 1..n,
         ShiftedIds(new, list, n, from, at),
         NEW source, list[from].id = source
  PROVE  /\ OrderOf(Without(new, source)) = OrderOf(Without(list, source))
         /\ PositionOf(new, source) = at
<1>1. DOMAIN list = 1..n /\ DOMAIN new = 1..n
  OBVIOUS
<1>2. \A k \in 1..n :
        new[k].id = list[IF k = at THEN from
                         ELSE IF k < at THEN (IF k < from THEN k ELSE k + 1)
                         ELSE (IF k - 1 < from THEN k - 1 ELSE k)].id
  BY DEF ShiftedIds, Shifted
<1>3. new[at].id = source
  BY <1>2
<1>4. IsInjective(OrderOf(new))
  <2>1. PICK p : p = Shifted(n, from, at)
    OBVIOUS
  <2>2. p \in [1..n -> 1..n] /\ IsInjective(p)
    <3>1. Shifted(n, from, at) \in [1..n -> 1..n] /\ IsInjective(Shifted(n, from, at))
      BY ShiftedIs
    <3>2. QED
      BY <2>1, <3>1
  <2>3. Picks(p, new, list)
    BY <1>1, <2>1, <2>2 DEF Picks, ShiftedIds
  <2>4. QED
    BY <2>3, PickedIds
<1>5. PositionOf(new, source) = at
  <2>1. PICK q : q = PositionOf(new, source)
    OBVIOUS
  <2>2. source \in IdsOf(new)
    BY <1>1, <1>3 DEF IdsOf
  <2>3. q \in DOMAIN new /\ new[q].id = source
    BY <1>1, <2>1, <2>2, PositionIs
  <2>4. \A i, j \in DOMAIN new : new[i].id = new[j].id => i = j
    BY <1>4 DEF IsInjective, OrderOf
  <2>5. QED
    BY <1>1, <1>3, <2>1, <2>3, <2>4
<1>6. PICK a : a = OrderOf(Without(list, source))
  OBVIOUS
<1>7. PICK b : b = OrderOf(Without(new, source))
  OBVIOUS
<1>8. /\ DOMAIN a = 1..(n - 1)
      /\ \A k \in 1..(n - 1) : a[k] = list[IF k < from THEN k ELSE k + 1].id
  <2>1. /\ DOMAIN OrderOf(Without(list, source)) = 1..(n - 1)
        /\ \A k \in 1..(n - 1) :
             OrderOf(Without(list, source))[k] = list[IF k < from THEN k ELSE k + 1].id
    <3>1. /\ n \in Nat /\ list \in Seq(Modules) /\ Len(list) = n /\ IsInjective(OrderOf(list))
          /\ from \in 1..n /\ list[from].id = source
      OBVIOUS
    <3>2. QED
      BY ONLY <3>1, OthersAre
  <2>2. QED
    BY <1>6, <2>1
<1>9. /\ DOMAIN b = 1..(n - 1)
      /\ \A k \in 1..(n - 1) : b[k] = new[IF k < at THEN k ELSE k + 1].id
  BY <1>3, <1>4, <1>7, OthersAre
<1>10. ASSUME NEW k \in 1..(n - 1) PROVE a[k] = b[k]
  <2>1. CASE k < at
    <3>1. b[k] = new[k].id
      BY <1>9, <2>1
    <3>2. k \in 1..n /\ k # at
      BY <2>1
    <3>3. new[k].id = list[IF k < from THEN k ELSE k + 1].id
      BY <1>2, <2>1, <3>2
    <3>4. QED
      BY <1>8, <3>1, <3>3
  <2>2. CASE ~(k < at)
    <3>1. b[k] = new[k + 1].id
      BY <1>9, <2>2
    <3>2. k + 1 \in 1..n /\ k + 1 # at /\ ~(k + 1 < at) /\ k + 1 - 1 = k
      BY <2>2
    <3>3. new[k + 1].id = list[IF k < from THEN k ELSE k + 1].id
      BY <1>2, <3>2
    <3>4. QED
      BY <1>8, <3>1, <3>3
  <2>3. QED
    BY <2>1, <2>2
<1>11. a = b
  <2>1. a = [k \in 1..(n - 1) |-> a[k]] /\ b = [k \in 1..(n - 1) |-> b[k]]
    BY <1>6, <1>7, <1>8, <1>9 DEF OrderOf
  <2>2. QED
    BY <1>10, <2>1
<1>12. QED
  BY <1>5, <1>6, <1>7, <1>11

\* The place of the target, once the dropped module is at a place beside it.
Beside(at, placement) == IF placement = "before" THEN at + 1 ELSE at - 1

LEMMA TargetPlace ==
  ASSUME NEW n \in Nat, NEW from \in 1..n, NEW to \in 1..n, from # to,
         NEW placement \in Placements, NEW at \in 1..n, at = InsertionPlace(from, to, placement)
  PROVE  LET k == Beside(at, placement)
         IN k \in 1..n /\ Shifted(n, from, at)[k] = to
<1>1. PICK k : k = Beside(at, placement)
  OBVIOUS
<1>2. CASE placement = "before"
  <2>1. at = (IF from < to THEN to - 1 ELSE to) /\ k = at + 1
    BY <1>1, <1>2 DEF InsertionPlace, Beside
  <2>2. k \in 1..n
    BY <2>1
  <2>3. Shifted(n, from, at)[k] = to
    BY <2>1, <2>2 DEF Shifted
  <2>4. QED
    BY <1>1, <2>2, <2>3
<1>3. CASE placement = "after"
  <2>1. at = (IF from < to THEN to - 1 ELSE to) + 1 /\ k = at - 1
    BY <1>1, <1>3 DEF InsertionPlace, Beside
  <2>2. k \in 1..n
    BY <2>1
  <2>3. Shifted(n, from, at)[k] = to
    BY <2>1, <2>2 DEF Shifted
  <2>4. QED
    BY <1>1, <2>2, <2>3
<1>4. QED
  BY <1>2, <1>3 DEF Placements

\* A drop with no target: the module goes last.
LEMMA DroppedLast ==
  ASSUME NEW list \in Seq(Modules), IsInjective(OrderOf(list)), NEW source
  PROVE  LET new == PushToEnd(list, source)
             at == PositionOf(new, source)
         IN /\ new \in Seq(Modules) /\ Len(new) = Len(list)
            /\ OrderOf(Without(new, source)) = OrderOf(Without(list, source))
            /\ at > 0 => at = Len(new)
<1>1. PICK n \in Nat : n = Len(list) /\ DOMAIN list = 1..n
  OBVIOUS
<1>2. PICK new : new = PushToEnd(list, source)
  OBVIOUS
<1>3. PICK from : from = PositionOf(list, source)
  OBVIOUS
<1>4. /\ new \in Seq(Modules) /\ Len(new) = n
      /\ from = 0 => new = list
      /\ from # 0 => from \in 1..n /\ \A k \in 1..n : new[k] = list[Shifted(n, from, n)[k]]
  <2>1. /\ new \in Seq(Modules) /\ Len(new) = Len(list)
        /\ from = 0 => new = list
        /\ from # 0 => /\ from \in 1..Len(list)
                       /\ \A k \in 1..Len(list) :
                            new[k] = list[Shifted(Len(list), from, Len(list))[k]]
    BY <1>2, <1>3, PushedIs
  <2>2. QED
    BY <1>1, <2>1
<1>5. CASE from = 0
  <2>1. new = list /\ PositionOf(new, source) = 0
    BY <1>3, <1>4, <1>5
  <2>2. ~(PositionOf(new, source) > 0)
    BY <2>1
  <2>3. QED
    BY <1>2, <2>1, <2>2
<1>6. CASE from # 0
  <2>1. from \in 1..n /\ n \in 1..n
    BY <1>4, <1>6
  <2>2. ShiftedIds(new, list, n, from, n)
    BY <1>4, <1>6 DEF ShiftedIds
  <2>3. list[from].id = source
    BY <1>1, <1>3, <1>6, PositionIs
  <2>4. Len(list) = n
    BY <1>1
  <2>5. /\ OrderOf(Without(new, source)) = OrderOf(Without(list, source))
        /\ PositionOf(new, source) = n
    <3>1. /\ n \in Nat /\ list \in Seq(Modules) /\ IsInjective(OrderOf(list))
          /\ new \in Seq(Modules) /\ Len(new) = n
      BY <1>4
    <3>2. QED
      BY ONLY <2>1, <2>2, <2>3, <2>4, <3>1, MovedOrder
  <2>6. QED
    BY <1>1, <1>2, <1>4, <2>5
<1>7. QED
  BY <1>5, <1>6

\* A list, and the one in which a module was dropped beside another.
LandsBeside(new, list, source, target, placement) ==
  /\ Len(new) = Len(list)
  /\ OrderOf(Without(new, source)) = OrderOf(Without(list, source))
  /\ source \in IdsOf(list) /\ target \in IdsOf(list) =>
       target = OrderOf(new)[Beside(PositionOf(new, source), placement)]
  /\ source \notin IdsOf(list) \/ target \notin IdsOf(list) => OrderOf(new) = OrderOf(list)

\* A drop with a target: the module goes beside it.
LEMMA DroppedBeside ==
  ASSUME NEW list \in Seq(Modules), IsInjective(OrderOf(list)), NEW source, NEW target,
         source # target, NEW placement \in Placements
  PROVE  LandsBeside(MoveToSharedRow(list, source, target, placement), list,
                     source, target, placement)
<1>1. PICK n \in Nat : n = Len(list) /\ DOMAIN list = 1..n
  OBVIOUS
<1>2. PICK from : from = PositionOf(list, source)
  OBVIOUS
<1>3. PICK to : to = PositionOf(list, target)
  OBVIOUS
<1>4. PICK at : at = InsertionPlace(from, to, placement)
  OBVIOUS
<1>5. PICK moved : moved = MoveModule(list, source, target, placement)
  OBVIOUS
<1>6. PICK new : new = MoveToSharedRow(list, source, target, placement)
  OBVIOUS
<1>7. /\ moved \in Seq(Modules) /\ Len(moved) = n
      /\ from = 0 \/ to = 0 => moved = list
      /\ from # 0 /\ to # 0 =>
           /\ from \in 1..n /\ to \in 1..n /\ at \in 1..n /\ from # to
           /\ \A k \in 1..n : moved[k] = list[Shifted(n, from, at)[k]]
  <2>1. /\ moved \in Seq(Modules) /\ Len(moved) = Len(list)
        /\ from = 0 \/ to = 0 => moved = list
        /\ from # 0 /\ to # 0 =>
             /\ from \in 1..Len(list) /\ to \in 1..Len(list) /\ at \in 1..Len(list)
             /\ from # to
             /\ \A k \in 1..Len(list) : moved[k] = list[Shifted(Len(list), from, at)[k]]
    BY <1>2, <1>3, <1>4, <1>5, ModuleMoved
  <2>2. QED
    BY <1>1, <2>1
<1>8. /\ new \in Seq(Modules) /\ DOMAIN new = 1..n /\ DOMAIN moved = 1..n
      /\ \A k \in 1..n : new[k].id = moved[k].id
  BY <1>1, <1>5, <1>6, SharedRowMoved
<1>9. Len(new) = n
  BY <1>8
<1>10. CASE from = 0 \/ to = 0
  <2>1. OrderOf(new) = OrderOf(list)
    BY <1>1, <1>7, <1>8, <1>10, SameOrder
  <2>2. OrderOf(Without(new, source)) = OrderOf(Without(list, source))
    BY <1>8, <2>1, SameOthers
  <2>3. source \notin IdsOf(list) \/ target \notin IdsOf(list)
    BY <1>1, <1>2, <1>3, <1>10, PositionIs
  <2>4. QED
    BY <1>1, <1>6, <1>9, <2>1, <2>2, <2>3 DEF LandsBeside
<1>11. CASE from # 0 /\ to # 0
  <2>1. from \in 1..n /\ to \in 1..n /\ at \in 1..n /\ from # to /\ Len(list) = n
    BY <1>1, <1>7, <1>11
  <2>2. ShiftedIds(new, list, n, from, at)
    BY <1>7, <1>8, <1>11 DEF ShiftedIds
  <2>3. source \in IdsOf(list) /\ target \in IdsOf(list)
    BY <1>1, <1>2, <1>3, <1>11, PositionIs
  <2>4. list[from].id = source /\ list[to].id = target
    BY <1>1, <1>2, <1>3, <2>3, PositionIs
  <2>5. /\ OrderOf(Without(new, source)) = OrderOf(Without(list, source))
        /\ PositionOf(new, source) = at
    <3>1. /\ n \in Nat /\ list \in Seq(Modules) /\ IsInjective(OrderOf(list))
          /\ new \in Seq(Modules) /\ Len(new) = n
      BY <1>8, <1>9
    <3>2. QED
      BY ONLY <2>1, <2>2, <2>4, <3>1, MovedOrder
  <2>6. PICK k : k = Beside(at, placement)
    OBVIOUS
  <2>7. k \in 1..n /\ Shifted(n, from, at)[k] = to
    BY <1>4, <2>1, <2>6, TargetPlace
  <2>8. OrderOf(new)[k] = target
    BY <1>8, <2>2, <2>4, <2>7 DEF OrderOf, ShiftedIds
  <2>9. source \in IdsOf(list) /\ target \in IdsOf(list)
    BY <2>3
  <2>10. QED
    BY <1>1, <1>6, <1>9, <2>3, <2>5, <2>6, <2>8 DEF LandsBeside
<1>12. QED
  BY <1>10, <1>11

LEMMA DropsBeside ==
  ASSUME GoodLists, NEW source, NEW target, DropsApart(source, target),
         target = None \/ target \in Targets
  PROVE  DropLandsBeside'
<1>1. /\ modules' = Dropped(modules, source, target)
      /\ lastDrop' = [source |-> source, target |-> target, from |-> modules]
      /\ target = None \/ target.id # source
  BY DropsAre DEF DropsApart
<1>2. modules \in Seq(Modules) /\ IsInjective(OrderOf(modules))
  BY DEF GoodLists, GoodList
<1>3. lastDrop'.source = source /\ lastDrop'.target = target /\ lastDrop'.from = modules
  BY <1>1
<1>4. CASE target = None
  <2>1. PICK new : new = PushToEnd(modules, source)
    OBVIOUS
  <2>2. /\ new \in Seq(Modules) /\ Len(new) = Len(modules)
        /\ OrderOf(Without(new, source)) = OrderOf(Without(modules, source))
        /\ PositionOf(new, source) > 0 => PositionOf(new, source) = Len(new)
    BY <1>2, <2>1, DroppedLast
  <2>3. modules' = new
    BY <1>1, <1>4, <2>1 DEF Dropped
  <2>4. QED
    BY <1>3, <1>4, <2>2, <2>3 DEF DropLandsBeside, DropKnown
<1>5. CASE target # None
  <2>1. PICK id : id = target.id
    OBVIOUS
  <2>2. PICK placement \in Placements : placement = target.placement
    BY <1>5 DEF Targets
  <2>3. id # source
    BY <1>1, <1>5, <2>1
  <2>4. PICK new : new = MoveToSharedRow(modules, source, id, placement)
    OBVIOUS
  <2>5. LandsBeside(new, modules, source, id, placement)
    BY <1>2, <2>3, <2>4, DroppedBeside
  <2>6. PICK at : at = PositionOf(new, source)
    OBVIOUS
  <2>7. modules' = new
    BY <1>1, <1>5, <2>1, <2>2, <2>4 DEF Dropped
  <2>8. DropKnown(lastDrop)' <=>
          lastDrop' # None /\ source \in IdsOf(modules) /\ id \in IdsOf(modules)
    BY <1>3, <1>5, <2>1 DEF DropKnown
  <2>9. QED
    BY <1>3, <1>5, <2>1, <2>2, <2>5, <2>6, <2>7, <2>8
    DEF DropLandsBeside, LandsBeside, Beside
<1>6. QED
  BY <1>4, <1>5

\* What a step has to do with drops.
LEMMA DropOrNot ==
  ASSUME WInv, [Next]_vars
  PROVE  \/ lastDrop' = None
         \/ UNCHANGED <<modules, lastDrop>>
         \/ \E source : \E target \in Targets \cup {None} : DropsApart(source, target)
<1>1. ASSUME \/ DropOnCanvas
             \/ \E id \in IdsOf(modules) \cup {0} : ForeignDrop(id)
             \/ \E id \in IdsOf(modules), placement \in Placements :
                  PointerUpOnModule(id, placement) \/ DropOnModule(id, placement)
      PROVE  \E source : \E target \in Targets \cup {None} : DropsApart(source, target)
  <2>1. dropTarget \in Targets \cup {None}
    BY DEF WInv, HookTypes
  <2>2. \A id \in IdsOf(modules), placement \in Placements :
          [id |-> id, placement |-> placement] \in Targets
    BY ModulesAreTyped DEF WInv
  <2>3. GInv
    BY DEF WInv
  <2>4. QED
    BY <1>1, <2>1, <2>2, <2>3, DropsAreApart
<1>2. CASE UNCHANGED vars \/ Save
  BY <1>2 DEF vars, Save, lists
<1>3. CASE Load \/ Reload \/ AddModule \/ ResetLayout \/ TransitionCommits \/ DragOverCanvas
  BY <1>3 DEF Load, Reload, AddModule, ResetLayout, TransitionCommits, DragOverCanvas
<1>4. CASE PointerUpElsewhere \/ PointerLost \/ DragEnd
           \/ \E columns \in PointerWidths : ResizeMove(columns)
  BY <1>4 DEF PointerUpElsewhere, PointerLost, DragEnd, ResizeMove
<1>5. ASSUME NEW id \in IdsOf(modules),
             \/ RemoveModule(id) \/ PointerDown(id) \/ DragStart(id)
             \/ \E direction \in Directions : ResizeStart(id, direction)
             \/ \E placement \in Placements :
                  PointerEnter(id, placement) \/ DragOverModule(id, placement)
      PROVE  lastDrop' = None
  BY <1>5 DEF RemoveModule, PointerDown, DragStart, ResizeStart, PointerEnter, DragOverModule
<1>6. ASSUME NEW id \in IdsOf(modules), OnModule(id)
      PROVE  \/ lastDrop' = None
             \/ \E source : \E target \in Targets \cup {None} : DropsApart(source, target)
  <2>1. CASE \E placement \in Placements :
               PointerUpOnModule(id, placement) \/ DropOnModule(id, placement)
    BY <1>1, <2>1
  <2>2. CASE ~ \E placement \in Placements :
               PointerUpOnModule(id, placement) \/ DropOnModule(id, placement)
    BY <1>5, <1>6, <2>2 DEF OnModule
  <2>3. QED
    BY <2>1, <2>2
<1>7. QED
  BY <1>1, <1>2, <1>3, <1>4, <1>6 DEF Next

\* A drop (moveModuleToSharedRow, moveModuleToEnd) leaves the dragged module directly
\* before or after its target, or last when there is none, and all others in
\* their order, in lists of any length; when either has gone nothing moves.
THEOREM DropsLandBeside == Spec => []DropLandsBeside
<1>1. Init => DropLandsBeside
  BY DEF Init, DropLandsBeside
<1>2. WInv /\ DropLandsBeside /\ [Next]_vars => DropLandsBeside'
  <2> SUFFICES ASSUME WInv, DropLandsBeside, [Next]_vars PROVE DropLandsBeside'
    OBVIOUS
  <2>1. CASE lastDrop' = None
    BY <2>1 DEF DropLandsBeside
  <2>2. CASE UNCHANGED <<modules, lastDrop>>
    BY <2>2 DEF DropLandsBeside, DropKnown
  <2>3. ASSUME NEW source, NEW target \in Targets \cup {None}, DropsApart(source, target)
        PROVE  DropLandsBeside'
    <3>1. GoodLists /\ (target = None \/ target \in Targets)
      BY DEF WInv
    <3>2. QED
      BY <2>3, <3>1, DropsBeside
  <2>4. QED
    BY <2>1, <2>2, <2>3, DropOrNot
<1>3. QED
  BY <1>1, <1>2, LayoutInvariant, PTL DEF Spec

-----------------------------------------------------------------------------
(* What a drop takes from the widths. *)

\* Moving a module changes none.
LEMMA MovedModules ==
  ASSUME NEW list \in Seq(Modules), IsInjective(OrderOf(list)), NEW source, NEW target,
         source # target, NEW placement
  PROVE  LET moved == MoveModule(list, source, target, placement)
         IN /\ moved \in Seq(Modules)
            /\ IsInjective(OrderOf(moved))
            /\ IdsOf(moved) = IdsOf(list)
            /\ \A id \in IdsOf(list) : ModuleOf(moved, id) = ModuleOf(list, id)
<1>1. PICK n \in Nat : n = Len(list) /\ DOMAIN list = 1..n
  OBVIOUS
<1>2. PICK from : from = PositionOf(list, source)
  OBVIOUS
<1>3. PICK to : to = PositionOf(list, target)
  OBVIOUS
<1>4. PICK at : at = InsertionPlace(from, to, placement)
  OBVIOUS
<1>5. PICK moved : moved = MoveModule(list, source, target, placement)
  OBVIOUS
<1>6. /\ moved \in Seq(Modules) /\ DOMAIN moved = 1..n
      /\ from = 0 \/ to = 0 => moved = list
      /\ from # 0 /\ to # 0 =>
           /\ from \in 1..n /\ at \in 1..n
           /\ \A k \in 1..n : moved[k] = list[Shifted(n, from, at)[k]]
  <2>1. /\ moved \in Seq(Modules) /\ Len(moved) = Len(list)
        /\ from = 0 \/ to = 0 => moved = list
        /\ from # 0 /\ to # 0 =>
             /\ from \in 1..Len(list) /\ at \in 1..Len(list)
             /\ \A k \in 1..Len(list) : moved[k] = list[Shifted(Len(list), from, at)[k]]
    BY <1>2, <1>3, <1>4, <1>5, ModuleMoved
  <2>2. DOMAIN moved = 1..Len(moved)
    BY <2>1
  <2>3. QED
    BY <1>1, <2>1, <2>2
<1>7. CASE from = 0 \/ to = 0
  BY <1>5, <1>6, <1>7
<1>8. CASE from # 0 /\ to # 0
  <2>1. PICK p : p = Shifted(n, from, at)
    OBVIOUS
  <2>2. from \in 1..n /\ at \in 1..n
    BY <1>6, <1>8
  <2>3. /\ p \in [1..n -> 1..n] /\ IsInjective(p)
        /\ \A i \in 1..n : \E k \in 1..n : p[k] = i
    <3>1. /\ Shifted(n, from, at) \in [1..n -> 1..n]
          /\ IsInjective(Shifted(n, from, at))
          /\ \A i \in 1..n : \E k \in 1..n : Shifted(n, from, at)[k] = i
      BY <2>2, ShiftedIs
    <3>2. QED
      BY <2>1, <3>1
  <2>4. \A k \in 1..n : moved[k] = list[p[k]]
    BY <1>6, <1>8, <2>1
  <2>5. Picks(p, moved, list)
    BY <1>1, <1>6, <2>3, <2>4 DEF Picks
  <2>6. IdsOf(moved) = IdsOf(list) /\ IsInjective(OrderOf(moved))
    <3>1. \A i \in DOMAIN list : \E k \in DOMAIN moved : p[k] = i
      BY <1>1, <1>6, <2>3
    <3>2. QED
      BY <2>5, <3>1, PickedIds
  <2>7. ASSUME NEW id \in IdsOf(list) PROVE ModuleOf(moved, id) = ModuleOf(list, id)
    <3>1. PICK i \in 1..n : list[i].id = id
      BY <1>1 DEF IdsOf
    <3>2. PICK k \in 1..n : p[k] = i
      BY <2>3
    <3>3. moved[k] = list[i]
      BY <2>4, <3>2
    <3>4. ModuleOf(list, id) = list[i]
      BY <1>1, <3>1, ModuleIs
    <3>5. ModuleOf(moved, id) = moved[k]
      <4>1. id \in IdsOf(moved) /\ k \in DOMAIN moved /\ moved[k].id = id
        BY <1>6, <2>6, <3>1, <3>3
      <4>2. QED
        BY <1>6, <2>6, <4>1, ModuleIs
    <3>6. QED
      BY <3>3, <3>4, <3>5
  <2>8. QED
    BY <1>5, <1>6, <2>6, <2>7
<1>9. QED
  BY <1>7, <1>8

\* The widths of the modules of a list before and after those of a row were
\* narrowed: "was" and "now" hold them in some order of the row's members.
RowWidths(list, new, members, was, now) ==
  /\ IdsOf(new) = IdsOf(list)
  /\ \A k \in DOMAIN members : /\ members[k] \in IdsOf(list)
                               /\ ModuleOf(list, members[k]).columns = was[k]
                               /\ ModuleOf(new, members[k]).columns = now[k]
  /\ \A id \in IdsOf(list) \ ToSet(members) :
       ModuleOf(new, id).columns = ModuleOf(list, id).columns

LEMMA DroppedWidths ==
  ASSUME NEW list \in Seq(Modules), IsInjective(OrderOf(list)),
         NEW source \in IdsOf(list), NEW target \in IdsOf(list), source # target, NEW placement
  PROVE  \E m \in Nat : \E members \in Seq(IdsOf(list)) : \E was \in [1..m -> Widths] :
           /\ Len(members) = m /\ IsInjective(members)
           /\ ToSet(members) = ToSet(RowIds(list, target)) \cup {source}
           /\ RowWidths(list, MoveToSharedRow(list, source, target, placement), members, was,
                        Distribute(was))
<1>1. PICK shared : shared = SharedIds(list, source, target, placement)
  OBVIOUS
<1>2. PICK moved : moved = MoveModule(list, source, target, placement)
  OBVIOUS
<1>3. PICK new : new = MoveToSharedRow(list, source, target, placement)
  OBVIOUS
<1>4. PICK members : members = Members(moved, shared)
  OBVIOUS
<1>5. PICK m : m = Len(members)
  OBVIOUS
<1>6. PICK was : was = ColumnsOf(moved, members)
  OBVIOUS
<1>7. PICK now : now = Distribute(was)
  OBVIOUS
<1>8. /\ moved \in Seq(Modules) /\ IsInjective(OrderOf(moved))
      /\ IdsOf(moved) = IdsOf(list)
      /\ \A id \in IdsOf(list) : ModuleOf(moved, id) = ModuleOf(list, id)
  BY <1>2, MovedModules
<1>9. /\ shared \in Seq(IdsOf(list)) /\ IsInjective(shared)
      /\ ToSet(shared) = ToSet(RowIds(list, target)) \cup {source}
      /\ new = Rebalance(moved, shared)
  <2>1. IdsOf(list) \cup {source} = IdsOf(list)
    OBVIOUS
  <2>2. /\ shared \in Seq(IdsOf(list) \cup {source})
        /\ shared # <<>> /\ IsInjective(shared)
        /\ ToSet(shared) = ToSet(RowIds(list, target)) \cup {source}
        /\ new = IF shared = <<>> THEN moved ELSE Rebalance(moved, shared)
    BY <1>1, <1>2, <1>3, SharedIdsAre
  <2>3. QED
    BY <2>1, <2>2
<1>10. ToSet(shared) \subseteq IdsOf(list)
  BY <1>9 DEF ToSet
<1>11. /\ members \in Seq(IdsOf(list)) /\ IsInjective(members)
       /\ ToSet(members) = ToSet(shared)
       /\ was \in [1..m -> Widths]
  <2>1. /\ members \in Seq(IdsOf(list))
        /\ ToSet(members) = ToSet(shared) \cap IdsOf(moved)
        /\ IsInjective(shared) => IsInjective(members)
        /\ ColumnsOf(moved, members) \in [1..Len(members) -> Widths]
    BY <1>4, <1>8, <1>9, MembersAre
  <2>2. QED
    BY <1>5, <1>6, <1>8, <1>9, <1>10, <2>1
<1>12. m \in Nat /\ DOMAIN members = 1..m
  BY <1>5, <1>11
<1>13. m > 1
  <2>1. source \in ToSet(members) /\ target \in ToSet(members)
    BY <1>9, <1>11, RowIdsAre
  <2>2. PICK i \in 1..m, j \in 1..m : members[i] = source /\ members[j] = target
    BY <1>12, <2>1 DEF ToSet
  <2>3. i # j
    BY <2>2
  <2>4. QED
    BY <1>12, <2>3
<1>14. /\ new \in Seq(Modules) /\ DOMAIN new = DOMAIN moved
       /\ \A i \in DOMAIN moved : new[i].id = moved[i].id
       /\ \A i \in DOMAIN moved :
            new[i].columns = IF moved[i].id \in ToSet(members)
                             THEN now[PlaceOf(members, moved[i].id)]
                             ELSE moved[i].columns
  <2>1. /\ new \in Seq(Modules) /\ DOMAIN new = DOMAIN moved
        /\ \A i \in DOMAIN moved : new[i].id = moved[i].id
        /\ Len(members) > 1 =>
             \A i \in DOMAIN moved :
               new[i].columns = IF moved[i].id \in ToSet(members)
                 THEN Distribute(ColumnsOf(moved, members))[PlaceOf(members, moved[i].id)]
                 ELSE moved[i].columns
    BY <1>4, <1>8, <1>9, RebalanceIs
  <2>2. QED
    BY <1>5, <1>6, <1>7, <1>13, <2>1
<1>15. OrderOf(new) = OrderOf(moved) /\ IdsOf(new) = IdsOf(list)
  BY <1>8, <1>14, SameOrder
<1>16. \A id \in IdsOf(list) : \E i \in DOMAIN moved :
         /\ moved[i].id = id
         /\ ModuleOf(new, id) = new[i] /\ ModuleOf(list, id) = moved[i]
  <2>1. ASSUME NEW id \in IdsOf(list)
        PROVE  \E i \in DOMAIN moved :
                 /\ moved[i].id = id
                 /\ ModuleOf(new, id) = new[i] /\ ModuleOf(list, id) = moved[i]
    <3>1. PICK i \in DOMAIN moved : moved[i].id = id
      BY <1>8 DEF IdsOf
    <3>2. ModuleOf(moved, id) = moved[i]
      BY <1>8, <3>1, ModuleIs
    <3>3. ModuleOf(new, id) = new[i]
      <4>1. i \in DOMAIN new /\ new[i].id = id /\ id \in IdsOf(new) /\ IsInjective(OrderOf(new))
        BY <1>8, <1>14, <1>15, <3>1
      <4>2. QED
        BY <1>14, <4>1, ModuleIs
    <3>4. QED
      BY <1>8, <3>1, <3>2, <3>3
  <2>2. QED
    BY <2>1
<1>17. ASSUME NEW k \in 1..m
       PROVE  /\ members[k] \in IdsOf(list)
              /\ ModuleOf(list, members[k]).columns = was[k]
              /\ ModuleOf(new, members[k]).columns = now[k]
  <2>1. members[k] \in IdsOf(list) /\ members[k] \in ToSet(members)
    BY <1>11, <1>12 DEF ToSet
  <2>2. was[k] = ModuleOf(moved, members[k]).columns
    BY <1>6, <1>12 DEF ColumnsOf
  <2>3. PlaceOf(members, members[k]) = k
    <3>1. /\ PlaceOf(members, members[k]) \in DOMAIN members
          /\ members[PlaceOf(members, members[k])] = members[k]
      BY <1>11, <2>1, FirstPlace
    <3>2. QED
      BY <1>11, <1>12, <3>1 DEF IsInjective
  <2>4. PICK i \in DOMAIN moved : /\ moved[i].id = members[k]
                                  /\ ModuleOf(new, members[k]) = new[i]
    BY <1>16, <2>1
  <2>5. new[i].columns = now[k]
    BY <1>14, <2>1, <2>3, <2>4
  <2>6. QED
    BY <1>8, <2>1, <2>2, <2>4, <2>5
<1>18. ASSUME NEW id \in IdsOf(list), id \notin ToSet(members)
       PROVE  ModuleOf(new, id).columns = ModuleOf(list, id).columns
  <2>1. PICK i \in DOMAIN moved : /\ moved[i].id = id
                                  /\ ModuleOf(new, id) = new[i] /\ ModuleOf(list, id) = moved[i]
    BY <1>16
  <2>2. QED
    BY <1>14, <1>18, <2>1
<1>19. RowWidths(list, new, members, was, now)
  BY <1>12, <1>15, <1>17, <1>18 DEF RowWidths
<1>20. QED
  BY <1>3, <1>5, <1>7, <1>9, <1>11, <1>12, <1>19

\* What DropNarrowsEvenly says of the list before a drop and the one after it.
NarrowsEvenly(list, new, row) ==
  LET Was(id) == ModuleOf(list, id).columns
      Is == [id \in IdsOf(new) |-> ModuleOf(new, id).columns]
  IN /\ Cardinality(row) <= 4 => SumFunctionOnSet(Is, row) <= GridColumns
     /\ \A id \in IdsOf(new) : Is[id] <= Was(id)
     /\ \A id \in IdsOf(new) : Is[id] < Was(id) =>
          /\ id \in row
          /\ SumFunctionOnSet(Is, row) >= GridColumns
          /\ \A other \in row : Is[other] <= Is[id] + 1

LEMMA RowIsNarrowed ==
  ASSUME NEW list \in Seq(Modules), NEW new, NEW m \in Nat, NEW members \in Seq(IdsOf(list)),
         Len(members) = m, IsInjective(members), NEW was \in [1..m -> Widths],
         RowWidths(list, new, members, was, Distribute(was))
  PROVE  NarrowsEvenly(list, new, ToSet(members))
<1>1. PICK row : row = ToSet(members)
  OBVIOUS
<1>2. PICK now : now = Distribute(was)
  OBVIOUS
<1>3. PICK is : is = [id \in IdsOf(new) |-> ModuleOf(new, id).columns]
  OBVIOUS
<1>4. DOMAIN members = 1..m
  OBVIOUS
<1>5. /\ IdsOf(new) = IdsOf(list)
      /\ \A k \in 1..m : /\ members[k] \in IdsOf(list)
                         /\ ModuleOf(list, members[k]).columns = was[k]
                         /\ is[members[k]] = now[k]
      /\ \A id \in IdsOf(list) \ row : is[id] = ModuleOf(list, id).columns
  BY <1>1, <1>2, <1>3, <1>4 DEF RowWidths
<1>6. PICK total \in Int : total = SumFunction(was)
  BY RowSum
<1>7. /\ now \in [1..m -> Widths]
      /\ total <= GridColumns => now = was
      /\ total > GridColumns => Narrowed(now, was, total - GridColumns)
  <2>1. /\ Distribute(was) \in [1..m -> Widths]
        /\ SumFunction(was) <= GridColumns => Distribute(was) = was
        /\ SumFunction(was) > GridColumns =>
             Narrowed(Distribute(was), was, SumFunction(was) - GridColumns)
    BY RowNarrowed
  <2>2. QED
    BY <1>2, <1>6, <2>1
<1>8. \A k \in 1..m : was[k] \in Int /\ now[k] \in Int
  <2>1. \A k \in 1..m : was[k] \in Widths /\ now[k] \in Widths
    BY <1>7
  <2>2. \A w \in Widths : w \in Int
    BY DEF Widths, MinColumns, GridColumns
  <2>3. QED
    BY <2>1, <2>2
<1>9. PICK left \in Int : left = SumFunction(now) /\ left = SumFunctionOnSet(now, 1..m)
  BY <1>7, RowSum
<1>10. members \in [1..m -> row] /\ \A x \in row : \E k \in 1..m : members[k] = x
  BY <1>1, <1>4 DEF ToSet
<1>11. SumFunctionOnSet(is, row) = left
  <2>1. \A k \in 1..m : now[k] \in Int /\ is[members[k]] = now[k]
    BY <1>5, <1>8
  <2>2. Lists(members, m, row, is, now)
    BY <1>10, <2>1 DEF Lists
  <2>3. SumFunctionOnSet(is, row) = SumFunctionOnSet(now, 1..m)
    BY <2>2, SumReindexed
  <2>4. QED
    BY <1>9, <2>3
<1>12. Cardinality(row) = m
  <2>1. members \in Bijection(1..m, row)
    BY <1>10 DEF Bijection, Injection, Surjection, IsInjective
  <2>2. ExistsBijection(1..m, row)
    BY <2>1 DEF ExistsBijection
  <2>3. IsFiniteSet(1..m) /\ Cardinality(1..m) = m
    BY FS_Interval
  <2>4. QED
    BY <2>2, <2>3, FS_Bijection
<1>13. m <= 4 => left <= GridColumns
  <2>1. CASE total <= GridColumns
    BY <1>6, <1>7, <1>9, <2>1
  <2>2. CASE total > GridColumns
    <3>1. \/ SumFunction(now) = SumFunction(was) - (total - GridColumns)
          \/ \A k \in 1..m : now[k] = MinColumns
      BY <1>7, <2>2 DEF Narrowed
    <3>2. CASE SumFunction(now) = SumFunction(was) - (total - GridColumns)
      <4>1. left = total - (total - GridColumns)
        BY <1>6, <1>9, <3>2
      <4>2. QED
        BY <4>1 DEF GridColumns
    <3>3. CASE \A k \in 1..m : now[k] = MinColumns
      <4>1. left = MinColumns * m
        BY <1>9, <3>3, SumOfLeast
      <4>2. QED
        BY <4>1 DEF MinColumns, GridColumns
    <3>4. QED
      BY <3>1, <3>2, <3>3
  <2>3. QED
    BY <2>1, <2>2 DEF GridColumns
<1>14. ASSUME NEW k \in 1..m
       PROVE  /\ now[k] <= was[k]
              /\ now[k] < was[k] => left >= GridColumns /\ \A j \in 1..m : now[j] <= now[k] + 1
  <2>1. CASE total <= GridColumns
    BY <1>7, <1>8, <2>1
  <2>2. CASE total > GridColumns
    <3>1. /\ now[k] <= was[k]
          /\ now[k] < was[k] => \A j \in 1..m : now[j] <= now[k] + 1
      BY <1>7, <2>2 DEF Narrowed
    <3>2. left >= total - (total - GridColumns)
      BY <1>6, <1>7, <1>9, <2>2 DEF Narrowed
    <3>3. left >= GridColumns
      BY <3>2 DEF GridColumns
    <3>4. QED
      BY <3>1, <3>3
  <2>3. QED
    BY <1>6, <2>1, <2>2 DEF GridColumns
<1>15. \A id \in IdsOf(list) : ModuleOf(list, id).columns \in Int
  <2>1. \A id \in IdsOf(list) : ModuleOf(list, id).columns \in Widths
    BY ModuleIs
  <2>2. QED
    BY <2>1 DEF Widths, MinColumns, GridColumns
<1>16. ASSUME NEW id \in IdsOf(list)
       PROVE  /\ is[id] <= ModuleOf(list, id).columns
              /\ is[id] < ModuleOf(list, id).columns =>
                   /\ id \in row
                   /\ left >= GridColumns
                   /\ \A other \in row : is[other] <= is[id] + 1
  <2>1. CASE id \in row
    <3>1. PICK k \in 1..m : members[k] = id
      BY <1>10, <2>1
    <3>2. is[id] = now[k] /\ ModuleOf(list, id).columns = was[k]
      BY <1>5, <3>1
    <3>3. \A other \in row : \E j \in 1..m : is[other] = now[j]
      BY <1>5, <1>10
    <3>4. QED
      BY <1>14, <2>1, <3>2, <3>3
  <2>2. CASE id \notin row
    <3>1. is[id] = ModuleOf(list, id).columns /\ ModuleOf(list, id).columns \in Int
      BY <1>5, <1>15, <2>2
    <3>2. QED
      BY <3>1
  <2>3. QED
    BY <2>1, <2>2
<1>17. Cardinality(row) <= 4 => SumFunctionOnSet(is, row) <= GridColumns
  BY <1>11, <1>12, <1>13
<1>18. QED
  BY <1>1, <1>3, <1>5, <1>11, <1>16, <1>17 DEF NarrowsEvenly

LEMMA DropsNarrow ==
  ASSUME GoodLists, NEW source, NEW target, DropsApart(source, target)
  PROVE  DropNarrowsEvenly'
<1>1. /\ modules' = Dropped(modules, source, target)
      /\ lastDrop' = [source |-> source, target |-> target, from |-> modules]
      /\ target = None \/ target.id # source
  BY DropsAre DEF DropsApart
<1>2. modules \in Seq(Modules) /\ IsInjective(OrderOf(modules))
  BY DEF GoodLists, GoodList
<1>3. lastDrop'.source = source /\ lastDrop'.target = target /\ lastDrop'.from = modules
  BY <1>1
<1>4. SUFFICES ASSUME DropKnown(lastDrop)' PROVE DropNarrowsEvenly'
  BY DEF DropNarrowsEvenly
<1>5. PICK id : id = target.id
  OBVIOUS
<1>6. PICK placement : placement = target.placement
  OBVIOUS
<1>7. target # None /\ source \in IdsOf(modules) /\ id \in IdsOf(modules) /\ source # id
  BY <1>1, <1>3, <1>4, <1>5 DEF DropKnown
<1>8. PICK new : new = MoveToSharedRow(modules, source, id, placement)
  OBVIOUS
<1>9. modules' = new
  BY <1>1, <1>5, <1>6, <1>7, <1>8 DEF Dropped
<1>10. PICK row : row = ToSet(RowIds(modules, id)) \cup {source}
  OBVIOUS
<1>11. NarrowsEvenly(modules, new, row)
  <2>1. \E m \in Nat : \E members \in Seq(IdsOf(modules)) : \E was \in [1..m -> Widths] :
          /\ Len(members) = m /\ IsInjective(members)
          /\ ToSet(members) = row
          /\ RowWidths(modules, new, members, was, Distribute(was))
    BY <1>2, <1>7, <1>8, <1>10, DroppedWidths
  <2>2. QED
    BY <1>2, <2>1, RowIsNarrowed
<1>12. SharedRow(lastDrop)' = row
  BY <1>3, <1>5, <1>10 DEF SharedRow
<1>13. QED
  BY <1>3, <1>9, <1>11, <1>12 DEF DropNarrowsEvenly, NarrowsEvenly

\* A drop beside a module (moveModuleToSharedRow with rebalanceRowModules) narrows the
\* row it joins until it fits the grid, or until every module has the least
\* width; it takes columns from the widest only, never widens a module and
\* touches no other row, in lists and rows of any length.
THEOREM DropsNarrowEvenly == Spec => []DropNarrowsEvenly
<1>1. Init => DropNarrowsEvenly
  BY DEF Init, DropNarrowsEvenly, DropKnown
<1>2. WInv /\ DropNarrowsEvenly /\ [Next]_vars => DropNarrowsEvenly'
  <2> SUFFICES ASSUME WInv, DropNarrowsEvenly, [Next]_vars PROVE DropNarrowsEvenly'
    OBVIOUS
  <2>1. CASE lastDrop' = None
    BY <2>1 DEF DropNarrowsEvenly, DropKnown
  <2>2. CASE UNCHANGED <<modules, lastDrop>>
    BY <2>2 DEF DropNarrowsEvenly, DropKnown, SharedRow
  <2>3. ASSUME NEW source, NEW target \in Targets \cup {None}, DropsApart(source, target)
        PROVE  DropNarrowsEvenly'
    <3>1. GoodLists
      BY DEF WInv
    <3>2. QED
      BY <2>3, <3>1, DropsNarrow
  <2>4. QED
    BY <2>1, <2>2, <2>3, DropOrNot
<1>3. QED
  BY <1>1, <1>2, LayoutInvariant, PTL DEF Spec

-----------------------------------------------------------------------------
(* What is on the page. *)

LEMMA ModulesFit ==
  ASSUME modules \in Seq(Modules) PROVE RowsFit
<1>1. PICK n \in Nat : DOMAIN modules = 1..n
  <2>1. DOMAIN modules = 1..Len(modules) /\ Len(modules) \in Nat
    OBVIOUS
  <2>2. QED
    BY <2>1
<1>2. PICK packed : packed = Pack(modules)
  OBVIOUS
<1>3. DOMAIN packed = 1..n
  BY <1>1, <1>2, PackIs
<1>4. ASSUME NEW i \in 1..n
      PROVE  /\ packed[i].columnStart >= 1 /\ EndOf(packed, i) <= GridColumns + 1
             /\ i > 1 =>
                  \/ /\ packed[i].rowIndex = packed[i - 1].rowIndex
                     /\ packed[i].columnStart = EndOf(packed, i - 1)
                  \/ /\ packed[i].rowIndex = packed[i - 1].rowIndex + 1
                     /\ packed[i].columnStart = 1
                     /\ SumFunctionOnSet(WidthsOf(modules),
                          {j \in 1..n : packed[j].rowIndex = packed[i - 1].rowIndex})
                        + modules[i].columns > GridColumns
  <2>1. /\ packed[i].columnStart >= 1 /\ EndOf(packed, i) <= GridColumns + 1
        /\ i > 1 =>
             \/ /\ packed[i].rowIndex = packed[i - 1].rowIndex
                /\ packed[i].columnStart = EndOf(packed, i - 1)
             \/ /\ packed[i].rowIndex = packed[i - 1].rowIndex + 1
                /\ packed[i].columnStart = 1
                /\ \E first \in Nat \ {0} :
                     /\ {j \in 1..n : packed[j].rowIndex = packed[i - 1].rowIndex}
                          = first..(i - 1)
                     /\ ColumnsBetween(modules, first, i - 1) + modules[i].columns > GridColumns
    BY <1>1, <1>2, PackedFits
  <2>2. PICK row : row = {j \in 1..n : packed[j].rowIndex = packed[i - 1].rowIndex}
    OBVIOUS
  <2>3. ASSUME NEW first \in Nat \ {0}, row = first..(i - 1),
               ColumnsBetween(modules, first, i - 1) + modules[i].columns > GridColumns
        PROVE  SumFunctionOnSet(WidthsOf(modules), row) + modules[i].columns > GridColumns
    BY <2>3 DEF ColumnsBetween
  <2>4. QED
    BY <2>1, <2>2, <2>3
<1>5. QED
  BY <1>2, <1>3, <1>4 DEF RowsFit, EndOf

\* Rows packed by packWorkspaceModules never overlap or stick out of the twelve
\* columns, keep the order of the list, and are left short only by a module that
\* would not have fitted, in lists of any length and after any sequence of steps.
THEOREM RowsAlwaysFit == Spec => []RowsFit
<1>1. WInv => RowsFit
  BY ModulesFit DEF WInv, GoodLists, GoodList
<1>2. QED
  BY <1>1, LayoutInvariant, PTL
=============================================================================
