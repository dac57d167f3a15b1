--------------------------- MODULE WorkspaceLayout ---------------------------
(***************************************************************************)
(* The workspace's modules on the page: useWorkspaceModules with the cards *)
(* of module-card.tsx that call it.  A user presses, drags (by pointer or  *)
(* by the browser's own drag and drop), resizes, removes, adds and resets; *)
(* the hook loads the layout once after the mount and saves it after every *)
(* change; the page may be reloaded at any time.                           *)
(*                                                                         *)
(* A resize updates the modules in a React transition: the update is       *)
(* queued, urgent updates overtake it on the page and it is rebased under  *)
(* them later.  So the list is kept twice, as shown (modules) and with     *)
(* every queued update applied (ahead); an urgent update changes both.     *)
(* Each ref of the hook is written together with the state of the same     *)
(* name, so one variable stands for both.                                  *)
(***************************************************************************)
EXTENDS WorkspaceGrid

CONSTANTS
  None,
  DefaultWidths,  \* the widths of initialModules, whose ids are 1, 2, ...
  StoredLayouts,  \* what the browser may hold before the first visit
  PointerWidths,  \* widths a resize may ask for, unclamped
  MaxGestures,    \* bound: presses, and drops from outside
  MaxEdits,       \* bound: modules added or removed, resets
  MaxReloads      \* bound: reloads of the page

ASSUME WidthsAssumption == DefaultWidths \in Seq(Widths)
ASSUME LayoutBoundsAssumption ==
  MaxGestures \in Nat /\ MaxEdits \in Nat /\ MaxReloads \in Nat
ASSUME StoredAssumption == StoredLayouts \subseteq Layouts
ASSUME PointerAssumption == PointerWidths \subseteq Int
ASSUME NoneAssumption ==
  None \notin Int \cup {"pointer", "native"} \cup Layouts \cup [id : Nat, placement : Placements]

VARIABLES
  modules,       \* modules as rendered
  ahead,         \* modules with the transitions still queued applied
  nextModuleId,
  loaded,        \* hasLoadedPersistedLayout
  dragging,      \* draggingId, dragSourceIdRef
  mode,          \* dragInteractionModeRef
  dropTarget,    \* dropTarget, dropTargetRef
  resizing,      \* resizingId, resizeSessionRef
  pointer,       \* the browser's pointer, and the header it was pressed on
  saveDue,       \* the save effect has yet to run
  stored,        \* localStorage
  kept,          \* history: the layout the user has in the browser
  lastDrop,      \* history: the drop just made and the list before it
  gestures, edits, reloads

lists == <<modules, ahead>>
drag == <<dragging, mode, dropTarget>>
storage == <<stored, kept>>
counts == <<gestures, edits, reloads>>
vars == <<modules, ahead, nextModuleId, loaded, dragging, mode, dropTarget, resizing,
          pointer, saveDue, stored, kept, lastDrop, gestures, edits, reloads>>

DefaultModules == [i \in DOMAIN DefaultWidths |-> [id |-> i, columns |-> DefaultWidths[i]]]
Up == [is |-> "up", on |-> None]

Restored(layout) == IF layout = None THEN Nothing ELSE Restore(layout)

Init ==
  /\ modules = DefaultModules
  /\ ahead = DefaultModules
  /\ nextModuleId = SmallestNextId(IdsOf(DefaultModules))
  /\ loaded = FALSE
  /\ dragging = None
  /\ mode = None
  /\ dropTarget = None
  /\ resizing = None
  /\ pointer = Up
  /\ saveDue = FALSE
  /\ lastDrop = None
  /\ stored \in StoredLayouts \cup {None}
  /\ kept = Restored(stored)
  /\ gestures = 0
  /\ edits = 0
  /\ reloads = 0

\* setModules with an update function, outside a transition.
Apply(Update(_)) ==
  /\ modules' = Update(modules)
  /\ ahead' = Update(ahead)
  /\ saveDue' = TRUE

\* Another module's card is the one under the pointer.
DraggingAnother(id) == dragging # None /\ dragging # id

ClearDrag ==
  /\ dragging' = None
  /\ mode' = None
  /\ dropTarget' = None

Gesture ==
  /\ loaded
  /\ gestures < MaxGestures
  /\ gestures' = gestures + 1
  /\ UNCHANGED <<edits, reloads>>

Edit ==
  /\ loaded
  /\ pointer.is \in {"up", "down"}
  /\ edits < MaxEdits
  /\ edits' = edits + 1
  /\ UNCHANGED <<gestures, reloads>>

-----------------------------------------------------------------------------
(* Loading and saving. *)

\* Fault: the save effect does not wait for the load.
SavesAtOnce == TRUE

MaySave == loaded

\* The effects of the mount, which React runs before it renders any later
\* update: the load, then the save, which still sees the first render.
Load ==
  /\ ~loaded
  /\ LET restored == Restored(stored)
         found == restored # Nothing
     IN /\ modules' = IF found THEN restored.modules ELSE modules
        /\ ahead' = IF found THEN restored.modules ELSE ahead
        /\ nextModuleId' = IF found THEN restored.nextModuleId ELSE nextModuleId
        /\ stored' = IF MaySave THEN Serialize(modules, nextModuleId)
                     ELSE IF found THEN stored ELSE None
  /\ loaded' = TRUE
  /\ saveDue' = TRUE
  /\ lastDrop' = None
  /\ UNCHANGED <<drag, resizing, pointer, kept, counts>>

\* The save effect; setItem may throw, which is ignored.
Save ==
  /\ saveDue
  /\ saveDue' = FALSE
  /\ \E succeeds \in BOOLEAN :
       IF succeeds /\ MaySave
       THEN /\ stored' = Serialize(modules, nextModuleId)
            /\ kept' = [modules |-> modules, nextModuleId |-> nextModuleId]
       ELSE UNCHANGED storage
  /\ UNCHANGED <<lists, nextModuleId, loaded, drag, resizing, pointer, lastDrop, counts>>

\* The page mounts again.
Reload ==
  /\ reloads < MaxReloads
  /\ reloads' = reloads + 1
  /\ modules' = DefaultModules
  /\ ahead' = DefaultModules
  /\ nextModuleId' = SmallestNextId(IdsOf(DefaultModules))
  /\ loaded' = FALSE
  /\ ClearDrag
  /\ resizing' = None
  /\ pointer' = Up
  /\ saveDue' = FALSE
  /\ lastDrop' = None
  /\ UNCHANGED <<storage, gestures, edits>>

-----------------------------------------------------------------------------
(* Adding, removing, resetting; by keyboard also while the pointer is down. *)

AddModule ==
  /\ Edit
  /\ Apply(LAMBDA list : Append(list, [id |-> nextModuleId, columns |-> CustomColumns]))
  /\ nextModuleId' = nextModuleId + 1
  /\ lastDrop' = None
  /\ UNCHANGED <<loaded, drag, resizing, pointer, storage>>

RemoveModule(id) ==
  /\ Edit
  /\ id \in IdsOf(modules)
  /\ Apply(LAMBDA list : Without(list, id))
  /\ lastDrop' = None
  /\ UNCHANGED <<nextModuleId, loaded, drag, resizing, pointer, storage>>

ResetLayout ==
  /\ Edit
  /\ Apply(LAMBDA list : DefaultModules)
  /\ nextModuleId' = SmallestNextId(IdsOf(DefaultModules))
  /\ ClearDrag
  /\ resizing' = None
  /\ lastDrop' = None
  /\ UNCHANGED <<loaded, pointer, storage>>

-----------------------------------------------------------------------------
(* Resizing. *)

\* handleResizeStart: the pointer goes down on one of a card's handles.
ResizeStart(id, direction) ==
  /\ Gesture
  /\ pointer = Up
  /\ id \in IdsOf(modules)
  /\ pointer' = [is |-> "down", on |-> None]
  /\ resizing' = [id |-> id, direction |-> direction,
                  startColumns |-> ModuleOf(modules, id).columns]
  /\ ClearDrag
  /\ lastDrop' = None
  /\ UNCHANGED <<lists, nextModuleId, loaded, saveDue, storage>>

\* The window's pointermove; the update is a transition.
ResizeMove(columns) ==
  /\ resizing # None
  /\ pointer.is \in {"up", "down"}
  /\ ahead' = SetColumns(ahead, resizing.id,
                IF resizing.direction = "south" THEN resizing.startColumns ELSE Clamp(columns))
  /\ lastDrop' = None
  /\ UNCHANGED <<modules, nextModuleId, loaded, drag, resizing, pointer, saveDue, storage,
                 counts>>

TransitionCommits ==
  /\ ahead # modules
  /\ modules' = ahead
  /\ saveDue' = TRUE
  /\ lastDrop' = None
  /\ UNCHANGED <<ahead, nextModuleId, loaded, drag, resizing, pointer, storage, counts>>

-----------------------------------------------------------------------------
(* Dragging. *)

\* handlePointerDownOnModule: a press on a card's header.
PointerDown(id) ==
  /\ Gesture
  /\ pointer = Up
  /\ id \in IdsOf(modules)
  /\ pointer' = [is |-> "down", on |-> id]
  /\ IF resizing # None THEN UNCHANGED drag
     ELSE mode' = "pointer" /\ dragging' = id /\ UNCHANGED dropTarget
  /\ lastDrop' = None
  /\ UNCHANGED <<lists, nextModuleId, loaded, resizing, saveDue, storage>>

\* handlePointerEnterModule: the pointer is over another card.
PointerEnter(target, placement) ==
  /\ pointer.is \in {"up", "down"}
  /\ target \in IdsOf(modules)
  /\ DraggingAnother(target)
  /\ mode = "pointer" /\ resizing = None
  /\ dropTarget' = [id |-> target, placement |-> placement]
  /\ lastDrop' = None
  /\ UNCHANGED <<lists, nextModuleId, loaded, dragging, mode, resizing, pointer, saveDue,
                 storage, counts>>

\* A drop beside a module, or at the end when no module is the target.
Drops(source, target) ==
  /\ Apply(LAMBDA list :
       IF target = None THEN PushToEnd(list, source)
       ELSE MoveToSharedRow(list, source, target.id, target.placement))
  /\ lastDrop' = [source |-> source, target |-> target, from |-> modules]
  /\ UNCHANGED <<nextModuleId, loaded, storage>>

\* handlePointerUpOnModule, after which the window's listener finds nothing.
PointerUpOnModule(target, placement) ==
  /\ pointer.is = "down"
  /\ target \in IdsOf(modules)
  /\ DraggingAnother(target)
  /\ mode = "pointer" /\ resizing = None
  /\ Drops(dragging, [id |-> target, placement |-> placement])
  /\ ClearDrag
  /\ pointer' = Up
  /\ UNCHANGED <<resizing, counts>>

\* Fault: the release ends a drag whatever started it.
ReleaseOfAnyDrag == dragging # None

ReleaseEnds == dragging # None /\ mode = "pointer"

Release == IF ReleaseEnds THEN ClearDrag ELSE UNCHANGED drag

\* The pointer comes up elsewhere: both window listeners hear it.
PointerUpElsewhere ==
  /\ pointer.is = "down"
  /\ pointer' = Up
  /\ resizing' = None
  /\ Release
  /\ lastDrop' = None
  /\ UNCHANGED <<lists, nextModuleId, loaded, saveDue, storage, counts>>

\* pointercancel, which also follows the start of the browser's own drag, or
\* the window's blur, under which the pointer may stay down: only a drag
\* listens to them.
PointerLost ==
  /\ pointer.is \in {"down", "native"}
  /\ pointer' \in IF pointer.is = "down" THEN {Up, pointer} ELSE {pointer}
  /\ Release
  /\ lastDrop' = None
  /\ UNCHANGED <<lists, nextModuleId, loaded, resizing, saveDue, storage, counts>>

\* handleDragStart: the press turns into the browser's drag and drop.  While
\* another card is resized the handler prevents it.
DragStart(id) ==
  /\ pointer = [is |-> "down", on |-> id]
  /\ id \in IdsOf(modules)
  /\ ~DraggingAnother(id)
  /\ resizing = None
  /\ mode' = "native"
  /\ dragging' = id
  /\ pointer' = [is |-> "native", on |-> id]
  /\ lastDrop' = None
  /\ UNCHANGED <<lists, nextModuleId, loaded, dropTarget, resizing, saveDue, storage, counts>>

\* handleDragOverModule.
DragOverModule(target, placement) ==
  /\ pointer.is = "native"
  /\ target \in IdsOf(modules)
  /\ DraggingAnother(target)
  /\ resizing = None
  /\ dropTarget' = [id |-> target, placement |-> placement]
  /\ lastDrop' = None
  /\ UNCHANGED <<lists, nextModuleId, loaded, dragging, mode, resizing, pointer, saveDue,
                 storage, counts>>

\* handleDragOverCanvas, between the cards.
DragOverCanvas ==
  /\ pointer.is = "native"
  /\ resizing = None
  /\ dropTarget' = None
  /\ lastDrop' = None
  /\ UNCHANGED <<lists, nextModuleId, loaded, dragging, mode, resizing, pointer, saveDue,
                 storage, counts>>

\* A drop clears the drag but leaves the mode to the dragend that follows.
NativeDropDone ==
  /\ dragging' = None
  /\ dropTarget' = None
  /\ pointer' = [pointer EXCEPT !.is = "dropped"]
  /\ UNCHANGED <<mode, resizing, counts>>

\* handleDropOnModule.
DropOnModule(target, placement) ==
  /\ pointer.is = "native"
  /\ target \in IdsOf(modules)
  /\ DraggingAnother(target)
  /\ resizing = None
  /\ Drops(dragging, [id |-> target, placement |-> placement])
  /\ NativeDropDone

\* handleDropOnCanvas, also for a drop on the dragged card itself.
DropOnCanvas ==
  /\ pointer.is = "native"
  /\ resizing = None
  /\ Drops(IF dragging # None THEN dragging ELSE pointer.on, dropTarget)
  /\ NativeDropDone

\* handleDropOnCanvas for something dragged in from outside, whose text may
\* be the id of a module, or 0 when it has none.
ForeignDrop(id) ==
  /\ Gesture
  /\ pointer = Up
  /\ resizing = None
  /\ id \in IdsOf(modules) \cup {0}
  /\ Drops(IF dragging # None THEN dragging ELSE id, dropTarget)
  /\ dragging' = None
  /\ dropTarget' = None
  /\ UNCHANGED <<mode, resizing, pointer>>

\* clearDragState: the browser's drag is over, with a drop or without.
DragEnd ==
  /\ pointer.is \in {"native", "dropped"}
  /\ pointer' = Up
  /\ ClearDrag
  /\ lastDrop' = None
  /\ UNCHANGED <<lists, nextModuleId, loaded, resizing, saveDue, storage, counts>>

-----------------------------------------------------------------------------
Directions == {"across", "south"}

OnModule(id) ==
  \/ RemoveModule(id)
  \/ PointerDown(id)
  \/ DragStart(id)
  \/ \E direction \in Directions : ResizeStart(id, direction)
  \/ \E placement \in Placements :
       \/ PointerEnter(id, placement)
       \/ PointerUpOnModule(id, placement)
       \/ DragOverModule(id, placement)
       \/ DropOnModule(id, placement)

Next ==
  \/ Load
  \/ Save
  \/ Reload
  \/ AddModule
  \/ ResetLayout
  \/ \E columns \in PointerWidths : ResizeMove(columns)
  \/ TransitionCommits
  \/ PointerUpElsewhere
  \/ PointerLost
  \/ DragOverCanvas
  \/ DropOnCanvas
  \/ DragEnd
  \/ \E id \in IdsOf(modules) \cup {0} : ForeignDrop(id)
  \/ \E id \in IdsOf(modules) : OnModule(id)

Spec == Init /\ [][Next]_vars
-----------------------------------------------------------------------------
Targets == [id : Nat \ {0}, placement : Placements]

\* The state of the hook; every width shown or about to be is one of the
\* grid's, whatever was stored, asked for or left by a drop.
TypeOK ==
  /\ modules \in Seq(Modules)
  /\ ahead \in Seq(Modules)
  /\ nextModuleId \in Nat \ {0}
  /\ loaded \in BOOLEAN
  /\ dragging \in Nat \/ dragging = None
  /\ mode \in {"pointer", "native", None}
  /\ dropTarget \in Targets \/ dropTarget = None
  /\ \/ resizing = None
     \/ resizing \in [id : Nat, direction : Directions, startColumns : Widths]
  /\ pointer \in [is : {"up", "down", "native", "dropped"}, on : Nat \cup {None}]
  /\ saveDue \in BOOLEAN

\* Two modules never have one id, on the page or in what a queued resize will
\* make of it, and the next id is above them all: through stored layouts of
\* every age, moves, removals, resets and additions.
IdsUnique ==
  /\ IsInjective(OrderOf(modules)) /\ IsInjective(OrderOf(ahead))
  /\ \A id \in IdsOf(modules) \cup IdsOf(ahead) : id < nextModuleId

\* A drag lives exactly as long as the press or the browser's drag behind it:
\* with the pointer up nothing is dragged and no card is marked as a target,
\* the browser's drag is known to the hook until it drops, the target is never
\* the dragged module itself, and nothing is dragged during a resize.
GestureFollowsPointer ==
  /\ pointer.is = "up" => dragging = None /\ mode = None
  /\ pointer.is = "down" => \/ dragging = None /\ mode = None
                            \/ dragging = pointer.on /\ mode = "pointer"
  /\ pointer.is = "native" => dragging = pointer.on /\ mode = "native"
  /\ pointer.is = "dropped" => dragging = None
  /\ dropTarget # None => dragging # None /\ dropTarget.id # dragging
  /\ resizing # None => dragging = None

\* The browser always holds the layout the user last had saved, or brought
\* along, in a form from which the next load restores it exactly: nothing the
\* page does between a mount and its load overwrites it.
StoredIsKept == kept # Nothing => Restored(stored) = kept

-----------------------------------------------------------------------------
(* What a drop does to the list. *)

\* The modules among which a drop beside a module has to share the row.
SharedRow(drop) ==
  ToSet(RowIds(drop.from, drop.target.id)) \cup {drop.source}

DropKnown(drop) ==
  /\ drop # None
  /\ drop.target # None
  /\ {drop.source, drop.target.id} \subseteq IdsOf(drop.from)

\* Packed rows never overlap or stick out of the grid, every module keeps the
\* order of the list, and a row is left short only by a module that would not
\* have fitted into it.
RowsFit ==
  LET packed == Pack(modules)
      End(i) == packed[i].columnStart + packed[i].columnSpan
  IN \A i \in DOMAIN packed :
       /\ packed[i].columnStart >= 1 /\ End(i) <= GridColumns + 1
       /\ i > 1 =>
            \/ /\ packed[i].rowIndex = packed[i - 1].rowIndex
               /\ packed[i].columnStart = End(i - 1)
            \/ /\ packed[i].rowIndex = packed[i - 1].rowIndex + 1
               /\ packed[i].columnStart = 1
               /\ SumFunctionOnSet(WidthsOf(modules),
                    {j \in DOMAIN packed : packed[j].rowIndex = packed[i - 1].rowIndex})
                  + modules[i].columns > GridColumns

\* A drop puts the dragged module directly before or after its target, or last
\* when there is none, and leaves all others in their order; when either has
\* gone in the meantime nothing moves.
DropLandsBeside ==
  lastDrop # None =>
    LET source == lastDrop.source
        order == OrderOf(modules)
        Others(list) == OrderOf(Without(list, source))
        at == PositionOf(modules, source)
    IN /\ Others(modules) = Others(lastDrop.from)
       /\ Len(modules) = Len(lastDrop.from)
       /\ DropKnown(lastDrop) =>
            lastDrop.target.id = order[IF lastDrop.target.placement = "before"
                                       THEN at + 1 ELSE at - 1]
       /\ lastDrop.target = None /\ at > 0 => at = Len(modules)
       /\ lastDrop.target # None /\ ~DropKnown(lastDrop) => order = OrderOf(lastDrop.from)

\* A drop beside a module makes the row fit the grid when four modules or
\* fewer share it, by taking columns from the widest only: no module grows,
\* none is narrowed to less than one column below another, and modules outside
\* the row keep their width.
DropNarrowsEvenly ==
  DropKnown(lastDrop) =>
    LET row == SharedRow(lastDrop)
        Was(id) == ModuleOf(lastDrop.from, id).columns
        Is == [id \in IdsOf(modules) |-> ModuleOf(modules, id).columns]
    IN /\ Cardinality(row) <= 4 => SumFunctionOnSet(Is, row) <= GridColumns
       /\ \A id \in IdsOf(modules) : Is[id] <= Was(id)
       /\ \A id \in IdsOf(modules) : Is[id] < Was(id) =>
            /\ id \in row
            /\ SumFunctionOnSet(Is, row) >= GridColumns
            /\ \A other \in row : Is[other] <= Is[id] + 1

\* A drop beside a module lands in that module's row, as the test "rebalances
\* the target row so a side drop actually lands in that row" says, where the
\* row can take it at all.
SideDropLandsInRow ==
  DropKnown(lastDrop) /\ Cardinality(SharedRow(lastDrop)) <= 4 =>
    lastDrop.source \in ToSet(RowIds(modules, lastDrop.target.id))
=============================================================================
