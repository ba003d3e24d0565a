-------------------------- MODULE ElementDeletion --------------------------
(***************************************************************************)
(* The element tree of the server, the deletion of its elements and the    *)
(* calls of their event handlers: CElement, CElementDeleter, CElementGroup *)
(* and CMapEventManager, with the Lua functions that change the tree, and  *)
(* the stop of one resource, which deletes all it has created.             *)
(*                                                                         *)
(* Everything runs in the main thread, but onElementDestroy is called      *)
(* before the element is deleted, and its handlers may call any of these   *)
(* functions again: on the same element, its parent, its children, or on   *)
(* the handlers being called.  The stack of the program is a variable, the *)
(* innermost call first, and an action is what one call does between two   *)
(* handlers.  One element type "map" and one event are modelled, all       *)
(* handlers of one priority and propagated; what a handler does is any     *)
(* sequence of the modelled functions.                                     *)
(***************************************************************************)
EXTENDS Integers, Sequences, FiniteSets, SequencesExt, Subsequences

CONSTANTS
    Root,           \* m_pRootElement
    Resource,       \* the resource's m_pResourceElement,
    Dynamic,        \* its m_pResourceDynamicElementRoot,
    Map,            \* and the root of its map file,
    Item, SubItem,  \* with an element and that one's child
    Players,        \* elements scripts cannot destroy
    New,            \* elements that its script can create
    NoElement,
    Own,            \* handlers (CMapEvent) of the resource's own script,
    Foreign,        \* and of the script of another resource
    MaxCalls,       \* bound: the functions all scripts call
    MaxStack        \* bound: calls nested in one another

MapItems == {Map, Item, SubItem}
Elements == {Root, Resource, Dynamic} \cup MapItems \cup Players \cup New
Handlers == Own \cup Foreign
Protected == {Root, Resource, Dynamic, Map} \cup Players

ASSUME ElementDeletionType ==
    /\ IsFiniteSet(Elements) /\ NoElement \notin Elements
    /\ IsInjective(<<Root, Resource, Dynamic, Map, Item, SubItem>>)
    /\ Players \cap ({Root, Resource, Dynamic} \cup MapItems) = {}
    /\ New \cap ({Root, Resource, Dynamic} \cup MapItems \cup Players) = {}
    /\ Own \cap Foreign = {}
    /\ MaxCalls \in Nat /\ MaxStack \in Nat

VARIABLES
    children,       \* m_Children; m_pParent is the element whose list it is in
    status,         \* "deleting": m_bIsBeingDeleted; "freed": destructed
    list,           \* CElementDeleter::m_List
    groups,         \* m_elements of the map's group and of the default one
    events,         \* m_EventsMap of each element's event manager
    handler,        \* each CMapEvent; "trash": in m_TrashCan too
    iterating,      \* the elements whose m_bIteratingList is set
    vm,             \* the resource's virtual machine is open
    stack,
    calls,
    crashed         \* an invalid iterator was used

tree == <<children, status, list>>
managers == <<events, handler, iterating>>
vars == <<tree, managers, groups, vm, stack, calls, crashed>>

Alive(e) == status[e] = "alive"
GroupNames == {"map", "default"}

Init ==
    /\ children = [e \in Elements |->
         IF e = Root THEN <<Resource>> \o SetToSeq(Players)
         ELSE IF e = Resource THEN <<Dynamic, Map>>
         ELSE IF e = Map THEN <<Item>>
         ELSE IF e = Item THEN <<SubItem>>
         ELSE <<>>]
    /\ status = [e \in Elements |-> IF e \in New THEN "unused" ELSE "alive"]
    /\ list = <<>>
    /\ groups = [g \in GroupNames |-> IF g = "map" THEN <<Item, SubItem, Map>> ELSE <<>>]
    /\ \E h \in Own, k \in Foreign :
         /\ events = [e \in Elements |->
              IF e = Root THEN <<k>> ELSE IF e = SubItem THEN <<h>> ELSE <<>>]
         /\ handler = [x \in Handlers |-> IF x \in {h, k} THEN "added" ELSE "unused"]
    /\ iterating = {} /\ vm = TRUE
    /\ stack = <<>> /\ calls = 0 /\ crashed = FALSE

-----------------------------------------------------------------------------
(* The tree.                                                               *)

ParentIn(kids, e) ==
    LET ps == {p \in Elements : \E i \in DOMAIN kids[p] : kids[p][i] = e}
    IN IF ps = {} THEN NoElement ELSE CHOOSE p \in ps : TRUE
Parent(e) == ParentIn(children, e)

\* SetParentObject to an element.
Moved(kids, e, p) ==
    LET from == ParentIn(kids, e)
    IN IF from = p THEN kids
       ELSE LET out == IF from = NoElement THEN kids ELSE [kids EXCEPT ![from] = Without(@, {e})]
            IN [out EXCEPT ![p] = Append(@, e)]

\* Mutant: it leaves its parent before its children are moved there.
TakenOutFirst(kids, e) ==
    LET p == ParentIn(kids, e)
    IN IF p = NoElement THEN [kids EXCEPT ![e] = <<>>]
       ELSE [kids EXCEPT ![e] = <<>>, ![p] = Without(@, {e})]

\* ClearChildren, which moves the children up to the parent (out of the tree,
\* if there is none), and SetParentObject(nullptr).
TakenOut(kids, e) ==
    LET p == ParentIn(kids, e)
    IN IF p = NoElement THEN [kids EXCEPT ![e] = <<>>]
       ELSE [kids EXCEPT ![e] = <<>>, ![p] = Without(@ \o kids[e], {e})]

\* e and its ancestors.
Line[e \in Elements \cup {NoElement}] ==
    IF e = NoElement THEN {} ELSE {e} \cup Line[Parent(e)]
InTree(e) == Root \in Line[e]

-----------------------------------------------------------------------------
(* The stack.                                                              *)

Top == Head(stack)
Running(op) == stack # <<>> /\ Top.op = op /\ ~crashed
Idle == stack = <<>> /\ ~crashed

Become(f) == stack' = <<f>> \o Tail(stack)
Inside(f, g) == stack' = <<g, f>> \o Tail(stack)

\* CallEvent calls the handlers of the element and of its ancestors, and then
\* those of all below it.
ParentsFrame(of, at, called) == [op |-> "parents", of |-> of, at |-> at, called |-> called]
EventFrame(e) == ParentsFrame(e, e, FALSE)
DeleteFrame(e) == [op |-> "delete", el |-> e]

First(seq) == IF seq = <<>> THEN NoElement ELSE Head(seq)
Following(seq, x) ==
    LET i == CHOOSE i \in DOMAIN seq : seq[i] = x
    IN IF i = Len(seq) THEN NoElement ELSE seq[i + 1]

\* Return from the innermost call, to DestroyElement with the result r: it
\* goes back to the first of the children if the child was destroyed, and else
\* increments its iterator, which is invalid if the child has left the list.
ReturnWith(r, kids) ==
    LET below == Tail(stack)
        f == Head(below)
    IN IF below = <<>> \/ f.op # "destroy" THEN stack' = below /\ UNCHANGED crashed
       ELSE /\ crashed' = (~r /\ f.child \notin Range(kids[f.el]))
            /\ stack' = IF crashed' THEN stack
                        ELSE <<[f EXCEPT !.child = IF r THEN First(kids[f.el])
                                                   ELSE Following(kids[f.el], @)]>> \o Tail(below)

-----------------------------------------------------------------------------
(* Events.                                                                 *)

\* CMapEventManager::Call: a copy of the handlers, and whether this is the
\* outermost Call of the manager.
CallFrame(e) == [op |-> "call", at |-> e, rest |-> events[e], outer |-> e \notin iterating]
HasEvents(e) == events[e] # <<>>

\* CallParentEvent: the handlers of the element, and then the same of its parent,
\* which is read after they have returned.
CallParentEvent ==
    /\ Running("parents")
    /\ IF ~Top.called /\ HasEvents(Top.at)
       THEN /\ Inside(ParentsFrame(Top.of, Top.at, TRUE), CallFrame(Top.at))
            /\ iterating' = iterating \cup {Top.at}
       ELSE /\ Become(IF Parent(Top.at) = NoElement
                      THEN [op |-> "children", at |-> Top.of, todo |-> children[Top.of]]
                      ELSE ParentsFrame(Top.of, Parent(Top.at), FALSE))
            /\ UNCHANGED iterating
    /\ UNCHANGED <<tree, events, handler, groups, vm, calls, crashed>>

\* CallEventNoParent, after the element's own handlers: a snapshot of its
\* children.
ChildrenSnapshot ==
    /\ Running("snapshot")
    /\ Become([op |-> "children", at |-> Top.at, todo |-> children[Top.at]])
    /\ UNCHANGED <<tree, managers, groups, vm, calls, crashed>>

\* The next of them that is not being deleted and has anything to call, until
\* a handler has deleted the element itself.
CallChildEvent ==
    /\ Running("children")
    /\ LET next == {i \in DOMAIN Top.todo :
                      /\ Alive(Top.todo[i])
                      /\ HasEvents(Top.todo[i]) \/ children[Top.todo[i]] # <<>>}
       IN IF next = {} \/ ~Alive(Top.at)
          THEN stack' = Tail(stack) /\ UNCHANGED iterating
          ELSE \E i \in next :
                 /\ \A n \in next : i <= n
                 /\ LET e == Top.todo[i]
                        f == [Top EXCEPT !.todo = SubSeq(@, i + 1, Len(@))]
                        g == [op |-> "snapshot", at |-> e]
                    IN IF HasEvents(e)
                       THEN /\ stack' = <<CallFrame(e), g, f>> \o Tail(stack)
                            /\ iterating' = iterating \cup {e}
                       ELSE Inside(f, g) /\ UNCHANGED iterating
    /\ UNCHANGED <<tree, events, handler, groups, vm, calls, crashed>>

\* The next handler that is not being destroyed; a destroyed one is skipped.
CallHandler ==
    /\ Running("call") /\ Top.rest # <<>>
    /\ LET h == Head(Top.rest)
           f == [Top EXCEPT !.rest = Tail(@)]
       IN IF handler[h] = "added" THEN Inside(f, [op |-> "script", own |-> h \in Own])
          ELSE Become(f)
    /\ UNCHANGED <<tree, managers, groups, vm, calls, crashed>>

\* The end of Call: the outermost one empties the trash.
TakeOutTheTrash ==
    /\ Running("call") /\ Top.rest = <<>>
    /\ IF Top.outer
       THEN LET kept == Without(events[Top.at], {h \in Handlers : handler[h] = "trash"})
            IN /\ events' = [events EXCEPT ![Top.at] = kept]
               /\ handler' = [h \in Handlers |->
                    IF h \in Range(events[Top.at]) \ Range(kept) THEN "freed" ELSE handler[h]]
               /\ iterating' = iterating \ {Top.at}
       ELSE UNCHANGED managers
    /\ stack' = Tail(stack)
    /\ UNCHANGED <<tree, groups, vm, calls, crashed>>

\* Mutant: also while the manager calls its handlers.
DeletedNow(e, gone) ==
    /\ events' = [events EXCEPT ![e] = Without(@, gone)]
    /\ handler' = [h \in Handlers |-> IF h \in gone THEN "freed" ELSE handler[h]]

\* CMapEventManager::Delete of the handlers gone of e: freed at once, or put
\* into the trash while the manager calls its handlers.
DeletedHandlers(e, gone) ==
    IF e \in iterating
    THEN /\ handler' = [h \in Handlers |-> IF h \in gone THEN "trash" ELSE handler[h]]
         /\ UNCHANGED events
    ELSE /\ events' = [events EXCEPT ![e] = Without(@, gone)]
         /\ handler' = [h \in Handlers |-> IF h \in gone THEN "freed" ELSE handler[h]]

-----------------------------------------------------------------------------
(* What scripts do.                                                        *)

InScript == Running("script") /\ calls < MaxCalls /\ Len(stack) < MaxStack
Called == calls' = calls + 1
OwnScript == Top.own
ItsHandlers == IF OwnScript THEN Own ELSE Foreign

AddEventHandler(h, e) ==
    /\ InScript /\ h \in ItsHandlers /\ handler[h] = "unused" /\ Alive(e)
    /\ Called
    /\ handler' = [handler EXCEPT ![h] = "added"]
    /\ events' = [events EXCEPT ![e] = Append(@, h)]
    /\ UNCHANGED <<tree, iterating, groups, vm, stack, crashed>>

RemoveEventHandler(h, e) ==
    /\ InScript /\ h \in ItsHandlers /\ handler[h] = "added" /\ Alive(e)
    /\ h \in Range(events[e])
    /\ Called
    /\ DeletedHandlers(e, {h})
    /\ UNCHANGED <<tree, iterating, groups, vm, stack, crashed>>

\* setElementParent: the new parent is within a map (a player may be put back
\* under the root), and not the element nor below it.
SetElementParent(e, p) ==
    /\ InScript /\ Alive(e) /\ Alive(p)
    /\ Map \in Line[p] \/ (e \in Players /\ p = Root)
    /\ e \notin Line[p]
    /\ Called
    /\ children' = Moved(children, e, p)
    /\ UNCHANGED <<status, list, managers, groups, vm, stack, crashed>>

\* createElement: below the resource's dynamic root, and in its default group.
CreateElement(e) ==
    /\ InScript /\ OwnScript /\ status[e] = "unused"
    /\ Called
    /\ status' = [status EXCEPT ![e] = "alive"]
    /\ children' = [children EXCEPT ![Dynamic] = Append(@, e)]
    /\ groups' = [groups EXCEPT !["default"] = Append(@, e)]
    /\ UNCHANGED <<list, managers, vm, stack, crashed>>

DestroyElement(e) ==
    /\ InScript /\ Alive(e)
    /\ Called
    /\ stack' = <<[op |-> "destroy", el |-> e, child |-> First(children[e])]>> \o stack
    /\ UNCHANGED <<tree, managers, groups, vm, crashed>>

\* kickPlayer, banPlayer: CGame::QuitPlayer.
QuitPlayer(p) ==
    /\ InScript /\ Alive(p) /\ p \in Players
    /\ Called
    /\ stack' = <<EventFrame(p), DeleteFrame(p)>> \o stack
    /\ UNCHANGED <<tree, managers, groups, vm, crashed>>

ScriptReturns ==
    /\ Running("script")
    /\ stack' = Tail(stack)
    /\ UNCHANGED <<tree, managers, groups, vm, calls, crashed>>

\* A timer, a command, another event: a script runs, from the main loop.
ScriptStarts ==
    /\ Idle /\ calls < MaxCalls
    /\ \E own \in BOOLEAN : (own => vm) /\ stack' = <<[op |-> "script", own |-> own]>>
    /\ UNCHANGED <<tree, managers, groups, vm, calls, crashed>>

-----------------------------------------------------------------------------
(* Deletion.                                                               *)

IsBeingDeleted(e) == e \in Range(list)

\* CStaticFunctionDefinitions::DestroyElement on the next of the children.
DestroyChild ==
    /\ Running("destroy") /\ Top.child # NoElement
    /\ stack' = <<[op |-> "destroy", el |-> Top.child, child |-> First(children[Top.child])]>> \o stack
    /\ UNCHANGED <<tree, managers, groups, vm, calls, crashed>>

\* After the children: the element itself, or false.
DestroyItself ==
    /\ Running("destroy") /\ Top.child = NoElement
    /\ IF Alive(Top.el) /\ Top.el \notin Protected
       THEN stack' = <<EventFrame(Top.el), DeleteFrame(Top.el)>> \o Tail(stack) /\ UNCHANGED crashed
       ELSE ReturnWith(FALSE, children)
    /\ UNCHANGED <<tree, managers, groups, vm, calls>>

\* Mutant: whether it is being deleted already is not asked again.
DeleteAgain ==
    /\ Running("delete")
    /\ LET e == Top.el
       IN /\ list' = Append(list, e)
          /\ status' = [status EXCEPT ![e] = "deleting"]
          /\ children' = TakenOut(children, e)
    /\ ReturnWith(TRUE, children')
    /\ UNCHANGED <<managers, groups, vm, calls>>

\* Mutant: the element is marked before it would be added to the list.
DeleteMarkedFirst ==
    /\ Running("delete")
    /\ LET e == Top.el
       IN /\ status' = [status EXCEPT ![e] = "deleting"]
          /\ children' = TakenOut(children, e)
    /\ ReturnWith(TRUE, children')
    /\ UNCHANGED <<list, managers, groups, vm, calls>>

\* CElementDeleter::Delete, after the event.
Delete ==
    /\ Running("delete")
    /\ LET e == Top.el
       IN /\ list' = IF Alive(e) THEN Append(list, e) ELSE list
          /\ status' = [status EXCEPT ![e] = "deleting"]
          /\ children' = TakenOut(children, e)
    /\ ReturnWith(TRUE, children')
    /\ UNCHANGED <<managers, groups, vm, calls>>

\* DoDeleteAll, at the end of a pulse.
DoDeleteAll ==
    /\ Idle /\ list # <<>>
    /\ stack' = <<[op |-> "free", told |-> NoElement]>>
    /\ UNCHANGED <<tree, managers, groups, vm, calls, crashed>>

\* ~CElement: it takes itself out of its group and out of the list, and deletes
\* its event manager with the handlers.  Before that ~CPlayer calls the
\* handlers of onElementStopSync for what the player synced: a script may run.
Free ==
    /\ Running("free")
    /\ IF list = <<>>
       THEN stack' = Tail(stack) /\ UNCHANGED <<tree, events, handler, groups>>
       ELSE LET e == Head(list)
            IN /\ status' = [status EXCEPT ![e] = "freed"]
               /\ children' = TakenOut(children, e)
               /\ groups' = [g \in GroupNames |-> Without(groups[g], {e})]
               /\ handler' = [h \in Handlers |->
                    IF h \in Range(events[e]) THEN "freed" ELSE handler[h]]
               /\ events' = [events EXCEPT ![e] = <<>>]
               /\ list' = Without(list, {e})
               /\ UNCHANGED stack
    /\ UNCHANGED <<iterating, vm, calls, crashed>>

PlayerFreed ==
    /\ Running("free") /\ list # <<>> /\ Head(list) \in Players \ {Top.told}
    /\ \E own \in BOOLEAN :
         /\ own => vm
         /\ Inside([Top EXCEPT !.told = Head(list)], [op |-> "script", own |-> own])
    /\ UNCHANGED <<tree, managers, groups, vm, calls, crashed>>

-----------------------------------------------------------------------------
(* The stop of the resource.                                               *)

GroupFrame(g) == [op |-> "group", group |-> g, at |-> 1]

\* Mutant: the virtual machine is destroyed last.
StopVMLast ==
    /\ Idle /\ vm
    /\ stack' = <<GroupFrame("map"), GroupFrame("default"), [op |-> "tree", el |-> Dynamic],
                  [op |-> "tree", el |-> Resource], [op |-> "vm"]>>
    /\ UNCHANGED <<tree, managers, groups, vm, calls, crashed>>

\* CResource::Stop, from the part that deletes the elements on; a stop that a
\* script asks for waits for the end of the pulse.
Stop ==
    /\ Idle /\ vm
    /\ stack' = <<GroupFrame("map"), GroupFrame("default"), [op |-> "vm"]>>
    /\ UNCHANGED <<tree, managers, groups, vm, calls, crashed>>

\* ~CElementGroup: each of its elements, those added meanwhile included:
\* DeleteAllEvents and Delete.
DeleteGroup ==
    /\ Running("group")
    /\ LET g == Top.group
           i == Top.at
       IN IF i > Len(groups[g])
          THEN /\ groups' = [groups EXCEPT ![g] = <<>>]
               /\ stack' = Tail(stack)
               /\ UNCHANGED <<events, handler>>
          ELSE LET e == groups[g][i]
                   f == [Top EXCEPT !.at = i + 1]
                   live == {h \in Range(events[e]) : handler[h] = "added"}
               IN /\ events' = [events EXCEPT ![e] = Without(@, live)]
                  /\ handler' = [h \in Handlers |-> IF h \in live THEN "freed" ELSE handler[h]]
                  /\ IF IsBeingDeleted(e) THEN Become(f)
                     ELSE stack' = <<EventFrame(e), DeleteFrame(e), f>> \o Tail(stack)
                  /\ UNCHANGED groups
    /\ UNCHANGED <<tree, iterating, vm, calls, crashed>>

\* Mutant: only on the elements of the tree.
CleanedInTree == {e \in Elements : InTree(e)}

\* DestroyVM deletes the script's handlers from the elements of the tree
\* (DeleteEvents) and from those of the deletion list (CleanUpForVM).
Cleaned == {e \in Elements : InTree(e)} \cup Range(list)

\* DestroyVM, and the event of the state change, which other scripts handle.
DestroyVM ==
    /\ Running("vm")
    /\ vm' = FALSE
    /\ events' = [e \in Elements |->
         IF e \in Cleaned THEN Without(events[e], Own) ELSE events[e]]
    /\ handler' = [h \in Handlers |->
         IF h \in Own /\ \E e \in Cleaned : h \in Range(events[e]) THEN "freed" ELSE handler[h]]
    /\ stack' = <<[op |-> "script", own |-> FALSE], [op |-> "tree", el |-> Dynamic],
                  [op |-> "tree", el |-> Resource]>>
    /\ UNCHANGED <<tree, iterating, groups, calls, crashed>>

CollectFrame(path, all) == [op |-> "collect", path |-> path, all |-> all]
MarkFrame(all, todo, called) == [op |-> "mark", all |-> all, todo |-> todo, called |-> called]
At(e, n) == [el |-> e, at |-> n]

\* DeleteTree first collects the elements.
DeleteTree ==
    /\ Running("tree")
    /\ IF IsBeingDeleted(Top.el) THEN stack' = Tail(stack)
       ELSE Become(CollectFrame(<<At(Top.el, 1)>>, <<>>))
    /\ UNCHANGED <<tree, managers, groups, vm, calls, crashed>>

\* CollectTreeElements, from the innermost of its recursive calls on: an element
\* comes after all below it, and those being deleted are passed over with all below
\* them; a player is moved to the root, and the loop over its siblings begins again.
CollectTree ==
    /\ Running("collect")
    /\ LET e == Head(Top.path).el
           i == Head(Top.path).at
           path == Tail(Top.path)
           Continue(n) == CollectFrame(<<At(e, n)>> \o path, Top.all)
       IN IF i > Len(children[e])
          THEN LET all == Append(Top.all, e)
                   up == Head(path)
               IN /\ Become(IF path = <<>> THEN MarkFrame(all, all, FALSE)
                            ELSE CollectFrame(<<At(up.el, up.at + 1)>> \o Tail(path), all))
                  /\ UNCHANGED children
          ELSE LET c == children[e][i]
               IN IF c \in Players THEN Become(Continue(1)) /\ children' = Moved(children, c, Root)
                  ELSE /\ Become(IF IsBeingDeleted(c) THEN Continue(i + 1)
                                 ELSE CollectFrame(<<At(c, 1)>> \o Top.path, Top.all))
                       /\ UNCHANGED children
    /\ UNCHANGED <<status, list, managers, groups, vm, calls, crashed>>

\* Then it calls the event of each and marks it, unless a handler of an
\* earlier one has deleted it.
MarkTree ==
    /\ Running("mark") /\ Top.todo # <<>>
    /\ LET e == Head(Top.todo)
           next == MarkFrame(Top.all, Tail(Top.todo), FALSE)
       IN IF ~Top.called
          THEN /\ IF IsBeingDeleted(e) THEN Become(next)
                  ELSE Inside(MarkFrame(Top.all, Top.todo, TRUE), EventFrame(e))
               /\ UNCHANGED <<status, list>>
          ELSE /\ list' = IF Alive(e) THEN Append(list, e) ELSE list
               /\ status' = [status EXCEPT ![e] = "deleting"]
               /\ Become(next)
    /\ UNCHANGED <<children, managers, groups, vm, calls, crashed>>

\* Then it takes them out of the tree, one by one.
UnlinkTree ==
    /\ Running("mark") /\ Top.todo = <<>>
    /\ IF Top.all = <<>> THEN stack' = Tail(stack) /\ UNCHANGED children
       ELSE /\ children' = TakenOut(children, Head(Top.all))
            /\ Become(MarkFrame(Tail(Top.all), <<>>, FALSE))
    /\ UNCHANGED <<status, list, managers, groups, vm, calls, crashed>>

-----------------------------------------------------------------------------
Code ==
    \/ CallParentEvent \/ ChildrenSnapshot \/ CallChildEvent \/ CallHandler \/ TakeOutTheTrash
    \/ DestroyChild \/ DestroyItself \/ Delete \/ Free
    \/ DeleteGroup \/ DestroyVM \/ DeleteTree \/ CollectTree \/ MarkTree \/ UnlinkTree
    \/ ScriptReturns

Script ==
    \/ \E e \in Elements, h \in Handlers : AddEventHandler(h, e) \/ RemoveEventHandler(h, e)
    \/ \E e, p \in Elements : SetElementParent(e, p)
    \/ \E e \in Elements : DestroyElement(e)
    \/ \E e \in New : CreateElement(e)
    \/ \E p \in Players : QuitPlayer(p)

Next == Code \/ Script \/ ScriptStarts \/ PlayerFreed \/ Stop \/ DoDeleteAll

Spec == Init /\ [][Next]_vars

\* The code and its scripts run on, and every pulse of the server ends with
\* DoDeleteAll, whatever else ran in it.
FairSpec == Spec /\ WF_vars(Code) /\ SF_vars(DoDeleteAll)

-----------------------------------------------------------------------------
Statuses == {"unused", "alive", "deleting", "freed"}

\* Types; and no element is in the deletion list twice.
TypeOK ==
    /\ children \in [Elements -> Seq(Elements)]
    /\ status \in [Elements -> Statuses]
    /\ list \in Seq(Elements) /\ IsInjective(list)
    /\ Range(list) = {e \in Elements : status[e] = "deleting"}
    /\ groups \in [GroupNames -> Seq(Elements)]
    /\ events \in [Elements -> Seq(Handlers)]
    /\ handler \in [Handlers -> {"unused", "added", "trash", "freed"}]
    /\ iterating \subseteq Elements /\ vm \in BOOLEAN /\ calls \in 0..MaxCalls
    /\ crashed \in BOOLEAN

\* The elements that a DeleteTree has collected and not yet unlinked.
BeingUnlinked == UNION {Range(f.all) : f \in {g \in Range(stack) : g.op = "mark"}}

\* Whatever its handlers do, no deletion leaves an element behind outside the
\* tree, where no later DeleteEvents or DeleteTree would find it, and a deleted
\* element has neither a parent (the assertion of ~CElement) nor children.
TreeIntact ==
    \A e \in Elements :
        /\ Alive(e) => InTree(e)
        /\ status[e] \in {"deleting", "freed"} /\ e \notin BeingUnlinked =>
             Parent(e) = NoElement /\ children[e] = <<>>

\* No Call still has to call a handler that has been freed; a handler that was
\* removed while its manager called handlers is freed when that ends (the
\* assertions of ~CMapEventManager), and no manager keeps a freed one.
HandlersLive ==
    /\ \A f \in {g \in Range(stack) : g.op = "call"}, h \in Handlers :
         h \in Range(f.rest) => handler[h] # "freed"
    /\ \A e \in Elements, h \in Handlers :
         h \in Range(events[e]) =>
           /\ handler[h] \in {"added", "trash"}
           /\ handler[h] = "trash" => e \in iterating
    /\ iterating = {f.at : f \in {g \in Range(stack) : g.op = "call"}}

\* Once the resource's virtual machine is closed, none of its handlers is left
\* on any element, also not on those deleted while it still ran; and when Stop
\* has returned, nothing that it owned or created is alive, wherever scripts
\* had moved it and however late they created it.
StopLeavesNothing ==
    ~vm => /\ \A e \in Elements : Range(events[e]) \cap Own = {}
           /\ stack = <<>> => \A e \in Elements \ ({Root} \cup Players) : ~Alive(e)

\* Every deleted element is freed, and its id with it: the time comes when
\* none waits for it.
DeletedIsFreed ==
    (\E e \in Elements : status[e] = "deleting") ~>
        (crashed \/ \A e \in Elements : status[e] # "deleting")

\* No iterator is used after its element has left the list; the code does not
\* keep it (DestroyElement), and no run checks it.
IteratorsValid == ~crashed
=============================================================================
