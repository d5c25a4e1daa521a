------------------------------- MODULE Notify -------------------------------
(***************************************************************************)
(* The notification tree of mutt/notify.c: handlers (struct Notify) with a *)
(* parent pointer and a list of observer nodes.  send() walks the list of  *)
(* the source and then those of its ancestors; every observer it calls may *)
(* itself add and remove observers, re-parent handlers and send.  The C    *)
(* call stack is the variable stack: one frame for each send() in          *)
(* progress, the innermost one last.                                       *)
(***************************************************************************)
EXTENDS Lists, FiniteSets

CONSTANTS
    Handler,      \* struct Notify objects
    Callback,     \* (callback, global_data) pairs
    Type,         \* event types, NT_ALL excluded
    NT_ALL,       \* an observer of this type sees every event
    Node,         \* struct ObserverNode allocations
    Null,         \* the NULL pointer
    MaxDepth,     \* bound: nested sends
    Disciplined   \* callbacks keep to the contract below

ASSUME NotifyAssumption ==
    /\ NT_ALL \notin Type
    /\ Null \notin Handler \cup Node
    /\ MaxDepth \in Nat \ {0}
    /\ Disciplined \in BOOLEAN

VARIABLES
    parent,       \* notify->parent
    observers,    \* notify->observers, a list of nodes, head first
    nodeObs,      \* np->observer of each allocated node
    stack         \* activations of send()

vars == <<parent, observers, nodeObs, stack>>

Observer == [cb : Callback, type : Type \cup {NT_ALL}]

\* owed is history: the callbacks this level of the walk still has to call.
Frame == [current : Handler, np : Node \cup {Null}, running : BOOLEAN,
          event : Type, owed : SUBSET Callback]

Top == stack[Len(stack)]
SetTop(f) == stack' = [stack EXCEPT ![Len(stack)] = f]

\* Code outside send() runs when no send is in progress or in a callback.
UserCode == stack # <<>> => Top.running

Nodes(h) == {observers[h][i] : i \in DOMAIN observers[h]}
Live(h)  == {n \in Nodes(h) : nodeObs[n] # Null}
Free     == Node \ UNION {Nodes(h) : h \in Handler}

Ancestors(par, h) ==     \* h, its parent, and so on
    LET up[k \in 0 .. Cardinality(Handler)] ==
            IF k = 0 THEN {h}
            ELSE up[k-1] \cup ({par[x] : x \in up[k-1]} \ {Null})
    IN  up[Cardinality(Handler)]

\* Every value has its type; a frame below the top is inside a callback, and
\* a callback runs on behalf of a node.
TypeOK ==
    /\ parent \in [Handler -> Handler \cup {Null}]
    /\ observers \in [Handler -> Seq(Node)]
    /\ nodeObs \in [Node -> Observer \cup {Null}]
    /\ stack \in Seq(Frame)
    /\ \A i \in DOMAIN stack :
          stack[i].running => stack[i].np # Null
    /\ \A i \in 1 .. Len(stack) - 1 : stack[i].running

Init ==
    /\ parent \in {p \in [Handler -> Handler \cup {Null}] :
                      \A h \in Handler : \A a \in Ancestors(p, h) : p[a] # h}
    /\ observers = [h \in Handler |-> <<>>]
    /\ nodeObs = [n \in Node |-> Null]
    /\ stack = <<>>

-----------------------------------------------------------------------------
(* Walking a list *)

First(h) == IF observers[h] = <<>> THEN Null ELSE Head(observers[h])

\* STAILQ_NEXT(np) on h's list; a freed np is the undefined behaviour that
\* WalksAllocatedNodes excludes, and ends the walk here.
Following(h, np) ==
    LET after == {i \in DOMAIN observers[h] : i > 1 /\ observers[h][i-1] = np}
    IN  IF after = {} THEN Null ELSE observers[h][CHOOSE i \in after : TRUE]

Matches(obs, event) == obs.type \in {NT_ALL, event}

NewFrame(h, event) ==
    [current |-> h, np |-> First(h), running |-> FALSE, event |-> event,
     owed |-> {nodeObs[n].cb : n \in {m \in Live(h) : Matches(nodeObs[m], event)}}]

Standing(depth) == {stack[i].np : i \in 1 .. depth}

(***************************************************************************)
(* What the observers of the program have to respect: a callback that has  *)
(* removed its own observer sends nothing more, it removes no observer     *)
(* that an outer send() is calling, and it frees no handler being walked.  *)
(***************************************************************************)
MaySend      == Disciplined /\ stack # <<>> => nodeObs[Top.np] # Null
MayRemove(n) == Disciplined /\ stack # <<>> => n \notin Standing(Len(stack) - 1)
MayFree(h)   == \A i \in DOMAIN stack : stack[i].current # h

-----------------------------------------------------------------------------
(* send() *)

Send(h, event) ==        \* notify_send()
    /\ UserCode /\ MaySend
    /\ Len(stack) < MaxDepth
    /\ stack' = Append(stack, NewFrame(h, event))
    /\ UNCHANGED <<parent, observers, nodeObs>>

Calls(f) == nodeObs[f.np] # Null /\ Matches(nodeObs[f.np], f.event)

Skip ==                  \* a dead node, or an observer of another type
    /\ ~UserCode /\ Top.np # Null /\ ~Calls(Top)
    /\ SetTop([Top EXCEPT !.np = Following(Top.current, Top.np)])
    /\ UNCHANGED <<parent, observers, nodeObs>>

Call ==                  \* o->callback(&nc)
    /\ ~UserCode /\ Top.np # Null /\ Calls(Top)
    /\ SetTop([Top EXCEPT !.running = TRUE,
                          !.owed = @ \ {nodeObs[Top.np].cb}])
    /\ UNCHANGED <<parent, observers, nodeObs>>

Return ==                \* the callback returns; its result is only logged
    /\ stack # <<>> /\ Top.running
    /\ SetTop([Top EXCEPT !.running = FALSE,
                          !.np = Following(Top.current, Top.np)])
    /\ UNCHANGED <<parent, observers, nodeObs>>

Propagate ==             \* send() to current->parent, a tail call
    /\ ~UserCode /\ Top.np = Null /\ parent[Top.current] # Null
    /\ SetTop(NewFrame(parent[Top.current], Top.event))
    /\ UNCHANGED <<parent, observers, nodeObs>>

\* What is left of a list, in its order, when the dead nodes are freed.
Collected(list) == AtPlaces(list, {i \in DOMAIN list : nodeObs[list[i]] # Null})

CollectGarbage ==        \* at the root: free the dead nodes, return
    /\ ~UserCode /\ Top.np = Null /\ parent[Top.current] = Null
    /\ observers' = [observers EXCEPT ![Top.current] = Collected(@)]
    /\ stack' = SubSeq(stack, 1, Len(stack) - 1)
    /\ UNCHANGED <<parent, nodeObs>>

-----------------------------------------------------------------------------
(* The other functions of notify.c *)

\* Mutation: no search for the callback before it is added.
AnyNodesOf(h, cb) == {}

NodesOf(h, cb) == {n \in Live(h) : nodeObs[n].cb = cb}

\* Mutation: STAILQ_INSERT_TAIL().
InsertAtTail(h, n) == observers' = [observers EXCEPT ![h] = Append(@, n)]

Insert(h, n) == observers' = [observers EXCEPT ![h] = <<n>> \o @]

Add(h, cb, type) ==      \* notify_observer_add(); no effect when present
    /\ UserCode
    /\ NodesOf(h, cb) = {}
    /\ \E n \in Free :
          /\ Insert(h, n)
          /\ nodeObs' = [nodeObs EXCEPT ![n] = [cb |-> cb, type |-> type]]
    /\ UNCHANGED <<parent, stack>>

Forgive(h, cbs) ==       \* history: the walks of h owe cbs nothing any more
    [i \in DOMAIN stack |-> IF stack[i].current = h
                            THEN [stack[i] EXCEPT !.owed = @ \ cbs]
                            ELSE stack[i]]

\* Mutation: STAILQ_REMOVE() and free at once.
RemoveFreesNode(h, cb) ==
    /\ UserCode
    /\ \E n \in NodesOf(h, cb) :
          /\ MayRemove(n)
          /\ nodeObs' = [nodeObs EXCEPT ![n] = Null]
          /\ observers' = [observers EXCEPT ![h] =
                              SelectSeq(@, LAMBDA m : m # n)]
    /\ stack' = Forgive(h, {cb})
    /\ UNCHANGED parent

Remove(h, cb) ==         \* notify_observer_remove(); the node stays
    /\ UserCode
    /\ \E n \in NodesOf(h, cb) :
          /\ MayRemove(n)
          /\ nodeObs' = [nodeObs EXCEPT ![n] = Null]
    /\ stack' = Forgive(h, {cb})
    /\ UNCHANGED <<parent, observers>>

RemoveAll(h) ==          \* notify_free(), notify_observer_remove_all()
    /\ UserCode /\ MayFree(h)
    /\ observers[h] # <<>>
    /\ observers' = [observers EXCEPT ![h] = <<>>]
    /\ nodeObs' = [n \in Node |-> IF n \in Nodes(h) THEN Null ELSE nodeObs[n]]
    /\ UNCHANGED <<parent, stack>>

SetParent(h, p) ==       \* notify_set_parent(); the program builds trees
    /\ UserCode
    /\ p # Null => h \notin Ancestors(parent, p)
    /\ p # parent[h]
    /\ parent' = [parent EXCEPT ![h] = p]
    /\ UNCHANGED <<observers, nodeObs, stack>>

Next ==
    \/ \E h \in Handler, event \in Type : Send(h, event)
    \/ Skip \/ Call \/ Return \/ Propagate \/ CollectGarbage
    \/ \E h \in Handler, cb \in Callback, type \in Type \cup {NT_ALL} :
          Add(h, cb, type)
    \/ \E h \in Handler, cb \in Callback : Remove(h, cb)
    \/ \E h \in Handler : RemoveAll(h)
    \/ \E h \in Handler, p \in Handler \cup {Null} : SetParent(h, p)

Spec == Init /\ [][Next]_vars

-----------------------------------------------------------------------------
(* Properties *)

\* Adding the same (callback, data) again never registers it twice, and no
\* node is shared by two lists, whatever nested sends and garbage collection
\* do to the lists in between.
OneNodePerCallback ==
    /\ \A h \in Handler : \A m, n \in Live(h) : nodeObs[m].cb = nodeObs[n].cb => m = n
    /\ \A h, g \in Handler : h # g => Nodes(h) \cap Nodes(g) = {}
    /\ \A h \in Handler : Cardinality(Nodes(h)) = Len(observers[h])

\* send() never stands on a node that was freed: the garbage collection of a
\* nested send does not free what an outer walk will step from.
WalksAllocatedNodes ==
    \A i \in DOMAIN stack :
        stack[i].np # Null => stack[i].np \in Nodes(stack[i].current)

\* Every matching observer present when the walk of a list began, and not
\* removed since, has been called when the walk of that list ends.
EveryObserverCalled ==
    \A i \in DOMAIN stack : stack[i].np = Null => stack[i].owed = {}

\* A callback is called only if it was registered when the walk began and has
\* not been removed since, and it is called once: neither an observer added by
\* another callback, nor one removed and added again, is called by this walk.
OnlyOwedCalled ==
    [][Call => nodeObs[Top.np].cb \in Top.owed]_vars
=============================================================================
