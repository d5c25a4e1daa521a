---------------------------- MODULE NotifyProofs ----------------------------
(***************************************************************************)
(* Proofs about the notification tree, for every number of handlers,       *)
(* callbacks and nodes and every depth of nested sends.                    *)
(*                                                                         *)
(* Two inductive invariants carry them.  ListInv says what the lists are:  *)
(* no node twice, no callback registered twice, no node in two lists.      *)
(* WalkInv says where the walks of send() stand: every one stands in the   *)
(* list it walks and its debt, the history variable owed, is exactly the   *)
(* callbacks of the live matching observers from that place on; a send()   *)
(* that is inside a callback with another send() above it stands on a live *)
(* node, so the garbage collection of the inner one keeps the place.       *)
(***************************************************************************)
EXTENDS Notify, ListsProofs

\* The places of a list that the walk f has still to come to.
Rest(list, f) ==
    {k \in DOMAIN list :
        \E j \in DOMAIN list : list[j] = f.np /\ IF f.running THEN j < k ELSE j <= k}

\* The callbacks of the observers there that are to hear of the event.
Owes(list, obs, f) ==
    {obs[list[k]].cb : k \in {l \in Rest(list, f) :
                                obs[list[l]] # Null /\ Matches(obs[list[l]], f.event)}}

\* No list holds a node twice.
NodesDistinct ==
    \A h \in Handler : \A i, j \in DOMAIN observers[h] :
        observers[h][i] = observers[h][j] => i = j

\* No callback is registered twice with a handler.
CallbacksDistinct ==
    \A h \in Handler : \A m, n \in Live(h) : nodeObs[m].cb = nodeObs[n].cb => m = n

\* No node is in two lists.
ListsDisjoint == \A h, g \in Handler : h # g => Nodes(h) \cap Nodes(g) = {}

ListInv == NodesDistinct /\ CallbacksDistinct /\ ListsDisjoint

\* A walk stands in the list it walks, and owes the rest of it a call.
Sound(list, obs, f) ==
    /\ f.np # Null => \E j \in DOMAIN list : list[j] = f.np
    /\ f.owed = Owes(list, obs, f)

WalksSound == \A i \in DOMAIN stack : Sound(observers[stack[i].current], nodeObs, stack[i])

\* A send() below another one stands on a live node.
OuterStandOnLive == \A i \in 1 .. Len(stack) - 1 : nodeObs[stack[i].np] # Null

WalkInv == WalksSound /\ OuterStandOnLive

\* The places of list that Collected() keeps, in their order.
Keeps(list, e, s, k) ==
    /\ s \in Seq(Node)
    /\ e \in [1 .. Len(s) -> 1 .. k]
    /\ \A m \in 1 .. Len(s) : s[m] = list[e[m]] /\ nodeObs[s[m]] # Null
    /\ \A l, m \in 1 .. Len(s) : l < m => e[l] < e[m]
    /\ \A i \in 1 .. k : nodeObs[list[i]] # Null => \E m \in 1 .. Len(s) : e[m] = i

\* What the garbage collection at the root of send() leaves of a list: its live
\* nodes, all of them, in their order.
LEMMA CollectedKeeps ==
    ASSUME NEW list \in Seq(Node)
    PROVE  \E e : Keeps(list, e, Collected(list), Len(list))
<1> DEFINE places == {i \in DOMAIN list : nodeObs[list[i]] # Null}
<1>1. Collected(list) = AtPlaces(list, places)
    BY DEF Collected
<1> DEFINE t == AtPlaces(list, places)
<1>2. t \in Seq(Node) /\ \E e : Picks(list, places, e, t, Len(list))
    BY AtPlacesPicks
<1>3. PICK e : Picks(list, places, e, t, Len(list))
    BY <1>2
<1>4. \A i \in 1 .. Len(list) : i \in places <=> nodeObs[list[i]] # Null
    OBVIOUS
<1> HIDE DEF t, places
<1>5. Keeps(list, e, t, Len(list))
    BY <1>2, <1>3, <1>4 DEF Picks, Keeps
<1>6. QED BY <1>1, <1>5 DEF t

-----------------------------------------------------------------------------
\* A send() starts the walk of a list in a well-typed frame.
LEMMA NewFrameType ==
    ASSUME TypeOK, NEW h \in Handler, NEW event \in Type
    PROVE  NewFrame(h, event) \in Frame
<1>1. First(h) \in Node \cup {Null}
    BY DEF TypeOK, First
<1>2. ASSUME NEW n \in Live(h) PROVE nodeObs[n].cb \in Callback
    BY <1>2 DEF TypeOK, Live, Nodes, Observer
<1>3. QED BY <1>1, <1>2 DEF NewFrame, Frame

\* STAILQ_NEXT() stays in the list, or ends the walk.
LEMMA FollowingType ==
    ASSUME TypeOK, NEW h \in Handler, NEW np
    PROVE  Following(h, np) \in Nodes(h) \cup {Null}
<1> DEFINE after == {i \in DOMAIN observers[h] : i > 1 /\ observers[h][i-1] = np}
<1>1. CASE after = {}
    BY <1>1 DEF Following
<1>2. CASE after # {}
    <2>1. (CHOOSE i \in after : TRUE) \in after
        BY <1>2
    <2> HIDE DEF after
    <2>2. Following(h, np) = observers[h][CHOOSE i \in after : TRUE]
        BY <1>2 DEF Following, after
    <2>3. QED BY <2>1, <2>2 DEF Nodes, after
<1>3. QED BY <1>1, <1>2

\* STAILQ_NEXT() yields a node or the NULL pointer.
LEMMA FollowingNode ==
    ASSUME TypeOK
    PROVE  \A h \in Handler : \A np : Following(h, np) \in Node \cup {Null}
BY FollowingType DEF Nodes, TypeOK

\* The innermost send() has a well-typed frame.
LEMMA TopType ==
    ASSUME TypeOK, stack # <<>>
    PROVE  Top \in Frame /\ Len(stack) \in DOMAIN stack
BY DEF TypeOK, Top

\* The assignments of send() to its own variables keep the frame well typed.
LEMMA FrameUpdate ==
    ASSUME NEW f \in Frame
    PROVE  /\ \A np \in Node \cup {Null} : [f EXCEPT !.np = np] \in Frame
           /\ \A np \in Node \cup {Null} : [f EXCEPT !.running = FALSE, !.np = np] \in Frame
           /\ \A cbs : [f EXCEPT !.running = TRUE, !.owed = @ \ cbs] \in Frame
           /\ \A cbs : [f EXCEPT !.owed = @ \ cbs] \in Frame
BY DEF Frame

\* Only the innermost send() moves, and the stack keeps its type.
LEMMA SetTopType ==
    ASSUME TypeOK, stack # <<>>, NEW f \in Frame, SetTop(f), f.running => f.np # Null
    PROVE  /\ stack' \in Seq(Frame) /\ Len(stack') = Len(stack)
           /\ \A i \in 1 .. Len(stack) - 1 : stack'[i] = stack[i]
           /\ stack'[Len(stack)] = f
           /\ \A i \in DOMAIN stack' : stack'[i].running => stack'[i].np # Null
           /\ \A i \in 1 .. Len(stack') - 1 : stack'[i].running
<1>1. stack' \in Seq(Frame) /\ Len(stack') = Len(stack)
    BY DEF TypeOK, SetTop
<1>2. /\ \A i \in 1 .. Len(stack) - 1 : stack'[i] = stack[i]
      /\ stack'[Len(stack)] = f
    BY DEF TypeOK, SetTop
<1>3. ASSUME NEW i \in 1 .. Len(stack')
      PROVE  (stack'[i].running => stack'[i].np # Null) /\ (i < Len(stack') => stack'[i].running)
    <2>1. CASE i = Len(stack)
        BY <1>1, <1>2, <2>1 DEF TypeOK
    <2>2. CASE i # Len(stack)
        BY <1>1, <1>2, <2>2 DEF TypeOK
    <2>3. QED BY <2>1, <2>2
<1>4. QED BY <1>1, <1>2, <1>3

\* Removing an observer changes nothing of a walk but its debt.
LEMMA ForgiveType ==
    ASSUME TypeOK, NEW h \in Handler, NEW cbs, stack' = Forgive(h, cbs)
    PROVE  /\ stack' \in Seq(Frame) /\ Len(stack') = Len(stack)
           /\ \A i \in DOMAIN stack : stack[i].running => stack'[i].running
           /\ \A i \in DOMAIN stack' : stack'[i].running => stack'[i].np # Null
           /\ \A i \in DOMAIN stack :
                 /\ stack'[i].current = stack[i].current /\ stack'[i].np = stack[i].np
                 /\ stack'[i].event = stack[i].event
                 /\ stack'[i].owed = IF stack[i].current = h THEN stack[i].owed \ cbs
                                     ELSE stack[i].owed
<1>1. \A i \in DOMAIN stack : stack[i] \in Frame
    BY DEF TypeOK
<1>2. \A i \in DOMAIN stack : [stack[i] EXCEPT !.owed = @ \ cbs] \in Frame
    BY <1>1, FrameUpdate
<1>3. \A i \in DOMAIN stack : stack'[i] \in Frame
    BY <1>1, <1>2 DEF Forgive
<1>4. stack' = [i \in 1 .. Len(stack) |-> stack'[i]] /\ Len(stack) \in Nat /\ DOMAIN stack = 1 .. Len(stack)
    BY DEF Forgive, TypeOK
<1>5. stack' \in Seq(Frame) /\ Len(stack') = Len(stack) /\ DOMAIN stack' = DOMAIN stack
    BY <1>3, <1>4
<1>6. ASSUME NEW i \in DOMAIN stack
      PROVE  /\ stack[i].running => stack'[i].running
             /\ stack'[i].running => stack'[i].np # Null
             /\ stack'[i].current = stack[i].current /\ stack'[i].np = stack[i].np
             /\ stack'[i].event = stack[i].event
             /\ stack'[i].owed = IF stack[i].current = h THEN stack[i].owed \ cbs
                                 ELSE stack[i].owed
    <2>1. stack'[i] = IF stack[i].current = h THEN [stack[i] EXCEPT !.owed = @ \ cbs] ELSE stack[i]
        BY DEF Forgive
    <2>2. stack[i] \in Frame /\ (stack[i].running => stack[i].np # Null)
        BY <1>1 DEF TypeOK
    <2>3. QED BY <2>1, <2>2 DEF Frame
<1>7. QED BY <1>5, <1>6

\* The garbage collection leaves a list of nodes.
LEMMA CollectedType ==
    ASSUME TypeOK, NEW h \in Handler
    PROVE  Collected(observers[h]) \in Seq(Node)
BY CollectedKeeps DEF TypeOK, Keeps

\* Every value keeps its type; only the innermost send() is outside a callback.
LEMMA Typing == Spec => []TypeOK
<1>1. Init => TypeOK
    BY DEF Init, TypeOK
<1>2. TypeOK /\ [Next]_vars => TypeOK'
    <2> SUFFICES ASSUME TypeOK, [Next]_vars PROVE TypeOK'
        OBVIOUS
    <2>1. ASSUME NEW h \in Handler, NEW event \in Type, Send(h, event) PROVE TypeOK'
        <3>1. NewFrame(h, event) \in Frame /\ ~NewFrame(h, event).running
            BY NewFrameType DEF NewFrame
        <3>2. stack' = Append(stack, NewFrame(h, event))
            BY <2>1 DEF Send
        <3>3. stack' \in Seq(Frame)
            BY <3>1, <3>2 DEF TypeOK
        <3>4. \A i \in DOMAIN stack' : stack'[i].running => stack'[i].np # Null
            BY <3>1, <3>2 DEF TypeOK
        <3>5. \A i \in 1 .. Len(stack') - 1 : stack'[i].running
            BY <3>2, <2>1 DEF TypeOK, Send, UserCode, Top
        <3>6. QED BY <2>1, <3>3, <3>4, <3>5 DEF Send, TypeOK
    <2>2. CASE Skip
        <3> DEFINE f == [Top EXCEPT !.np = Following(Top.current, Top.np)]
        <3>1. stack # <<>> /\ ~Top.running /\ SetTop(f)
            BY <2>2 DEF Skip, UserCode
        <3>2. f \in Frame /\ ~f.running
            BY <3>1, TopType, FollowingNode, FrameUpdate DEF Frame
        <3>3. QED BY <2>2, <3>1, <3>2, SetTopType DEF Skip, TypeOK
    <2>3. CASE Call
        <3> DEFINE f == [Top EXCEPT !.running = TRUE, !.owed = @ \ {nodeObs[Top.np].cb}]
        <3>1. stack # <<>> /\ Top.np # Null /\ SetTop(f)
            BY <2>3 DEF Call, UserCode
        <3>2. f \in Frame /\ f.np # Null
            BY <3>1, TopType, FrameUpdate DEF Frame
        <3>3. QED BY <2>3, <3>1, <3>2, SetTopType DEF Call, TypeOK
    <2>4. CASE Return
        <3> DEFINE f == [Top EXCEPT !.running = FALSE, !.np = Following(Top.current, Top.np)]
        <3>1. stack # <<>> /\ SetTop(f)
            BY <2>4 DEF Return
        <3>2. f \in Frame /\ ~f.running
            BY <3>1, TopType, FollowingNode, FrameUpdate DEF Frame
        <3>3. QED BY <2>4, <3>1, <3>2, SetTopType DEF Return, TypeOK
    <2>5. CASE Propagate
        <3> DEFINE f == NewFrame(parent[Top.current], Top.event)
        <3>1. stack # <<>> /\ SetTop(f) /\ parent[Top.current] # Null
            BY <2>5 DEF Propagate, UserCode
        <3>2. f \in Frame /\ ~f.running
            BY <3>1, TopType, NewFrameType DEF Frame, TypeOK, NewFrame
        <3>3. QED BY <2>5, <3>1, <3>2, SetTopType DEF Propagate, TypeOK
    <2>6. CASE CollectGarbage
        <3>1. stack # <<>> /\ Top.current \in Handler
            BY <2>6, TopType DEF CollectGarbage, UserCode, Frame
        <3>2. observers' \in [Handler -> Seq(Node)]
            BY <2>6, <3>1, CollectedType DEF CollectGarbage, TypeOK
        <3>3. stack' \in Seq(Frame) /\ Len(stack') = Len(stack) - 1
              /\ \A i \in DOMAIN stack' : stack'[i] = stack[i]
            <4>1. stack' = SubSeq(stack, 1, Len(stack) - 1) /\ stack \in Seq(Frame)
                BY <2>6 DEF CollectGarbage, TypeOK
            <4>2. QED BY <3>1, <4>1, ButLast
        <3>4. QED BY <2>6, <3>2, <3>3 DEF CollectGarbage, TypeOK
    <2>7. ASSUME NEW h \in Handler, NEW cb \in Callback, NEW type \in Type \cup {NT_ALL},
                 Add(h, cb, type)
          PROVE  TypeOK'
        BY <2>7 DEF Add, Insert, Free, TypeOK, Observer
    <2>8. ASSUME NEW h \in Handler, NEW cb \in Callback, Remove(h, cb) PROVE TypeOK'
        <3>1. nodeObs' \in [Node -> Observer \cup {Null}]
            BY <2>8 DEF Remove, TypeOK
        <3>2. stack' = Forgive(h, {cb}) /\ UNCHANGED <<parent, observers>>
            BY <2>8 DEF Remove
        <3>3. /\ stack' \in Seq(Frame) /\ Len(stack') = Len(stack)
              /\ \A i \in DOMAIN stack : stack[i].running => stack'[i].running
              /\ \A i \in DOMAIN stack' : stack'[i].running => stack'[i].np # Null
            BY <3>2, ForgiveType
        <3>4. \A i \in 1 .. Len(stack') - 1 : stack'[i].running
            BY <3>3 DEF TypeOK
        <3>5. QED BY <3>1, <3>2, <3>3, <3>4 DEF TypeOK
    <2>9. ASSUME NEW h \in Handler, RemoveAll(h) PROVE TypeOK'
        BY <2>9 DEF RemoveAll, TypeOK
    <2>10. ASSUME NEW h \in Handler, NEW p \in Handler \cup {Null}, SetParent(h, p) PROVE TypeOK'
        BY <2>10 DEF SetParent, TypeOK
    <2>11. CASE UNCHANGED vars
        BY <2>11 DEF vars, TypeOK
    <2>12. QED
        BY <2>1, <2>2, <2>3, <2>4, <2>5, <2>6, <2>7, <2>8, <2>9, <2>10, <2>11 DEF Next
<1>3. QED BY <1>1, <1>2, PTL DEF Spec

-----------------------------------------------------------------------------
\* The garbage collection of the returning send() rewrites one list.
LEMMA GarbageCollected ==
    ASSUME TypeOK, CollectGarbage
    PROVE  \E c \in Handler :
              /\ stack # <<>> /\ c = Top.current /\ nodeObs' = nodeObs
              /\ observers' = [observers EXCEPT ![c] = observers'[c]]
              /\ \E e : Keeps(observers[c], e, observers'[c], Len(observers[c]))
<1>1. stack # <<>> /\ Top.current \in Handler
    BY TopType DEF CollectGarbage, UserCode, Frame
<1>2. observers' = [observers EXCEPT ![Top.current] = Collected(observers[Top.current])]
    BY DEF CollectGarbage
<1>3. observers[Top.current] \in Seq(Node) /\ observers'[Top.current] = Collected(observers[Top.current])
    BY <1>1, <1>2 DEF TypeOK
<1>4. \E e : Keeps(observers[Top.current], e, observers'[Top.current], Len(observers[Top.current]))
    BY <1>3, CollectedKeeps
<1>5. QED BY <1>1, <1>2, <1>3, <1>4 DEF CollectGarbage

\* The garbage collection adds nothing to a list and repeats nothing.
LEMMA CollectGarbageLists ==
    ASSUME TypeOK, ListInv, CollectGarbage
    PROVE  ListInv'
<1>1. PICK c \in Handler :
         /\ nodeObs' = nodeObs
         /\ \A h \in Handler : h # c => observers'[h] = observers[h]
         /\ \E e : Keeps(observers[c], e, observers'[c], Len(observers[c]))
    BY GarbageCollected DEF TypeOK
<1>2. PICK e : Keeps(observers[c], e, observers'[c], Len(observers[c]))
    BY <1>1
<1>3. /\ observers'[c] \in Seq(Node) /\ observers[c] \in Seq(Node)
      /\ \A i \in DOMAIN observers'[c] :
            e[i] \in DOMAIN observers[c] /\ observers'[c][i] = observers[c][e[i]]
      /\ \A i, j \in DOMAIN observers'[c] : i # j => e[i] # e[j]
    <2>1. observers[c] \in Seq(Node)
        BY <1>1 DEF TypeOK
    <2>2. DOMAIN observers'[c] = 1 .. Len(observers'[c]) /\ DOMAIN observers[c] = 1 .. Len(observers[c])
        BY <1>2, <2>1 DEF Keeps
    <2>3. \A i \in 1 .. Len(observers'[c]) : e[i] \in 1 .. Len(observers[c])
        BY <1>2 DEF Keeps
    <2>4. ASSUME NEW i \in 1 .. Len(observers'[c]), NEW j \in 1 .. Len(observers'[c]), i # j
          PROVE  e[i] # e[j]
        <3>1. i < j \/ j < i
            BY <2>4
        <3>2. e[i] \in Int /\ e[j] \in Int
            BY <2>3
        <3>3. QED BY <1>2, <2>4, <3>1, <3>2 DEF Keeps
    <2>5. QED BY <1>2, <2>1, <2>2, <2>3, <2>4 DEF Keeps
<1>4. Nodes(c)' \subseteq Nodes(c)
    BY <1>3 DEF Nodes
<1>5. \A h \in Handler : Nodes(h)' \subseteq Nodes(h)
    BY <1>1, <1>4 DEF Nodes
<1>6. NodesDistinct'
    BY <1>1, <1>3 DEF NodesDistinct, ListInv
<1>7. CallbacksDistinct'
    BY <1>1, <1>5 DEF CallbacksDistinct, ListInv, Live
<1>8. ListsDisjoint'
    BY <1>5 DEF ListsDisjoint, ListInv
<1>9. QED BY <1>6, <1>7, <1>8 DEF ListInv

\* notify_observer_add() adds a fresh node, and only for a callback not there.
LEMMA AddLists ==
    ASSUME TypeOK, ListInv, NEW h \in Handler, NEW cb \in Callback,
           NEW type \in Type \cup {NT_ALL}, Add(h, cb, type)
    PROVE  ListInv'
<1>1. PICK n \in Free : /\ Insert(h, n)
                        /\ nodeObs' = [nodeObs EXCEPT ![n] = [cb |-> cb, type |-> type]]
    BY DEF Add
<1>2. /\ n \in Node /\ \A g \in Handler : n \notin Nodes(g)
    BY DEF Free
<1>3. observers[h] \in Seq(Node) /\ observers'[h] = <<n>> \o observers[h]
    BY <1>1 DEF Insert, TypeOK
<1>4. /\ DOMAIN observers'[h] = 1 .. Len(observers[h]) + 1
      /\ observers'[h][1] = n
      /\ \A i \in 2 .. Len(observers[h]) + 1 :
            observers'[h][i] = observers[h][i-1] /\ i - 1 \in DOMAIN observers[h]
    BY <1>2, <1>3
<1>5. \A g \in Handler : g # h => observers'[g] = observers[g]
    BY <1>1 DEF Insert, TypeOK
<1>6. Nodes(h)' \subseteq Nodes(h) \cup {n}
    BY <1>4 DEF Nodes
<1>7. \A g \in Handler : g # h => Nodes(g)' = Nodes(g)
    BY <1>5 DEF Nodes
<1>8. NodesDistinct'
    <2>1. ASSUME NEW i \in DOMAIN observers'[h], NEW j \in DOMAIN observers'[h],
                 observers'[h][i] = observers'[h][j]
          PROVE  i = j
        <3>1. \A k \in 2 .. Len(observers[h]) + 1 : observers'[h][k] # n
            BY <1>2, <1>4 DEF Nodes
        <3>2. CASE i = 1 \/ j = 1
            BY <1>4, <2>1, <3>1, <3>2
        <3>3. CASE i # 1 /\ j # 1
            BY <1>4, <2>1, <3>3 DEF NodesDistinct, ListInv
        <3>4. QED BY <3>2, <3>3
    <2>2. QED BY <1>5, <2>1 DEF NodesDistinct, ListInv
<1>9. \A m \in Node : m # n => nodeObs'[m] = nodeObs[m]
    BY <1>1 DEF TypeOK
<1>10. nodeObs'[n].cb = cb
    BY <1>1, <1>2 DEF TypeOK
<1>11. \A g \in Handler : Nodes(g) \subseteq Node
    BY DEF Nodes, TypeOK
<1>12. CallbacksDistinct'
    <2>1. SUFFICES ASSUME NEW g \in Handler, NEW k \in Live(g)', NEW m \in Live(g)',
                          nodeObs'[k].cb = nodeObs'[m].cb
                   PROVE  k = m
        BY DEF CallbacksDistinct
    <2>2. CASE k # n /\ m # n
        <3>1. k \in Live(g) /\ m \in Live(g) /\ nodeObs[k].cb = nodeObs[m].cb
            BY <1>6, <1>7, <1>9, <1>11, <2>1, <2>2 DEF Live
        <3>2. QED BY <3>1 DEF CallbacksDistinct, ListInv
    <2>3. ASSUME NEW x \in Live(g)', x # n, n \in Nodes(g)' PROVE nodeObs'[x].cb # cb
        <3>1. g = h
            BY <1>2, <1>7, <2>3
        <3>2. x \in Live(h) /\ nodeObs'[x] = nodeObs[x]
            BY <1>6, <1>9, <1>11, <2>3, <3>1 DEF Live
        <3>3. QED BY <3>2 DEF Add, NodesOf
    <2>4. QED BY <1>10, <2>1, <2>2, <2>3 DEF Live
<1>13. ListsDisjoint'
    BY <1>2, <1>6, <1>7 DEF ListsDisjoint, ListInv
<1>14. QED BY <1>8, <1>12, <1>13 DEF ListInv

\* notify_observer_remove() only makes a node dead.
LEMMA RemoveLists ==
    ASSUME TypeOK, ListInv, NEW h \in Handler, NEW cb \in Callback, Remove(h, cb)
    PROVE  ListInv'
<1>1. PICK n \in NodesOf(h, cb) : nodeObs' = [nodeObs EXCEPT ![n] = Null]
    BY DEF Remove
<1>2. observers' = observers /\ \A g \in Handler : Nodes(g)' = Nodes(g) /\ Nodes(g) \subseteq Node
    BY DEF Remove, Nodes, TypeOK
<1>3. \A g \in Handler : \A m \in Live(g)' : m \in Live(g) /\ nodeObs'[m] = nodeObs[m]
    BY <1>1, <1>2 DEF Live, TypeOK
<1>4. QED BY <1>2, <1>3 DEF ListInv, NodesDistinct, CallbacksDistinct, ListsDisjoint

\* notify_observer_remove_all() empties one list and leaves the others.
LEMMA RemoveAllLists ==
    ASSUME TypeOK, ListInv, NEW h \in Handler, RemoveAll(h)
    PROVE  ListInv'
<1>1. observers'[h] = <<>> /\ \A g \in Handler : g # h => observers'[g] = observers[g]
    BY DEF RemoveAll, TypeOK
<1>2. /\ Nodes(h)' = {}
      /\ \A g \in Handler : Nodes(g) \subseteq Node /\ (g # h => Nodes(g)' = Nodes(g))
    BY <1>1 DEF Nodes, TypeOK
<1>3. \A n \in Node : n \notin Nodes(h) => nodeObs'[n] = nodeObs[n]
    BY DEF RemoveAll
<1>4. \A g \in Handler : \A m \in Live(g)' : m \in Live(g) /\ nodeObs'[m] = nodeObs[m]
    BY <1>2, <1>3 DEF Live, ListInv, ListsDisjoint
<1>5. QED BY <1>1, <1>2, <1>4 DEF ListInv, NodesDistinct, CallbacksDistinct, ListsDisjoint

\* The lists of observers stay sound under every function of notify.c.
LEMMA Lists == Spec => []ListInv
<1>1. Init => ListInv
    BY DEF Init, ListInv, NodesDistinct, CallbacksDistinct, ListsDisjoint, Live, Nodes
<1>2. TypeOK /\ ListInv /\ [Next]_vars => ListInv'
    <2> SUFFICES ASSUME TypeOK, ListInv, [Next]_vars PROVE ListInv'
        OBVIOUS
    <2>1. CASE UNCHANGED <<observers, nodeObs>>
        BY <2>1 DEF ListInv, NodesDistinct, CallbacksDistinct, ListsDisjoint, Live, Nodes
    <2>2. CASE CollectGarbage
        BY <2>2, CollectGarbageLists
    <2>3. ASSUME NEW h \in Handler, NEW cb \in Callback, NEW type \in Type \cup {NT_ALL},
                 Add(h, cb, type)
          PROVE  ListInv'
        BY <2>3, AddLists
    <2>4. ASSUME NEW h \in Handler, NEW cb \in Callback, Remove(h, cb) PROVE ListInv'
        BY <2>4, RemoveLists
    <2>5. ASSUME NEW h \in Handler, RemoveAll(h) PROVE ListInv'
        BY <2>5, RemoveAllLists
    <2>6. QED
        BY <2>1, <2>2, <2>3, <2>4, <2>5
        DEF Next, vars, Send, Skip, Call, Return, Propagate, SetParent
<1>3. QED BY <1>1, <1>2, Typing, PTL DEF Spec

\* A list without repetition has as many nodes as places.
LEMMA DistinctCount ==
    ASSUME TypeOK, NodesDistinct, NEW h \in Handler
    PROVE  Cardinality(Nodes(h)) = Len(observers[h])
<1> DEFINE list == observers[h]
<1>1. list \in [1 .. Len(list) -> Nodes(h)] /\ Len(list) \in Nat
    BY DEF TypeOK, Nodes
<1>2. ExistsBijection(1 .. Len(list), Nodes(h))
    BY <1>1 DEF NodesDistinct, Nodes, ExistsBijection, Bijection, Injection, Surjection, IsInjective
<1>3. IsFiniteSet(1 .. Len(list)) /\ Cardinality(1 .. Len(list)) = Len(list)
    <2>1. 1 \in Int /\ Len(list) \in Int
        BY <1>1
    <2> HIDE DEF list
    <2>2. IsFiniteSet(1 .. Len(list)) /\ Cardinality(1 .. Len(list)) = IF 1 > Len(list) THEN 0 ELSE Len(list)-1+1
        BY <2>1, FS_Interval
    <2>3. QED BY <1>1, <2>2
<1>4. QED BY <1>2, <1>3, FS_Bijection

\* No callback is registered twice and no node is in two lists, whatever nested
\* sends, removals and garbage collections happen between two calls of
\* notify_observer_add().
THEOREM OneNodeForCallback == Spec => []OneNodePerCallback
<1>1. TypeOK /\ ListInv => OneNodePerCallback
    BY DistinctCount DEF ListInv, CallbacksDistinct, ListsDisjoint, OneNodePerCallback
<1>2. QED BY <1>1, Typing, Lists, PTL

-----------------------------------------------------------------------------
\* A walk begins at the head of its list and owes a call to every live matching
\* observer in it.
LEMMA NewFrameSound ==
    ASSUME TypeOK, NEW h \in Handler, NEW event \in Type
    PROVE  Sound(observers[h], nodeObs, NewFrame(h, event))
<1> DEFINE f == NewFrame(h, event)
<1> DEFINE list == observers[h]
<1>1. /\ f.np = First(h) /\ ~f.running /\ f.event = event
      /\ f.owed = {nodeObs[n].cb : n \in {m \in Live(h) : Matches(nodeObs[m], event)}}
    BY DEF NewFrame
<1>2. list \in Seq(Node)
    BY DEF TypeOK
<1>3. CASE list = <<>>
    <2>1. f.np = Null /\ DOMAIN list = {} /\ Live(h) = {}
        BY <1>1, <1>3 DEF First, Live, Nodes
    <2>2. f.owed = {} /\ Owes(list, nodeObs, f) = {}
        BY <1>1, <2>1 DEF Owes, Rest
    <2>3. QED BY <2>1, <2>2 DEF Sound
<1>4. CASE list # <<>>
    <2>1. f.np = list[1] /\ 1 \in DOMAIN list
        BY <1>1, <1>2, <1>4 DEF First
    <2>2. Rest(list, f) = DOMAIN list
        BY <1>1, <1>2, <2>1 DEF Rest
    <2>3. Owes(list, nodeObs, f) = f.owed
        BY <1>1, <2>2 DEF Owes, Live, Nodes
    <2>4. QED BY <2>1, <2>3 DEF Sound
<1>5. QED BY <1>3, <1>4

\* In a list without repetition STAILQ_NEXT() is the next place.
LEMMA FollowingNext ==
    ASSUME TypeOK, NodesDistinct, NEW h \in Handler, NEW j \in DOMAIN observers[h]
    PROVE  Following(h, observers[h][j]) =
              IF j < Len(observers[h]) THEN observers[h][j+1] ELSE Null
<1> DEFINE list == observers[h]
<1> DEFINE after == {i \in DOMAIN list : i > 1 /\ list[i-1] = list[j]}
<1>1. list \in Seq(Node) /\ DOMAIN list = 1 .. Len(list) /\ Len(list) \in Nat
    BY DEF TypeOK
<1>2. \A i \in DOMAIN list : i > 1 /\ list[i-1] = list[j] => i = j + 1
    BY <1>1 DEF NodesDistinct
<1>3. CASE j < Len(list)
    <2>1. after = {j+1}
        BY <1>1, <1>2, <1>3
    <2>2. QED BY <1>3, <2>1 DEF Following
<1>4. CASE ~(j < Len(list))
    <2>1. after = {}
        BY <1>1, <1>2, <1>4
    <2>2. QED BY <1>4, <2>1 DEF Following
<1>5. QED BY <1>3, <1>4

\* The rest of the list when the walk has left the place j.
After(list, obs, event, j) ==
    {obs[list[k]].cb : k \in {l \in DOMAIN list :
        j < l /\ obs[list[l]] # Null /\ Matches(obs[list[l]], event)}}

\* During a callback the walk owes what lies behind its place.
LEMMA OwesRunning ==
    ASSUME TypeOK, NodesDistinct, NEW h \in Handler, NEW j \in DOMAIN observers[h],
           NEW f \in Frame, f.np = observers[h][j], f.running
    PROVE  Owes(observers[h], nodeObs, f) = After(observers[h], nodeObs, f.event, j)
<1>1. Rest(observers[h], f) = {k \in DOMAIN observers[h] : j < k}
    BY DEF Rest, NodesDistinct
<1>2. QED BY <1>1 DEF Owes, After

\* Before the callback it owes its place too, when the observer there is live
\* and matches.
LEMMA OwesStanding ==
    ASSUME TypeOK, NodesDistinct, NEW h \in Handler, NEW j \in DOMAIN observers[h],
           NEW f \in Frame, f.np = observers[h][j], ~f.running
    PROVE  Owes(observers[h], nodeObs, f) =
               After(observers[h], nodeObs, f.event, j)
                   \cup IF Calls(f) THEN {nodeObs[f.np].cb} ELSE {}
<1>1. Rest(observers[h], f) = {k \in DOMAIN observers[h] : j < k} \cup {j}
    BY DEF Rest, NodesDistinct, TypeOK
<1>2. QED BY <1>1 DEF Owes, After, Calls

\* A walk that goes on owes what stands behind the observer just called.
LEMMA OwesFollowing ==
    ASSUME TypeOK, NodesDistinct, NEW h \in Handler, NEW j \in DOMAIN observers[h],
           NEW f \in Frame, f.np = Following(h, observers[h][j]), ~f.running
    PROVE  Owes(observers[h], nodeObs, f) = After(observers[h], nodeObs, f.event, j)
<1>1. observers[h] \in Seq(Node) /\ DOMAIN observers[h] = 1 .. Len(observers[h])
    BY DEF TypeOK
<1>2. CASE j < Len(observers[h])
    <2>1. j + 1 \in DOMAIN observers[h] /\ f.np = observers[h][j+1]
        BY <1>1, <1>2, FollowingNext
    <2>2. Rest(observers[h], f) = {k \in DOMAIN observers[h] : j < k}
        BY <1>1, <2>1 DEF Rest, NodesDistinct
    <2>3. QED BY <2>2 DEF Owes, After
<1>3. CASE ~(j < Len(observers[h]))
    <2>1. f.np = Null
        BY <1>3, FollowingNext
    <2>2. Rest(observers[h], f) = {}
        BY <1>1, <2>1, NotifyAssumption DEF Rest
    <2>3. \A k \in DOMAIN observers[h] : ~(j < k)
        BY <1>1, <1>3
    <2>4. QED BY <2>2, <2>3 DEF Owes, After
<1>4. QED BY <1>2, <1>3

\* At the end of the list nothing is owed.
LEMMA NothingOwed ==
    ASSUME NEW list \in Seq(Node), NEW obs, NEW f \in Frame, f.np = Null
    PROVE  Rest(list, f) = {} /\ Owes(list, obs, f) = {}
<1>1. Rest(list, f) = {}
    BY NotifyAssumption DEF Rest
<1>2. QED BY <1>1 DEF Owes

\* The walk of the innermost send() is sound.
LEMMA TopSound ==
    ASSUME TypeOK, WalkInv, stack # <<>>
    PROVE  Sound(observers[Top.current], nodeObs, Top)
BY TopType DEF WalkInv, WalksSound, Top

\* An outer send() is inside a callback, made for a node.
LEMMA OuterNodes ==
    ASSUME TypeOK
    PROVE  \A i \in 1 .. Len(stack) - 1 :
              stack[i] \in Frame /\ stack[i].running /\ stack[i].np \in Node
<1>1. ASSUME NEW i \in 1 .. Len(stack) - 1
      PROVE  stack[i] \in Frame /\ stack[i].running /\ stack[i].np \in Node
    <2>1. i \in DOMAIN stack /\ stack[i] \in Frame
        BY DEF TypeOK
    <2>2. QED BY <2>1 DEF TypeOK, Frame
<1>2. QED BY <1>1

\* A step of the innermost send() that leaves its own walk sound leaves all
\* walks sound.
LEMMA SetTopWalks ==
    ASSUME TypeOK, WalkInv, stack # <<>>, NEW f \in Frame, SetTop(f),
           UNCHANGED <<observers, nodeObs>>, f.running => f.np # Null,
           Sound(observers[f.current], nodeObs, f)
    PROVE  WalkInv'
<1>1. /\ stack' \in Seq(Frame) /\ Len(stack') = Len(stack)
      /\ \A i \in 1 .. Len(stack) - 1 : stack'[i] = stack[i]
      /\ stack'[Len(stack)] = f
    BY SetTopType
<1>2. ASSUME NEW i \in DOMAIN stack'
      PROVE  Sound(observers'[stack'[i].current], nodeObs', stack'[i])
    <2>1. CASE i = Len(stack)
        BY <1>1, <2>1
    <2>2. CASE i # Len(stack)
        <3>1. PICK n \in Nat : n = Len(stack) /\ DOMAIN stack = 1 .. n /\ DOMAIN stack' = 1 .. n
            BY <1>1 DEF TypeOK
        <3>2. i \in 1 .. n - 1
            BY <2>2, <3>1
        <3>3. i \in DOMAIN stack /\ stack'[i] = stack[i]
            BY <1>1, <3>1, <3>2
        <3>4. QED BY <3>3 DEF WalkInv, WalksSound
    <2>3. QED BY <2>1, <2>2
<1>3. WalksSound'
    BY <1>2 DEF WalksSound
<1>4. OuterStandOnLive'
    BY <1>1 DEF WalkInv, OuterStandOnLive
<1>5. QED BY <1>3, <1>4 DEF WalkInv

\* Stepping over a dead node or an observer of another type owes nothing less.
LEMMA SkipWalks ==
    ASSUME TypeOK, ListInv, WalkInv, Skip
    PROVE  WalkInv'
<1> DEFINE f == [Top EXCEPT !.np = Following(Top.current, Top.np)]
<1>1. stack # <<>> /\ ~Top.running /\ SetTop(f) /\ Top.np # Null /\ ~Calls(Top)
    BY DEF Skip, UserCode
<1>2. PICK c \in Handler : c = Top.current
    BY <1>1, TopType DEF Frame
<1>3. PICK j \in DOMAIN observers[c] : observers[c][j] = Top.np
    BY <1>1, <1>2, TopSound DEF Sound
<1>4. f \in Frame /\ ~f.running /\ f.np = Following(c, Top.np) /\ f.current = c
      /\ f.event = Top.event /\ f.owed = Top.owed /\ Top \in Frame
    BY <1>1, <1>2, TopType, FollowingNode, FrameUpdate DEF Frame
<1>5. Top.owed = Owes(observers[c], nodeObs, Top)
    BY <1>1, <1>2, TopSound DEF Sound
<1> HIDE DEF f
<1>6. f.owed = Owes(observers[c], nodeObs, f)
    <2>1. Owes(observers[c], nodeObs, Top) = After(observers[c], nodeObs, Top.event, j)
        <3>1. Owes(observers[c], nodeObs, Top) =
                  After(observers[c], nodeObs, Top.event, j)
                      \cup IF Calls(Top) THEN {nodeObs[Top.np].cb} ELSE {}
            BY <1>1, <1>3, <1>4, OwesStanding DEF ListInv
        <3>2. QED BY <1>1, <3>1, Zenon
    <2>2. Owes(observers[c], nodeObs, f) = After(observers[c], nodeObs, f.event, j)
        BY <1>3, <1>4, OwesFollowing DEF ListInv
    <2>3. QED BY <1>4, <1>5, <2>1, <2>2
<1>7. f.np # Null => \E k \in DOMAIN observers[c] : observers[c][k] = f.np
    BY <1>4, FollowingType DEF Nodes
<1>8. Sound(observers[f.current], nodeObs, f)
    BY <1>4, <1>6, <1>7 DEF Sound
<1>9. QED BY <1>1, <1>4, <1>8, SetTopWalks DEF Skip

\* After a callback the walk goes on behind the node it was called for.
LEMMA ReturnWalks ==
    ASSUME TypeOK, ListInv, WalkInv, Return
    PROVE  WalkInv'
<1> DEFINE f == [Top EXCEPT !.running = FALSE, !.np = Following(Top.current, Top.np)]
<1>1. stack # <<>> /\ Top.running /\ SetTop(f)
    BY DEF Return
<1>2. PICK c \in Handler : c = Top.current
    BY <1>1, TopType DEF Frame
<1>3. Top.np # Null
    BY <1>1, TopType DEF TypeOK, Top
<1>4. PICK j \in DOMAIN observers[c] : observers[c][j] = Top.np
    BY <1>1, <1>2, <1>3, TopSound DEF Sound
<1>5. f \in Frame /\ ~f.running /\ f.np = Following(c, Top.np) /\ f.current = c
      /\ f.event = Top.event /\ f.owed = Top.owed /\ Top \in Frame
    BY <1>1, <1>2, TopType, FollowingNode, FrameUpdate DEF Frame
<1>6. Top.owed = Owes(observers[c], nodeObs, Top)
    BY <1>1, <1>2, TopSound DEF Sound
<1> HIDE DEF f
<1>7. f.owed = Owes(observers[c], nodeObs, f)
    <2>1. Owes(observers[c], nodeObs, Top) = After(observers[c], nodeObs, Top.event, j)
        BY <1>1, <1>4, <1>5, OwesRunning DEF ListInv
    <2>2. Owes(observers[c], nodeObs, f) = After(observers[c], nodeObs, f.event, j)
        BY <1>4, <1>5, OwesFollowing DEF ListInv
    <2>3. QED BY <1>5, <1>6, <2>1, <2>2
<1>8. f.np # Null => \E k \in DOMAIN observers[c] : observers[c][k] = f.np
    BY <1>5, FollowingType DEF Nodes
<1>9. Sound(observers[f.current], nodeObs, f)
    BY <1>5, <1>7, <1>8 DEF Sound
<1>10. QED BY <1>1, <1>5, <1>9, SetTopWalks DEF Return

\* The callback that is called is owed, and is the only debt paid by the call.
LEMMA CallWalks ==
    ASSUME TypeOK, ListInv, WalkInv, Call
    PROVE  WalkInv' /\ nodeObs[Top.np].cb \in Top.owed
<1> DEFINE cb == nodeObs[Top.np].cb
<1> DEFINE f == [Top EXCEPT !.running = TRUE, !.owed = @ \ {cb}]
<1>1. stack # <<>> /\ ~Top.running /\ SetTop(f) /\ Top.np # Null /\ Calls(Top)
    BY DEF Call, UserCode
<1>2. PICK c \in Handler : c = Top.current
    BY <1>1, TopType DEF Frame
<1>3. PICK j \in DOMAIN observers[c] : observers[c][j] = Top.np
    BY <1>1, <1>2, TopSound DEF Sound
<1>4. f \in Frame /\ f.running /\ f.np = Top.np /\ f.current = c
      /\ f.event = Top.event /\ f.owed = Top.owed \ {cb} /\ Top \in Frame
    BY <1>1, <1>2, TopType, FrameUpdate DEF Frame
<1>5. Top.owed = Owes(observers[c], nodeObs, Top)
    BY <1>1, <1>2, TopSound DEF Sound
<1> HIDE DEF f
<1>6. Top.owed = After(observers[c], nodeObs, Top.event, j) \cup {cb}
    BY <1>1, <1>3, <1>4, <1>5, OwesStanding DEF ListInv
<1>7. cb \notin After(observers[c], nodeObs, Top.event, j)
    <2>1. ASSUME NEW l \in DOMAIN observers[c], j < l, nodeObs[observers[c][l]] # Null
          PROVE  nodeObs[observers[c][l]].cb # cb
        <3>1. j \in Int /\ j # l
            BY <2>1 DEF TypeOK
        <3>2. observers[c][l] # observers[c][j]
            BY <3>1 DEF ListInv, NodesDistinct
        <3>3. observers[c][l] \in Live(c) /\ observers[c][j] \in Live(c)
            BY <1>1, <1>3, <2>1 DEF Live, Nodes, Calls
        <3>4. QED BY <1>3, <3>2, <3>3 DEF ListInv, CallbacksDistinct
    <2>2. QED BY <2>1 DEF After
<1>8. f.owed = Owes(observers[c], nodeObs, f)
    <2>1. Owes(observers[c], nodeObs, f) = After(observers[c], nodeObs, f.event, j)
        BY <1>3, <1>4, OwesRunning DEF ListInv
    <2>2. QED BY <1>4, <1>6, <1>7, <2>1
<1>9. Sound(observers[f.current], nodeObs, f)
    BY <1>3, <1>4, <1>8 DEF Sound
<1>10. WalkInv'
    BY <1>1, <1>4, <1>9, SetTopWalks DEF Call
<1>11. QED BY <1>6, <1>10

\* The tail call of send() on the parent starts a sound walk.
LEMMA PropagateWalks ==
    ASSUME TypeOK, ListInv, WalkInv, Propagate
    PROVE  WalkInv'
<1> DEFINE f == NewFrame(parent[Top.current], Top.event)
<1>1. stack # <<>> /\ SetTop(f) /\ parent[Top.current] # Null
    BY DEF Propagate, UserCode
<1>2. Top.current \in Handler /\ Top.event \in Type
    BY <1>1, TopType DEF Frame
<1>3. PICK h \in Handler : h = parent[Top.current]
    BY <1>1, <1>2 DEF TypeOK
<1>4. PICK event \in Type : event = Top.event
    BY <1>2
<1>5. f = NewFrame(h, event)
    BY <1>3, <1>4
<1>6. f \in Frame /\ ~f.running /\ f.current = h
    BY <1>5, NewFrameType DEF NewFrame
<1>7. Sound(observers[h], nodeObs, f)
    BY <1>5, NewFrameSound
<1> HIDE DEF f
<1>8. Sound(observers[f.current], nodeObs, f)
    BY <1>6, <1>7
<1>9. QED BY <1>1, <1>6, <1>8, SetTopWalks DEF Propagate

\* A nested send() starts from a callback whose own node is still live, so the
\* walk that becomes an outer one stands on a live node.
LEMMA SendWalks ==
    ASSUME TypeOK, ListInv, WalkInv, Disciplined,
           NEW h \in Handler, NEW event \in Type, Send(h, event)
    PROVE  WalkInv'
<1> DEFINE f == NewFrame(h, event)
<1>1. stack' = Append(stack, f) /\ UNCHANGED <<observers, nodeObs>>
    BY DEF Send
<1>2. Sound(observers[h], nodeObs, f) /\ f \in Frame /\ f.current = h
    BY NewFrameSound, NewFrameType DEF NewFrame
<1> HIDE DEF f
<1>3. /\ Len(stack') = Len(stack) + 1 /\ DOMAIN stack' = 1 .. Len(stack) + 1
      /\ stack'[Len(stack) + 1] = f /\ \A i \in 1 .. Len(stack) : stack'[i] = stack[i]
    BY <1>1, <1>2 DEF TypeOK
<1>4. WalksSound'
    <2>1. ASSUME NEW i \in DOMAIN stack'
          PROVE  Sound(observers[stack'[i].current], nodeObs, stack'[i])
        <3>1. CASE i = Len(stack) + 1
            BY <1>2, <1>3, <3>1
        <3>2. CASE i # Len(stack) + 1
            <4>1. i \in DOMAIN stack /\ stack'[i] = stack[i]
                BY <1>3, <3>2 DEF TypeOK
            <4>2. QED BY <4>1 DEF WalkInv, WalksSound
        <3>3. QED BY <3>1, <3>2
    <2>2. QED BY <1>1, <2>1 DEF WalksSound
<1>5. OuterStandOnLive'
    <2>1. ASSUME NEW i \in 1 .. Len(stack) PROVE nodeObs[stack[i].np] # Null
        <3>1. CASE i = Len(stack)
            BY <2>1, <3>1 DEF Send, MaySend, Top, TypeOK
        <3>2. CASE i # Len(stack)
            BY <2>1, <3>2 DEF TypeOK, WalkInv, OuterStandOnLive
        <3>3. QED BY <3>1, <3>2
    <2>2. QED BY <1>1, <1>3, <2>1 DEF OuterStandOnLive, TypeOK
<1>6. QED BY <1>4, <1>5 DEF WalkInv

\* What a walk owes depends on the observers of its own list only.
LEMMA SameObservers ==
    ASSUME NEW list \in Seq(Node), NEW obs, NEW new, NEW f,
           \A k \in DOMAIN list : new[list[k]] = obs[list[k]]
    PROVE  Owes(list, new, f) = Owes(list, obs, f)
<1>1. \A k \in Rest(list, f) : k \in DOMAIN list
    BY DEF Rest
<1>2. QED BY <1>1 DEF Owes

\* The places of the list short, observed as so says, are places of long.
Embeds(e, short, so, long, lo) ==
    /\ \A i \in DOMAIN short :
          /\ e[i] \in DOMAIN long /\ short[i] = long[e[i]]
          /\ so[short[i]] = lo[short[i]]
    /\ \A i, k \in DOMAIN short : i < k => e[i] < e[k]
    /\ \A i, k \in DOMAIN long : long[i] = long[k] => i = k

\* A walk standing in the shorter of two lists owes the same in the longer one,
\* when no live node to come is missing from the shorter.
LEMMA Embedded ==
    ASSUME NEW short \in Seq(Node), NEW long \in Seq(Node), NEW so, NEW lo, NEW e,
           Embeds(e, short, so, long, lo),
           NEW f, NEW j \in DOMAIN short, short[j] = f.np,
           \A k \in Rest(long, f) : lo[long[k]] # Null => \E m \in DOMAIN short : e[m] = k
    PROVE  Owes(short, so, f) = Owes(long, lo, f)
<1> USE DEF Embeds
<1>1. DOMAIN short = 1 .. Len(short) /\ DOMAIN long = 1 .. Len(long)
    OBVIOUS
<1>2. ASSUME NEW k \in DOMAIN short
      PROVE  (j < k <=> e[j] < e[k]) /\ (j <= k <=> e[j] <= e[k])
    <2>1. j \in Int /\ k \in Int /\ e[j] \in Int /\ e[k] \in Int
        BY <1>1
    <2>2. CASE j < k
        BY <2>1, <2>2
    <2>3. CASE k < j
        BY <2>1, <2>3
    <2>4. CASE j = k
        BY <2>1, <2>4
    <2>5. QED BY <2>1, <2>2, <2>3, <2>4
<1>3. \A i, k \in DOMAIN short : short[i] = short[k] => i = k
    <2>1. ASSUME NEW i \in DOMAIN short, NEW k \in DOMAIN short, short[i] = short[k]
          PROVE  i = k
        <3>1. e[i] = e[k] /\ e[i] \in Int /\ i \in Int /\ k \in Int
            BY <1>1, <2>1
        <3>2. ~(i < k) /\ ~(k < i)
            BY <3>1
        <3>3. QED BY <3>1, <3>2
    <2>2. QED BY <2>1
<1>4. Rest(short, f) = {k \in DOMAIN short : IF f.running THEN j < k ELSE j <= k}
    BY <1>3 DEF Rest
<1>5. e[j] \in DOMAIN long /\ long[e[j]] = f.np
    OBVIOUS
<1>6. Rest(long, f) = {k \in DOMAIN long : IF f.running THEN e[j] < k ELSE e[j] <= k}
    BY <1>5 DEF Rest
<1>7. \A k \in DOMAIN short : k \in Rest(short, f) <=> e[k] \in Rest(long, f)
    BY <1>2, <1>4, <1>6
<1>8. ASSUME NEW cb \in Owes(short, so, f) PROVE cb \in Owes(long, lo, f)
    <2>1. PICK k \in Rest(short, f) :
             /\ so[short[k]] # Null /\ Matches(so[short[k]], f.event)
             /\ cb = so[short[k]].cb
        BY <1>8 DEF Owes
    <2>2. k \in DOMAIN short
        BY <1>4
    <2>3. e[k] \in Rest(long, f) /\ lo[long[e[k]]] = so[short[k]]
        BY <1>7, <2>2
    <2>4. /\ lo[long[e[k]]] # Null /\ Matches(lo[long[e[k]]], f.event)
          /\ cb = lo[long[e[k]]].cb
        BY <2>1, <2>3
    <2>5. e[k] \in {l \in Rest(long, f) : lo[long[l]] # Null /\ Matches(lo[long[l]], f.event)}
        BY <2>3, <2>4
    <2>6. QED BY <2>4, <2>5 DEF Owes
<1>9. ASSUME NEW cb \in Owes(long, lo, f) PROVE cb \in Owes(short, so, f)
    <2>1. PICK k \in Rest(long, f) :
             /\ lo[long[k]] # Null /\ Matches(lo[long[k]], f.event)
             /\ cb = lo[long[k]].cb
        BY <1>9 DEF Owes
    <2>2. PICK m \in DOMAIN short : e[m] = k
        BY <2>1
    <2>3. m \in Rest(short, f) /\ so[short[m]] = lo[long[k]]
        BY <1>7, <2>2
    <2>4. /\ so[short[m]] # Null /\ Matches(so[short[m]], f.event)
          /\ cb = so[short[m]].cb
        BY <2>1, <2>3
    <2>5. m \in {l \in Rest(short, f) : so[short[l]] # Null /\ Matches(so[short[l]], f.event)}
        BY <2>3, <2>4
    <2>6. QED BY <2>4, <2>5 DEF Owes
<1>10. QED BY <1>8, <1>9

\* Freeing the dead nodes when a nested send() returns moves no outer walk: each
\* stands on a live node, and the live nodes behind it stay, in their order.
LEMMA CollectGarbageWalks ==
    ASSUME TypeOK, ListInv, WalkInv, CollectGarbage
    PROVE  WalkInv'
<1>1. PICK c \in Handler :
         /\ stack # <<>> /\ nodeObs' = nodeObs
         /\ observers' = [observers EXCEPT ![c] = observers'[c]]
         /\ \E e : Keeps(observers[c], e, observers'[c], Len(observers[c]))
    BY GarbageCollected
<1>2. PICK e : Keeps(observers[c], e, observers'[c], Len(observers[c]))
    BY <1>1
<1>3. /\ stack' \in Seq(Frame) /\ Len(stack') = Len(stack) - 1
      /\ \A i \in 1 .. Len(stack) - 1 : stack'[i] = stack[i]
    <2>1. stack' = SubSeq(stack, 1, Len(stack) - 1) /\ stack \in Seq(Frame)
        BY DEF CollectGarbage, TypeOK
    <2>2. QED BY <1>1, <2>1, ButLast
<1>4. \A g \in Handler : g # c => observers'[g] = observers[g]
    BY <1>1 DEF TypeOK
<1>5. /\ observers'[c] \in Seq(Node) /\ observers[c] \in Seq(Node)
      /\ DOMAIN observers'[c] = 1 .. Len(observers'[c])
      /\ DOMAIN observers[c] = 1 .. Len(observers[c])
    BY <1>2 DEF Keeps, TypeOK
<1>6. ASSUME NEW i \in 1 .. Len(stack) - 1, stack[i].current = c
      PROVE  Sound(observers'[c], nodeObs, stack[i])
    <2> DEFINE f == stack[i]
    <2>1. f \in Frame /\ f.np # Null /\ nodeObs[f.np] # Null /\ Sound(observers[c], nodeObs, f)
        BY <1>6 DEF TypeOK, WalkInv, WalksSound, OuterStandOnLive
    <2> HIDE DEF f
    <2>2. PICK k \in 1 .. Len(observers[c]) : observers[c][k] = f.np
        BY <1>5, <2>1 DEF Sound
    <2>3. PICK j \in 1 .. Len(observers'[c]) : e[j] = k
        BY <1>2, <2>1, <2>2 DEF Keeps
    <2>4. observers'[c][j] = f.np
        BY <1>2, <2>2, <2>3 DEF Keeps
    <2>5. \A l \in DOMAIN observers'[c] :
             /\ e[l] \in DOMAIN observers[c] /\ observers'[c][l] = observers[c][e[l]]
             /\ nodeObs[observers'[c][l]] = nodeObs[observers'[c][l]]
        BY <1>2, <1>5 DEF Keeps
    <2>6. \A l, m \in DOMAIN observers'[c] : l < m => e[l] < e[m]
        BY <1>2, <1>5 DEF Keeps
    <2>7. \A l, m \in DOMAIN observers[c] : observers[c][l] = observers[c][m] => l = m
        BY DEF ListInv, NodesDistinct
    <2>8. \A l \in Rest(observers[c], f) :
             nodeObs[observers[c][l]] # Null => \E m \in DOMAIN observers'[c] : e[m] = l
        BY <1>2, <1>5 DEF Keeps, Rest
    <2>9. Owes(observers'[c], nodeObs, f) = Owes(observers[c], nodeObs, f)
        <3>1. j \in DOMAIN observers'[c]
            BY <1>5, <2>3
        <3>2. Embeds(e, observers'[c], nodeObs, observers[c], nodeObs)
            BY <2>5, <2>6, <2>7 DEF Embeds
        <3>3. QED BY <1>5, <2>4, <2>8, <3>1, <3>2, Embedded
    <2>10. Sound(observers'[c], nodeObs, f)
        BY <1>5, <2>1, <2>3, <2>4, <2>9 DEF Sound
    <2>11. QED BY <2>10 DEF f
<1>7. WalksSound'
    <2>1. ASSUME NEW i \in DOMAIN stack'
          PROVE  Sound(observers'[stack'[i].current], nodeObs', stack'[i])
        <3>1. i \in 1 .. Len(stack) - 1 /\ i \in DOMAIN stack /\ stack'[i] = stack[i]
            BY <1>3 DEF TypeOK
        <3>2. CASE stack[i].current = c
            BY <1>1, <1>6, <3>1, <3>2
        <3>3. CASE stack[i].current # c
            <4>1. observers'[stack[i].current] = observers[stack[i].current]
                <5>1. stack[i] \in Frame
                    BY <3>1 DEF TypeOK
                <5>2. QED BY <1>4, <3>3, <5>1 DEF Frame
            <4>2. QED BY <1>1, <3>1, <4>1 DEF WalkInv, WalksSound
        <3>4. QED BY <3>2, <3>3
    <2>2. QED BY <2>1 DEF WalksSound
<1>8. OuterStandOnLive'
    <2>1. Len(stack) \in Nat
        BY DEF TypeOK
    <2>2. QED BY <1>1, <1>3, <2>1 DEF WalkInv, OuterStandOnLive
<1>9. QED BY <1>7, <1>8 DEF WalkInv

\* An observer inserted at the head is behind every walk of that list: a walk
\* in progress neither visits it nor owes it a call.
LEMMA AddWalks ==
    ASSUME TypeOK, ListInv, ListInv', WalkInv, NEW h \in Handler, NEW cb \in Callback,
           NEW type \in Type \cup {NT_ALL}, Add(h, cb, type)
    PROVE  WalkInv'
<1>1. PICK n \in Free : /\ Insert(h, n)
                        /\ nodeObs' = [nodeObs EXCEPT ![n] = [cb |-> cb, type |-> type]]
    BY DEF Add
<1>2. stack' = stack /\ n \in Node /\ \A g \in Handler : n \notin Nodes(g)
    BY DEF Add, Free
<1>3. \A g \in Handler : \A k \in DOMAIN observers[g] :
         nodeObs'[observers[g][k]] = nodeObs[observers[g][k]]
    BY <1>1, <1>2 DEF Nodes, TypeOK
<1>4. \A g \in Handler : g # h => observers'[g] = observers[g]
    BY <1>1 DEF Insert, TypeOK
<1>5. observers[h] \in Seq(Node) /\ observers'[h] = <<n>> \o observers[h]
    BY <1>1 DEF Insert, TypeOK
<1>6. /\ observers'[h] \in Seq(Node) /\ DOMAIN observers[h] = 1 .. Len(observers[h])
      /\ DOMAIN observers'[h] = 1 .. Len(observers[h]) + 1
      /\ \A k \in 1 .. Len(observers[h]) : observers'[h][k+1] = observers[h][k]
    BY <1>2, <1>5
<1>7. ASSUME NEW f \in Frame, f.current = h, Sound(observers[h], nodeObs, f)
      PROVE  Sound(observers'[h], nodeObs', f)
    <2>1. CASE f.np = Null
        <3>1. Owes(observers[h], nodeObs, f) = {} /\ Owes(observers'[h], nodeObs', f) = {}
            BY <1>5, <1>6, <2>1, NothingOwed
        <3>2. QED BY <1>7, <2>1, <3>1 DEF Sound
    <2>2. CASE f.np # Null
        <3>1. PICK j \in DOMAIN observers[h] : observers[h][j] = f.np
            BY <1>7, <2>2 DEF Sound
        <3> DEFINE e == [k \in 1 .. Len(observers[h]) |-> k + 1]
        <3>2. \A i \in DOMAIN observers[h] :
                 /\ e[i] \in DOMAIN observers'[h] /\ observers[h][i] = observers'[h][e[i]]
                 /\ nodeObs[observers[h][i]] = nodeObs'[observers[h][i]]
            BY <1>3, <1>5, <1>6
        <3>3. \A i, k \in DOMAIN observers[h] : i < k => e[i] < e[k]
            BY <1>5, <1>6
        <3>4. \A i, k \in DOMAIN observers'[h] : observers'[h][i] = observers'[h][k] => i = k
            BY DEF ListInv, NodesDistinct
        <3>5. \A k \in Rest(observers'[h], f) : \E m \in DOMAIN observers[h] : e[m] = k
            <4>1. \A k \in Rest(observers'[h], f) : k \in DOMAIN observers'[h] /\ j + 1 <= k
                <5>1. j + 1 \in DOMAIN observers'[h] /\ observers'[h][j+1] = f.np
                    BY <1>5, <1>6, <3>1
                <5>2. \A l \in DOMAIN observers'[h] : observers'[h][l] = f.np => l = j + 1
                    BY <3>4, <5>1
                <5>3. QED BY <1>6, <5>2 DEF Rest
            <4>2. ASSUME NEW k \in Rest(observers'[h], f)
                  PROVE  \E m \in DOMAIN observers[h] : e[m] = k
                <5>1. k - 1 \in 1 .. Len(observers[h]) /\ k \in Int
                    BY <1>5, <1>6, <3>1, <4>1, <4>2
                <5>2. e[k-1] = k
                    BY <5>1
                <5>3. QED BY <1>6, <5>1, <5>2
            <4>3. QED BY <4>2
        <3> HIDE DEF e
        <3>6. Owes(observers[h], nodeObs, f) = Owes(observers'[h], nodeObs', f)
            <4>1. \A k \in Rest(observers'[h], f) :
                     nodeObs'[observers'[h][k]] # Null => \E m \in DOMAIN observers[h] : e[m] = k
                BY <3>5
            <4>2. Embeds(e, observers[h], nodeObs, observers'[h], nodeObs')
                BY <3>2, <3>3, <3>4 DEF Embeds
            <4>3. observers[h] \in Seq(Node) /\ observers'[h] \in Seq(Node)
                BY <1>5, <1>6
            <4>4. QED BY <3>1, <4>1, <4>2, <4>3, Embedded
        <3>7. \E k \in DOMAIN observers'[h] : observers'[h][k] = f.np
            BY <3>1, <3>2
        <3>8. QED BY <1>7, <3>6, <3>7 DEF Sound
    <2>3. QED BY <2>1, <2>2
<1>8. ASSUME NEW i \in DOMAIN stack
      PROVE  Sound(observers'[stack[i].current], nodeObs', stack[i])
    <2>1. /\ stack[i] \in Frame /\ stack[i].current \in Handler
          /\ Sound(observers[stack[i].current], nodeObs, stack[i])
        <3>1. stack[i] \in Frame
            BY DEF TypeOK
        <3>2. QED BY <3>1 DEF Frame, WalkInv, WalksSound
    <2>2. CASE stack[i].current = h
        BY <1>7, <2>1, <2>2
    <2>3. CASE stack[i].current # h
        <3>1. PICK g \in Handler : g = stack[i].current
            BY <2>1
        <3>2. observers'[g] = observers[g] /\ observers[g] \in Seq(Node)
            BY <1>4, <2>3, <3>1 DEF TypeOK
        <3>3. Owes(observers[g], nodeObs', stack[i]) = Owes(observers[g], nodeObs, stack[i])
            BY <1>3, <3>2, SameObservers
        <3>4. QED BY <2>1, <3>1, <3>2, <3>3 DEF Sound
    <2>4. QED BY <2>2, <2>3
<1>9. WalksSound'
    BY <1>2, <1>8 DEF WalksSound
<1>10. OuterStandOnLive'
    <2>1. ASSUME NEW i \in 1 .. Len(stack) - 1 PROVE nodeObs'[stack[i].np] = nodeObs[stack[i].np]
        <3>1. i \in DOMAIN stack /\ stack[i] \in Frame /\ stack[i].np # Null
            BY OuterNodes, NotifyAssumption DEF TypeOK
        <3>2. PICK k \in DOMAIN observers[stack[i].current] :
                 observers[stack[i].current][k] = stack[i].np
            BY <3>1 DEF WalkInv, WalksSound, Sound
        <3>3. QED BY <1>3, <3>1, <3>2 DEF Frame
    <2>2. QED BY <1>2, <2>1 DEF WalkInv, OuterStandOnLive
<1>11. QED BY <1>9, <1>10 DEF WalkInv

\* With one node dead a walk of its list owes the callback of that node, and
\* only that one, no more.
LEMMA OwesWithout ==
    ASSUME TypeOK, ListInv, NEW h \in Handler, NEW n \in Nodes(h), nodeObs[n] # Null, NEW f
    PROVE  Owes(observers[h], [nodeObs EXCEPT ![n] = Null], f)
              = Owes(observers[h], nodeObs, f) \ {nodeObs[n].cb}
<1> DEFINE cb == nodeObs[n].cb
<1> DEFINE new == [nodeObs EXCEPT ![n] = Null]
<1>1. \A k \in Rest(observers[h], f) : k \in DOMAIN observers[h]
    BY DEF Rest
<1>2. \A k \in DOMAIN observers[h] :
         /\ observers[h][k] \in Nodes(h) /\ observers[h][k] \in Node
         /\ new[observers[h][k]] = IF observers[h][k] = n THEN Null ELSE nodeObs[observers[h][k]]
    BY DEF Nodes, TypeOK
<1>3. ASSUME NEW k \in DOMAIN observers[h], nodeObs[observers[h][k]] # Null,
             nodeObs[observers[h][k]].cb = cb
      PROVE  observers[h][k] = n
    BY <1>2, <1>3 DEF ListInv, CallbacksDistinct, Live
<1>4. ASSUME NEW x \in Owes(observers[h], new, f)
      PROVE  x \in Owes(observers[h], nodeObs, f) /\ x # cb
    <2>1. PICK k \in Rest(observers[h], f) :
             /\ new[observers[h][k]] # Null /\ Matches(new[observers[h][k]], f.event)
             /\ x = new[observers[h][k]].cb
        BY <1>4 DEF Owes
    <2>2. observers[h][k] # n /\ new[observers[h][k]] = nodeObs[observers[h][k]]
        BY <1>1, <1>2, <2>1
    <2>3. QED BY <1>1, <1>3, <2>1, <2>2 DEF Owes
<1>5. ASSUME NEW x \in Owes(observers[h], nodeObs, f), x # cb
      PROVE  x \in Owes(observers[h], new, f)
    <2>1. PICK k \in Rest(observers[h], f) :
             /\ nodeObs[observers[h][k]] # Null /\ Matches(nodeObs[observers[h][k]], f.event)
             /\ x = nodeObs[observers[h][k]].cb
        BY <1>5 DEF Owes
    <2>2. observers[h][k] # n /\ new[observers[h][k]] = nodeObs[observers[h][k]]
        BY <1>1, <1>2, <1>5, <2>1
    <2>3. QED BY <2>1, <2>2 DEF Owes
<1>6. QED BY <1>4, <1>5

\* The debt of a frame is not part of where its walk stands.
LEMMA OwesForgiven ==
    ASSUME NEW f \in Frame, NEW cb, NEW g, g = [f EXCEPT !.owed = @ \ {cb}]
    PROVE  /\ g.np = f.np /\ g.current = f.current /\ g.owed = f.owed \ {cb}
           /\ \A list, obs : Owes(list, obs, g) = Owes(list, obs, f)
<1>1. /\ g.np = f.np /\ g.current = f.current /\ g.owed = f.owed \ {cb}
      /\ g.event = f.event /\ (g.running <=> f.running)
    BY DEF Frame
<1>2. \A list : Rest(list, g) = Rest(list, f)
    BY <1>1 DEF Rest
<1>3. \A list, obs : Owes(list, obs, g) = Owes(list, obs, f)
    BY <1>1, <1>2 DEF Owes
<1>4. QED BY <1>1, <1>3

\* notify_observer_remove() from inside a callback leaves every walk standing
\* and takes exactly the removed callback from the debts.
LEMMA RemoveWalks ==
    ASSUME TypeOK, ListInv, WalkInv, Disciplined,
           NEW h \in Handler, NEW cb \in Callback, Remove(h, cb)
    PROVE  WalkInv'
<1>1. PICK n \in NodesOf(h, cb) : MayRemove(n) /\ nodeObs' = [nodeObs EXCEPT ![n] = Null]
    BY DEF Remove
<1>2. n \in Nodes(h) /\ n \in Node /\ nodeObs[n] # Null /\ nodeObs[n].cb = cb
    BY DEF NodesOf, Live, Nodes, TypeOK
<1>3. stack' = Forgive(h, {cb}) /\ observers' = observers
    BY DEF Remove
<1>4. ASSUME NEW i \in DOMAIN stack
      PROVE  Sound(observers[stack'[i].current], nodeObs', stack'[i])
             /\ stack'[i].np = stack[i].np
    <2> DEFINE f == stack[i]
    <2>1. f \in Frame
        BY DEF TypeOK
    <2>2. /\ f.current \in Handler /\ observers[f.current] \in Seq(Node)
          /\ Sound(observers[f.current], nodeObs, f)
        BY <2>1 DEF Frame, WalkInv, WalksSound, TypeOK
    <2>3. stack'[i] = IF f.current = h THEN [f EXCEPT !.owed = @ \ {cb}] ELSE f
        BY <1>3 DEF Forgive
    <2> HIDE DEF f
    <2>4. CASE f.current = h
        <3>0. PICK g : g = [f EXCEPT !.owed = @ \ {cb}]
            OBVIOUS
        <3>1. /\ stack'[i] = g /\ g.np = f.np /\ g.current = h /\ g.owed = f.owed \ {cb}
              /\ Owes(observers[h], nodeObs', g) = Owes(observers[h], nodeObs', f)
            <4>1. /\ g.np = f.np /\ g.current = f.current /\ g.owed = f.owed \ {cb}
                  /\ \A list, obs : Owes(list, obs, g) = Owes(list, obs, f)
                BY <2>1, <3>0, OwesForgiven
            <4>2. QED BY <2>3, <2>4, <3>0, <4>1
        <3>2. Owes(observers[h], nodeObs', f) = Owes(observers[h], nodeObs, f) \ {cb}
            BY <1>1, <1>2, OwesWithout
        <3>3. Sound(observers[h], nodeObs', g)
            BY <2>2, <2>4, <3>1, <3>2 DEF Sound
        <3>4. QED BY <3>1, <3>3 DEF f
    <2>5. CASE f.current # h
        <3>1. n \notin Nodes(f.current)
            BY <1>2, <2>2, <2>5 DEF ListInv, ListsDisjoint
        <3>2. \A k \in DOMAIN observers[f.current] :
                 nodeObs'[observers[f.current][k]] = nodeObs[observers[f.current][k]]
            BY <1>1, <2>2, <3>1 DEF Nodes, TypeOK
        <3>3. Owes(observers[f.current], nodeObs', f) = Owes(observers[f.current], nodeObs, f)
            BY <2>2, <3>2, SameObservers
        <3>4. QED BY <2>2, <2>3, <2>5, <3>3 DEF Sound, f
    <2>6. QED BY <2>4, <2>5
<1>5. Len(stack') = Len(stack) /\ DOMAIN stack' = DOMAIN stack
    BY <1>3, ForgiveType DEF Forgive
<1>6. WalksSound'
    BY <1>3, <1>4, <1>5 DEF WalksSound
<1>7. OuterStandOnLive'
    <2>1. ASSUME NEW i \in 1 .. Len(stack) - 1 PROVE nodeObs'[stack'[i].np] # Null
        <3>1. i \in DOMAIN stack /\ stack # <<>> /\ stack[i].np \in Node /\ nodeObs[stack[i].np] # Null
            BY <2>1, OuterNodes DEF TypeOK, WalkInv, OuterStandOnLive
        <3>2. stack[i].np # n
            BY <1>1, <2>1, <3>1 DEF MayRemove, Standing
        <3>3. QED BY <1>1, <1>4, <3>1, <3>2 DEF TypeOK
    <2>2. QED BY <1>5, <2>1 DEF OuterStandOnLive
<1>8. QED BY <1>6, <1>7 DEF WalkInv

\* Emptying the list of a handler that nobody walks touches no walk.
LEMMA RemoveAllWalks ==
    ASSUME TypeOK, ListInv, WalkInv, NEW h \in Handler, RemoveAll(h)
    PROVE  WalkInv'
<1>1. /\ stack' = stack
      /\ \A g \in Handler : g # h => observers'[g] = observers[g]
      /\ \A i \in DOMAIN stack : stack[i].current # h
    BY DEF RemoveAll, MayFree, TypeOK
<1>2. ASSUME NEW g \in Handler, g # h, NEW k \in DOMAIN observers[g]
      PROVE  nodeObs'[observers[g][k]] = nodeObs[observers[g][k]]
    <2>1. observers[g][k] \in Node /\ observers[g][k] \notin Nodes(h)
        <3>1. observers[g][k] \in Node /\ observers[g][k] \in Nodes(g)
            BY DEF TypeOK, Nodes
        <3>2. Nodes(g) \cap Nodes(h) = {}
            BY <1>2 DEF ListInv, ListsDisjoint
        <3>3. QED BY <3>1, <3>2
    <2>2. QED BY <2>1 DEF RemoveAll
<1>3. ASSUME NEW i \in DOMAIN stack
      PROVE  /\ Sound(observers'[stack[i].current], nodeObs', stack[i])
             /\ stack[i].np # Null => nodeObs'[stack[i].np] = nodeObs[stack[i].np]
    <2>1. stack[i] \in Frame
        BY DEF TypeOK
    <2>2. PICK g \in Handler : g = stack[i].current /\ g # h
        BY <1>1, <2>1 DEF Frame
    <2>3. Sound(observers[g], nodeObs, stack[i])
        BY <2>2 DEF WalkInv, WalksSound
    <2>4. observers[g] \in Seq(Node) /\ observers'[g] = observers[g]
        BY <1>1, <2>2 DEF TypeOK
    <2>5. Owes(observers[g], nodeObs', stack[i]) = Owes(observers[g], nodeObs, stack[i])
        BY <1>2, <2>2, <2>4, SameObservers
    <2>6. QED BY <1>2, <2>2, <2>3, <2>4, <2>5 DEF Sound
<1>4. WalksSound'
    BY <1>1, <1>3 DEF WalksSound
<1>5. OuterStandOnLive'
    <2>1. \A i \in 1 .. Len(stack) - 1 : i \in DOMAIN stack /\ stack[i].np # Null
        BY OuterNodes, NotifyAssumption DEF TypeOK
    <2>2. QED BY <1>1, <1>3, <2>1 DEF WalkInv, OuterStandOnLive
<1>6. QED BY <1>4, <1>5 DEF WalkInv

\* With observers that keep to the contract, every walk stays sound.
LEMMA Walks ==
    ASSUME Disciplined
    PROVE  Spec => []WalkInv
<1>1. Init => WalkInv
    BY DEF Init, WalkInv, WalksSound, OuterStandOnLive
<1>2. TypeOK /\ ListInv /\ ListInv' /\ WalkInv /\ [Next]_vars => WalkInv'
    <2> SUFFICES ASSUME TypeOK, ListInv, ListInv', WalkInv, [Next]_vars PROVE WalkInv'
        OBVIOUS
    <2>1. ASSUME NEW h \in Handler, NEW event \in Type, Send(h, event) PROVE WalkInv'
        BY <2>1, SendWalks
    <2>2. CASE Skip
        BY <2>2, SkipWalks
    <2>3. CASE Call
        BY <2>3, CallWalks
    <2>4. CASE Return
        BY <2>4, ReturnWalks
    <2>5. CASE Propagate
        BY <2>5, PropagateWalks
    <2>6. CASE CollectGarbage
        BY <2>6, CollectGarbageWalks
    <2>7. ASSUME NEW h \in Handler, NEW cb \in Callback, NEW type \in Type \cup {NT_ALL},
                 Add(h, cb, type)
          PROVE  WalkInv'
        BY <2>7, AddWalks
    <2>8. ASSUME NEW h \in Handler, NEW cb \in Callback, Remove(h, cb) PROVE WalkInv'
        BY <2>8, RemoveWalks
    <2>9. ASSUME NEW h \in Handler, RemoveAll(h) PROVE WalkInv'
        BY <2>9, RemoveAllWalks
    <2>10. CASE UNCHANGED <<observers, nodeObs, stack>>
        BY <2>10 DEF WalkInv, WalksSound, OuterStandOnLive
    <2>11. QED
        BY <2>1, <2>2, <2>3, <2>4, <2>5, <2>6, <2>7, <2>8, <2>9, <2>10 DEF Next, vars, SetParent
<1>3. QED BY <1>1, <1>2, Typing, Lists, PTL DEF Spec

\* send() never stands on a freed node, for every depth of nesting: the dead
\* nodes that a nested send() frees are never the place of an outer walk.
THEOREM WalksOnAllocated ==
    ASSUME Disciplined
    PROVE  Spec => []WalksAllocatedNodes
<1>1. WalkInv => WalksAllocatedNodes
    BY DEF WalkInv, WalksSound, Sound, WalksAllocatedNodes, Nodes
<1>2. QED BY <1>1, Walks, PTL

\* When the walk of a list ends, every matching observer that was there when it
\* began, and has not been removed since, has been called.
THEOREM EveryoneCalled ==
    ASSUME Disciplined
    PROVE  Spec => []EveryObserverCalled
<1>1. ASSUME TypeOK, WalkInv, NEW i \in DOMAIN stack, stack[i].np = Null
      PROVE  stack[i].owed = {}
    <2>1. stack[i] \in Frame
        BY <1>1 DEF TypeOK
    <2>2. PICK c \in Handler : c = stack[i].current
        BY <2>1 DEF Frame
    <2>3. observers[c] \in Seq(Node) /\ stack[i].owed = Owes(observers[c], nodeObs, stack[i])
        BY <1>1, <2>2 DEF TypeOK, WalkInv, WalksSound, Sound
    <2>4. QED BY <1>1, <2>1, <2>3, NothingOwed
<1>2. TypeOK /\ WalkInv => EveryObserverCalled
    BY <1>1 DEF EveryObserverCalled
<1>3. QED BY <1>2, Typing, Walks, PTL

\* A callback is called only when it was registered as the walk began, has not
\* been removed since, and has not been called by this walk.
THEOREM OwedAreCalled ==
    ASSUME Disciplined
    PROVE  Spec => OnlyOwedCalled
<1>1. TypeOK /\ ListInv /\ WalkInv /\ [Next]_vars => [Call => nodeObs[Top.np].cb \in Top.owed]_vars
    BY CallWalks
<1>2. QED BY <1>1, Typing, Lists, Walks, PTL DEF Spec, OnlyOwedCalled
=============================================================================
