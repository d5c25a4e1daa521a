------------------------------ MODULE Threads ------------------------------
(***************************************************************************)
(* The threads of a mailbox: mutt_sort_threads() in mutt_thread.c on the   *)
(* tree of email/thread.c, under mutt_sort_headers(), and the operations   *)
(* that have it rebuilt: deleting messages, breaking and linking threads.  *)
(*                                                                         *)
(* A node of the tree is a message, or stands for one that others refer to *)
(* and that is not there.  One round of a loop over messages, references   *)
(* or threads is one step.  The order of siblings, which the user's $sort  *)
(* decides, is left open, so children are a set.                           *)
(***************************************************************************)
EXTENDS Lists, Integers, FiniteSets, SequencesExt

CONSTANTS
    MaxEmail,   \* emails are 1..MaxEmail, numbered as they were sent
    MaxId,      \* message ids are 1..MaxId
    Worlds      \* what arrives, and what is done with it

Email == 1 .. MaxEmail
Id    == 1 .. MaxId
Null  == 0

(***************************************************************************)
(* Every header names its own id, what it replies to and refers to, the    *)
(* nearest first, and a subject, which begins with "Re:" or not.           *)
(***************************************************************************)
Header == [id : Id, irt : Seq(Id), refs : Seq(Id), subject : Nat, reply : BOOLEAN]

(***************************************************************************)
(*   headers     of the emails that arrive                                 *)
(*   user        what the user does                                        *)
(*   duplicates  $duplicate_threads, strict: $strict_threads               *)
(***************************************************************************)
ASSUME ThreadsAssumption ==
    /\ MaxEmail \in Nat \ {0} /\ MaxId \in Nat \ {0}
    /\ \A w \in Worlds :
          /\ DOMAIN w.headers \subseteq Email
          /\ \A e \in DOMAIN w.headers : w.headers[e] \in Header
          /\ w.user \subseteq {"rebuild", "delete", "break", "link"}
          /\ {w.duplicates, w.strict} \subseteq BOOLEAN

VARIABLES
    world,      \* one of Worlds, chosen at the start
    index,      \* m->emails
    header,     \* email -> its envelope
    thread,     \* email -> e->thread
    threaded,   \* emails that have been threaded by references
    changed,    \* emails with subject_changed
    hash,       \* tctx->hash: id -> the node found under it
    message,    \* node -> its email, or Null
    parent,     \* node -> its parent, Top if it is a root, or Null
    fake,       \* nodes threaded by subject
    duplicate,  \* nodes that are a second copy of their parent
    check,      \* nodes with check_subject
    subjects,   \* emails in m->subj_hash, none if there is no such table
    pc,         \* where mutt_sort_threads() is
    init,       \* it builds the tree from scratch
    pos,        \* the message it is at
    cur,        \* the node it looks for a parent for
    left,       \* the references left to follow
    todo,       \* the roots left to thread by subject
    present,    \* history: emails that have arrived and are not deleted
    apart       \* history: <<email, id>> that the user has broken apart

mailVars == <<index, header, present, apart>>
treeVars == <<thread, threaded, changed, hash, message, parent, fake, duplicate, check>>
loopVars == <<init, pos, cur, left, todo>>
vars     == <<world, mailVars, treeVars, subjects, pc, loopVars>>

\* The node made for an id, and for an email whose id is taken.
Node    == 1 .. MaxId + MaxEmail
Copy(e) == MaxId + e
Top     == MaxId + MaxEmail + 1

IdOf(e) == header[e].id

-----------------------------------------------------------------------------
(* The tree *)

Children(n) == {c \in Node : parent[c] = n}

AtOrAbove(n) ==
    LET up[k \in 0 .. Cardinality(Node)] ==
            IF k = 0 THEN {n}
            ELSE LET found == up[k - 1] IN found \cup ({parent[x] : x \in found} \cap Node)
    IN  up[Cardinality(Node)]

Below(n) == {x \in Node : n \in AtOrAbove(x)} \ {n}

Real(n)     == message[n] # Null
Attached(n) == \E x \in AtOrAbove(n) : parent[x] = Top

is_descendant(a, b) == b \in AtOrAbove(a)

\* What a walk down from n to the first messages reaches.
Heads(n) == {x \in {n} \cup Below(n) :
                Real(x) /\ \A y \in AtOrAbove(x) \ {x} : y \in {n} \cup Below(n) => ~Real(y)}

RealAbove(n) == {x \in AtOrAbove(n) \ {n} : Real(x)}

-----------------------------------------------------------------------------
(* mutt_sort_threads(): messages to nodes *)

Cleared ==               \* mutt_clear_threads()
    /\ thread' = [e \in Email |-> Null] /\ threaded' = {}
    /\ hash' = [i \in Id |-> Null]
    /\ message' = [n \in Node |-> Null] /\ parent' = [n \in Node |-> Null]
    /\ fake' = {} /\ duplicate' = {} /\ check' = {}
    /\ UNCHANGED changed

Start(rebuild) ==
    /\ pc' = "attach" /\ pos' = 1
    /\ init' = (rebuild \/ threaded = {})
    /\ IF rebuild THEN Cleared ELSE UNCHANGED treeVars
    /\ UNCHANGED <<cur, left, todo>>

Sort(rebuild) ==
    /\ pc = "idle" /\ index # <<>>
    /\ rebuild => "rebuild" \in world.user
    /\ Start(rebuild)
    /\ \/ UNCHANGED subjects
       \/ rebuild /\ subjects' = {}          \* mview_update()
    /\ UNCHANGED <<world, index, header, present, apart>>

\* mutt_sort_headers() of an empty mailbox returns at once.
SortNothing == pc = "idle" /\ index = <<>> /\ UNCHANGED vars

This == index[pos]
Each(l) == pc = l /\ pos <= Len(index)
NextEach == pos' = pos + 1 /\ UNCHANGED <<pc, init, cur, left, todo>>

Kept == UNCHANGED <<world, mailVars, subjects>>

Found == IF ~init \/ world.duplicates THEN hash[IdOf(This)] ELSE Null

\* "unlink pseudo-threads because they might be children of newly arrived
\* messages"
ReleasePseudo ==
    /\ Each("attach") /\ thread[This] # Null
    /\ LET released == Children(thread[This]) \cap fake IN
          /\ parent' = [n \in Node |-> IF n \in released THEN Top ELSE parent[n]]
          /\ fake' = fake \ released
    /\ NextEach
    /\ Kept /\ UNCHANGED <<thread, threaded, changed, hash, message, duplicate, check>>

\* A node is detached, and the nodes above it that are left without a child
\* and a message.
Bare(n) == ~Real(n) /\ Cardinality(Children(n)) = 1

\* Mutation: what its children said about the node still holds.
StaysAttached(n) == {}

\* Mutation: nodes above stay, though they have become empty.
DetachedAlone(n) == {n}

Detached(n) ==
    {x \in AtOrAbove(n) : \A y \in AtOrAbove(n) \ {n} : x \in AtOrAbove(y) => Bare(y)}

FillMissing ==           \* "this is a message which was missing before"
    /\ Each("attach") /\ thread[This] = Null
    /\ Found # Null /\ ~Real(Found)
    /\ message' = [message EXCEPT ![Found] = This]
    /\ thread' = [thread EXCEPT ![This] = Found]
    /\ check' = check \cup {Found} \cup UNION {Heads(c) : c \in Children(Found)}
    /\ parent' = [n \in Node |-> IF n \in Detached(Found) THEN Null ELSE parent[n]]
    /\ fake' = fake \ Detached(Found)
    /\ NextEach
    /\ Kept /\ UNCHANGED <<threaded, changed, hash, duplicate>>

NewNode ==
    /\ Each("attach") /\ thread[This] = Null
    /\ Found \in Node => Real(Found)
    /\ LET n    == IF hash[IdOf(This)] = Null THEN IdOf(This) ELSE Copy(This)
           twin == IF world.duplicates /\ Found # Null
                   THEN IF Found \in duplicate THEN parent[Found] ELSE Found
                   ELSE Null
       IN  /\ message' = [message EXCEPT ![n] = This]
           /\ thread' = [thread EXCEPT ![This] = n]
           /\ hash' = [hash EXCEPT ![IdOf(This)] = n]
           /\ parent' = [parent EXCEPT ![n] = twin]
           /\ check' = check \cup {n}
           /\ duplicate' = IF twin = Null THEN duplicate ELSE duplicate \cup {n}
           /\ threaded' = IF twin = Null THEN threaded ELSE threaded \cup {This}
    /\ NextEach
    /\ Kept /\ UNCHANGED <<changed, fake>>

AllAttached ==
    /\ pc = "attach" /\ pos > Len(index)
    /\ pc' = "refs" /\ pos' = 1
    /\ Kept /\ UNCHANGED <<treeVars, init, cur, left, todo>>

-----------------------------------------------------------------------------
(* Threading by references *)

\* In-Reply-To first, then References, but not the same id twice.
Candidates(h) ==
    CASE h.irt = <<>>  -> h.refs
      [] h.refs = <<>> -> h.irt
      [] OTHER         -> <<h.irt[1]>> \o (IF h.irt[1] = h.refs[1] THEN Tail(h.refs) ELSE h.refs)

AlreadyThreaded ==
    /\ Each("refs") /\ This \in threaded
    /\ NextEach
    /\ Kept /\ UNCHANGED treeVars

Begin ==
    /\ Each("refs") /\ This \notin threaded
    /\ threaded' = threaded \cup {This}
    /\ pc' = "follow" /\ cur' = thread[This] /\ left' = Candidates(header[This])
    /\ Kept /\ UNCHANGED <<thread, changed, hash, message, parent, fake, duplicate, check,
                           init, pos, todo>>

Target(h) == IF h \in duplicate THEN parent[h] ELSE h

Following == pc = "follow" /\ left # <<>>

\* Mutation: a message that is already below is made the parent.
NamesItself == hash[Head(left)] # Null /\ Target(hash[Head(left)]) = cur

InLoop == hash[Head(left)] # Null /\ is_descendant(Target(hash[Head(left)]), cur)

NoLoops ==
    /\ Following /\ InLoop
    /\ left' = Tail(left)
    /\ Kept /\ UNCHANGED <<treeVars, pc, init, pos, cur, todo>>

\* Mutation: one message decides what another is a reply to.
StopsAtThread(n) == parent[n] \notin {Null, Top}

Stops(n) == Real(n) \/ parent[n] \notin {Null, Top}

Done == pc' = "refs" /\ pos' = pos + 1 /\ cur' = Null /\ left' = <<>>

Follow ==
    /\ Following /\ ~InLoop
    /\ LET known == hash[Head(left)]
           n     == IF known = Null THEN Head(left) ELSE Target(known)
       IN  /\ hash' = IF known = Null THEN [hash EXCEPT ![n] = n] ELSE hash
           /\ parent' = IF Stops(n) /\ parent[n] = Null
                        THEN [parent EXCEPT ![cur] = n, ![n] = Top]
                        ELSE [parent EXCEPT ![cur] = n]
           /\ IF Stops(n) THEN Done ELSE cur' = n /\ left' = Tail(left) /\ UNCHANGED <<pc, pos>>
    /\ Kept /\ UNCHANGED <<thread, threaded, changed, message, fake, duplicate, check, init, todo>>

NoMoreReferences ==
    /\ pc = "follow" /\ left = <<>>
    /\ parent' = IF parent[cur] = Null THEN [parent EXCEPT ![cur] = Top] ELSE parent
    /\ Done
    /\ Kept /\ UNCHANGED <<thread, threaded, changed, hash, message, fake, duplicate, check,
                           init, todo>>

-----------------------------------------------------------------------------
(* check_subjects(), pseudo_threads() *)

Roots == {n \in Node : parent[n] = Top}

\* The subject is not that of the nearest message above.
Differs(e) ==
    \A x \in RealAbove(thread[e]) :
        RealAbove(thread[e]) \subseteq AtOrAbove(x) =>
            header[message[x]].subject # header[e].subject

CheckSubjects ==
    /\ pc = "refs" /\ pos > Len(index)
    /\ LET examined == {e \in ToSet(index) : init \/ thread[e] \in check}
       IN  changed' = (changed \ examined) \cup {e \in examined : Differs(e)}
    /\ check' = {}
    /\ subjects' = IF ~world.strict /\ subjects = {} THEN ToSet(index) ELSE subjects
    /\ pc' = "pseudo" /\ todo' = IF world.strict THEN {} ELSE Roots
    /\ UNCHANGED <<world, mailVars, thread, threaded, hash, message, parent, fake, duplicate,
                           init, pos, cur, left>>

\* find_subject(): the messages with the subject of a reply in the thread r,
\* sent before it, and of those the latest.
Replies(r) == {e \in {message[x] : x \in Heads(r)} : header[e].reply}
Sent(r)    == Min({message[x] : x \in Heads(r)})

\* Mutation: the thread itself is searched for a parent as well.
MatchesAnywhere(r) ==
    {e \in changed \cap subjects :
        /\ thread[e] # r /\ thread[e] \notin fake
        /\ \E f \in Replies(r) : header[f].subject = header[e].subject}

Matches(r) ==
    {e \in changed \cap subjects :
        /\ thread[e] # r /\ thread[e] \notin fake
        /\ ~is_descendant(thread[e], r)
        /\ e <= Sent(r)
        /\ \E f \in Replies(r) : header[f].subject = header[e].subject}

NoParent(r) ==
    /\ pc = "pseudo" /\ r \in todo /\ Matches(r) = {}
    /\ todo' = todo \ {r}
    /\ Kept /\ UNCHANGED <<treeVars, pc, init, pos, cur, left>>

\* Pseudo-children of what is attached are attached to its parent.
Pseudo(r) ==
    /\ pc = "pseudo" /\ r \in todo /\ Matches(r) # {}
    /\ LET e    == Max(Matches(r))
           same == {x \in Heads(r) : x = r \/ header[message[x]].subject = header[e].subject}
           up   == {r} \cup {c \in fake : parent[c] \in same}
       IN  /\ parent' = [n \in Node |-> IF n \in up THEN thread[e] ELSE parent[n]]
           /\ changed' = changed \ {message[x] : x \in same}
    /\ fake' = fake \cup {r}
    /\ todo' = todo \ {r}
    /\ Kept /\ UNCHANGED <<thread, threaded, hash, message, duplicate, check,
                           pc, init, pos, cur, left>>

\* linearize_tree(): a thread is listed in one piece, from the top.
Listed == {n \in Node : Real(n) /\ Attached(n)}

InTreeOrder(s, tree) ==
    \A n \in DOMAIN tree :
        LET at == {i \in DOMAIN s : thread[s[i]] \in tree[n]}
        IN  /\ at # {} => at = Min(at) .. Max(at)
            /\ Real(n) => s[Min(at)] = message[n]

Linearize ==
    /\ pc = "pseudo" /\ todo = {}
    /\ LET tree == [n \in {x \in Node : Attached(x)} |-> {n} \cup Below(n)] IN
          \E s \in SetToSeqs({message[n] : n \in Listed}) :
              /\ InTreeOrder(s, tree)
              /\ index' = s
    /\ pc' = "idle" /\ init' = FALSE /\ pos' = 1
    /\ UNCHANGED <<world, header, present, apart, treeVars, subjects, cur, left, todo>>

-----------------------------------------------------------------------------
(* What happens to the mailbox between sorts *)

Arrive(e) ==
    /\ pc = "idle" /\ e \in DOMAIN world.headers \ DOMAIN header
    /\ index' = Append(index, e)
    /\ header' = [f \in DOMAIN header \cup {e} |->
                     IF f = e THEN world.headers[e] ELSE header[f]]
    /\ present' = present \cup {e}
    /\ apart' = {}
    /\ UNCHANGED <<world, treeVars, subjects, pc, loopVars>>

May(what) == what \in world.user /\ pc = "idle" /\ ToSet(index) \subseteq threaded

\* mview_update() after a message has gone
Delete(e) ==
    /\ May("delete") /\ e \in ToSet(index)
    /\ index' = AtPlaces(index, {i \in DOMAIN index : index[i] # e})
    /\ present' = present \ {e}
    /\ IF Len(index) > 1 THEN Start(TRUE) ELSE Cleared /\ UNCHANGED <<pc, loopVars>>
    /\ subjects' = {}
    /\ UNCHANGED <<world, header, apart>>

\* clean_references() looks at siblings in their order, down to the first
\* that has no message.
Reached(n, set) ==
    \A p \in {n} \cup Below(n) :
        LET here == Children(p) \cap set IN
        IF p \notin {n} \cup set THEN here = {}
        ELSE IF \A c \in Children(p) : Real(c) THEN here = Children(p)
        ELSE Cardinality({c \in here : ~Real(c)}) = 1

\* The ids of the messages at or above n.
IdsAbove(n) == {IdOf(message[x]) : x \in {y \in AtOrAbove(n) : Real(y)}}

\* Mutation: the reference after the one to the broken message is left.
CutLate(refs, n) ==
    LET at == {i \in DOMAIN refs : refs[i] \in IdsAbove(n)}
    IN  IF at = {} THEN refs ELSE SubSeq(refs, 1, Min({Len(refs), Min(at) + 1}))

\* References end at the nearest of the messages at or above n.
Cut(refs, n) ==
    LET first(i)    == \E k \in DOMAIN refs : refs[k] = i
        nearest     == {x \in AtOrAbove(n) : Real(x) /\ first(IdOf(message[x]))}
        upTo        == {x \in nearest : nearest \subseteq AtOrAbove(x)}
    IN  IF upTo = {} THEN refs
        ELSE LET x == CHOOSE y \in upTo : TRUE
             IN  SubSeq(refs, 1, Min({k \in DOMAIN refs : refs[k] = IdOf(message[x])}))

\* mutt_break_thread(); the message e then replies to irt.
Broken(e, irt) ==
    \E set \in SUBSET Below(thread[e]) :
        /\ Reached(thread[e], set)
        /\ header' = [f \in DOMAIN header |->
               IF f = e THEN [header[f] EXCEPT !.irt = irt, !.refs = <<>>]
               ELSE IF f \in ToSet(index) /\ thread[f] \in set
               THEN [header[f] EXCEPT !.refs = Cut(@, thread[e])]
               ELSE header[f]]

Beneath(e) == {f \in ToSet(index) : is_descendant(thread[f], thread[e])}

Break(e) ==
    /\ May("break") /\ e \in ToSet(index)
    /\ header[e].irt # <<>> \/ header[e].refs # <<>>
    /\ Broken(e, <<>>)
    /\ apart' = apart \cup Beneath(e) \X {IdOf(message[x]) : x \in RealAbove(thread[e])}
    /\ Start(TRUE)
    /\ UNCHANGED <<world, index, present, subjects>>

Link(e, f) ==            \* link_threads() of the parent e and the child f
    /\ May("link") /\ {e, f} \subseteq ToSet(index) /\ e # f
    /\ Broken(f, <<IdOf(e)>>)
    /\ apart' = {}
    /\ Start(TRUE)
    /\ UNCHANGED <<world, index, present, subjects>>

-----------------------------------------------------------------------------

Init ==
    /\ world \in Worlds
    /\ index = <<>> /\ header = <<>> /\ present = {} /\ apart = {}
    /\ thread = [e \in Email |-> Null] /\ threaded = {} /\ changed = {}
    /\ hash = [i \in Id |-> Null]
    /\ message = [n \in Node |-> Null] /\ parent = [n \in Node |-> Null]
    /\ fake = {} /\ duplicate = {} /\ check = {} /\ subjects = {}
    /\ pc = "idle" /\ init = FALSE /\ pos = 1 /\ cur = Null /\ left = <<>> /\ todo = {}

Sorting ==
    \/ ReleasePseudo \/ FillMissing \/ NewNode \/ AllAttached
    \/ AlreadyThreaded \/ Begin \/ NoLoops \/ Follow \/ NoMoreReferences
    \/ CheckSubjects \/ Linearize
    \/ \E r \in todo : NoParent(r) \/ Pseudo(r)

User ==
    \/ SortNothing \/ \E rebuild \in BOOLEAN : Sort(rebuild)
    \/ \E e \in Email : Delete(e) \/ Break(e) \/ \E f \in Email : Link(e, f)

Next == Sorting \/ User \/ \E e \in Email : Arrive(e)

Spec == Init /\ [][Next]_vars

-----------------------------------------------------------------------------
(* Properties *)

TypeOK ==
    /\ ToSet(index) \subseteq Email /\ present \subseteq Email
    /\ DOMAIN header \subseteq Email /\ \A e \in DOMAIN header : header[e] \in Header
    /\ thread \in [Email -> Node \cup {Null}]
    /\ threaded \subseteq Email /\ changed \subseteq Email
    /\ hash \in [Id -> Node \cup {Null}] /\ message \in [Node -> Email \cup {Null}]
    /\ parent \in [Node -> Node \cup {Null, Top}]
    /\ fake \subseteq Node /\ duplicate \subseteq Node /\ check \subseteq Node
    /\ subjects \subseteq Email
    /\ pc \in {"idle", "attach", "refs", "follow", "pseudo"}
    /\ init \in BOOLEAN /\ pos \in 1 .. MaxEmail + 1
    /\ cur \in Node \cup {Null} /\ left \in Seq(Id) /\ todo \subseteq Node
    /\ apart \subseteq Email \X Id

\* "no loops!" (mutt_sort_threads()): every walk up the tree ends.
NoCycle == \A n \in Node : parent[n] \in Node => n \notin AtOrAbove(parent[n])

\* "If it has no children, it must be real" (mutt_sort_subthreads()): every
\* walk down the tree ends at a message.  Six loops step from a node without a
\* message to its child unchecked.
EmptyHaveChildren == \A n \in Node : ~Real(n) /\ Children(n) = {} => ~Attached(n)

\* Whatever node a parent is looked for hangs at the top, if anywhere:
\* unlink_message(&top.child, thread) is told that it is there.
UnlinksFromTop == pc = "follow" => parent[cur] \in {Null, Top}

\* Sorting neither loses a message nor lists it twice, and removes none that
\* it does not see.
AllListed ==
    pc = "idle" => ToSet(index) = present /\ Len(index) = Cardinality(present)

NodeId(n) == IF n \in Id THEN n ELSE IdOf(message[n])

\* The headers of the messages there have been name their ancestors in an
\* order that they agree on.
Consistent ==
    \E rank \in [Id -> Id] : \A e \in DOMAIN header :
        LET path == <<IdOf(e)>> \o Candidates(header[e])
        IN  \A i \in 1 .. Len(path) - 1 : rank[path[i]] < rank[path[i + 1]]

\* A message is where its own header puts it, whatever the messages that came
\* before it have said about its place: under a message it names itself, and
\* when the headers agree under the first of them.
OwnHeaderDecides ==
    pc = "idle" => \A e \in ToSet(index) \cap threaded :
        LET n     == thread[e]
            names == Candidates(header[e])
            under == {i \in DOMAIN names : NodeId(parent[n]) = names[i]}
        IN  n \notin duplicate =>
                IF parent[n] = Top \/ n \in fake
                THEN names = <<>> \/ ~Consistent
                ELSE under # {} /\ (1 \in under \/ ~Consistent)

\* What the user breaks off does not come back under what it was broken from,
\* when the message at which it was broken is deleted neither.
BrokenStayApart ==
    pc = "idle" => \A p \in apart : p[1] \in ToSet(index) =>
        \A x \in RealAbove(thread[p[1]]) : IdOf(message[x]) # p[2]
=============================================================================
