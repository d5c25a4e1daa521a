---------------------------- MODULE ThreadsProofs ----------------------------
(***************************************************************************)
(* That the tree of threads is a tree, for any number of messages, any     *)
(* headers and whatever the user does:                                     *)
(*   WalksEnd         every walk up ends (NoCycle);                        *)
(*   EmptyHaveSome    every walk down ends at a message;                   *)
(*   TopUnlinked      who looks for a parent hangs at the top, if anywhere;*)
(*   EveryoneListed   no message is lost or listed twice;                  *)
(*   HeaderDecides    a message is where its own header puts it.           *)
(*                                                                         *)
(* A tree without cycles is one in which no set of nodes has all their     *)
(* parents in itself (Acyclic).  The other parts of TreeInv say of each    *)
(* kind of node what its parent may be: of one that is not in use (Unmade), *)
(* one without a message and child (Emptied), one that stands for a second *)
(* copy (Copies), one whose message has not looked for its parent yet      *)
(* (Waiting), one that has none (Orphans), and the one that a parent is    *)
(* looked for now (Looking).                                               *)
(*                                                                         *)
(* That the headers decide takes one more invariant (PlacesInv), with an   *)
(* order of the ids that they agree with: it grows along every way up the  *)
(* tree (Ranked), so that no reference leads back to who follows it.       *)
(***************************************************************************)
EXTENDS Threads, ListsProofs

-----------------------------------------------------------------------------
(* The invariant *)

MailTypes ==
    /\ world \in Worlds
    /\ index \in Seq(Email) /\ ToSet(index) = present
    /\ \A i, j \in DOMAIN index : index[i] = index[j] => i = j
    /\ present \subseteq DOMAIN header /\ DOMAIN header \subseteq Email
    /\ \A e \in DOMAIN header : header[e] \in Header

TreeTypes ==
    /\ thread \in [Email -> Node \cup {Null}] /\ hash \in [Id -> Node \cup {Null}]
    /\ message \in [Node -> Email \cup {Null}] /\ parent \in [Node -> Node \cup {Null, Top}]
    /\ threaded \subseteq Email /\ changed \subseteq Email
    /\ fake \subseteq Node /\ duplicate \subseteq Node /\ check \subseteq Node

LoopTypes ==
    /\ pc \in {"idle", "attach", "refs", "follow", "pseudo"}
    /\ pos \in Nat \ {0} /\ init \in BOOLEAN
    /\ left \in Seq(Id) /\ todo \subseteq Node
    /\ cur \in Node \cup {Null} /\ (pc # "follow" => cur = Null)
    /\ pc # "pseudo" => todo = {}

\* Messages and nodes point at each other, and every node with a message
\* belongs to one of the mailbox.
Nodes ==
    /\ \A e \in Email : thread[e] # Null => message[thread[e]] = e /\ e \in ToSet(index)
    /\ \A n \in Node : message[n] # Null => thread[message[n]] = n
    /\ \A n \in Node \ Id : message[n] \in {Null, n - MaxId}
    /\ subjects \subseteq ToSet(index) /\ \A e \in threaded : thread[e] # Null

\* How far the loops over the messages have come.
Progress ==
    /\ pc = "attach" => \A i \in DOMAIN index : i < pos => thread[index[i]] # Null
    /\ pc \in {"refs", "follow", "pseudo"} => \A i \in DOMAIN index : thread[index[i]] # Null
    /\ pc = "refs" => \A i \in DOMAIN index : i < pos => index[i] \in threaded
    /\ pc = "follow" => pos \in DOMAIN index /\ \A i \in DOMAIN index : i <= pos => index[i] \in threaded
    /\ pc = "pseudo" => ToSet(index) \subseteq threaded

\* A node for an id that nobody has used, or for a copy that is not made.
Unused(n) == IF n \in Id THEN hash[n] = Null ELSE message[n] = Null

Unmade ==
    \A n \in Node : Unused(n) =>
        /\ message[n] = Null /\ parent[n] = Null /\ n # cur /\ n \notin fake
        /\ \A x \in Node : parent[x] # n
        /\ \A i \in Id : hash[i] # n

\* Of every set of nodes one has its parent outside.
Acyclic == \A S \in SUBSET Node : S # {} => \E x \in S : parent[x] \notin S

Childless(n) == \A x \in Node : parent[x] # n

Emptied == \A n \in Node : ~Real(n) /\ Childless(n) => parent[n] = Null

Copies == \A n \in duplicate : Real(n) /\ parent[n] \in Node /\ n \notin fake /\ message[n] \in threaded

\* A message that is not threaded.
Waits(n) == Real(n) /\ message[n] \notin threaded

Waiting == \A n \in Node : Waits(n) => parent[n] \in {Null, Top}

Orphans == \A n \in Node : parent[n] = Null /\ n # cur => Waits(n) \/ (~Real(n) /\ Childless(n))

\* The node that looks for its parent, and the threads that do.
Looking ==
    /\ pc = "follow" =>
          /\ cur \in Node /\ parent[cur] \in {Null, Top} /\ ~Waits(cur)
          /\ Real(cur) \/ ~Childless(cur)
    /\ \A r \in todo : parent[r] = Top

TreeInv == Nodes /\ Unmade /\ Acyclic /\ Emptied /\ Copies /\ Waiting /\ Orphans /\ Looking

ThreadsInv == MailTypes /\ TreeTypes /\ LoopTypes /\ Progress /\ TreeInv
-----------------------------------------------------------------------------
(* Walks up the tree *)

ParentTypes == parent \in [Node -> Node \cup {Null, Top}]

LEMMA NodesAre ==
    /\ Node \subseteq Nat /\ Null \notin Node /\ Top \notin Node /\ Null # Top
    /\ Id \subseteq Node /\ IsFiniteSet(Node) /\ Cardinality(Node) \in Nat
    /\ \A e \in Email : Copy(e) \in Node \ Id /\ Copy(e) - MaxId = e
    /\ \A n \in Node \ Id : n - MaxId \in Email /\ Copy(n - MaxId) = n
<1> USE ThreadsAssumption
<1>1. MaxId + MaxEmail \in Nat
    OBVIOUS
<1>2. IsFiniteSet(Node) /\ Cardinality(Node) \in Nat
    BY <1>1, FS_Interval, FS_CardinalityType DEF Node
<1>3. QED BY <1>2 DEF Node, Null, Top, Id, Copy, Email

\* One round of the definition of AtOrAbove().
UpFrom(n, g, k) ==
    [i \in 0 .. k |-> IF i = 0 THEN {n} ELSE g[i - 1] \cup ({parent[x] : x \in g[i - 1]} \cap Node)]

\* The rounds of AtOrAbove(n), one after the other.
LEMMA Rounds ==
    ASSUME NEW n
    PROVE  \E up : /\ AtOrAbove(n) = up[Cardinality(Node)] /\ up[0] = {n}
                   /\ \A k \in 0 .. Cardinality(Node) - 1 :
                         up[k + 1] = up[k] \cup ({parent[x] : x \in up[k]} \cap Node)
<1> DEFINE K == Cardinality(Node)
<1> DEFINE D == {k \in Nat : \E g : g = UpFrom(n, g, k)}
<1>0. K \in Nat
    BY NodesAre
<1>1. K \in D
    <2>1. 0 \in D
        <3>1. [i \in 0 .. 0 |-> {n}] = UpFrom(n, [i \in 0 .. 0 |-> {n}], 0)
            BY DEF UpFrom
        <3>2. QED BY <3>1
    <2>2. ASSUME NEW k \in Nat, k \in D PROVE k + 1 \in D
        <3>1. PICK g : g = UpFrom(n, g, k)
            BY <2>2
        <3> DEFINE h == [i \in 0 .. k + 1 |-> IF i = k + 1 THEN g[k] \cup ({parent[x] : x \in g[k]} \cap Node)
                                              ELSE g[i]]
        <3>2. h = UpFrom(n, h, k + 1)
            <4>1. \A i \in 0 .. k : g[i] = UpFrom(n, g, k)[i]
                BY <3>1
            <4>2. ASSUME NEW i \in 0 .. k + 1 PROVE h[i] = UpFrom(n, h, k + 1)[i]
                <5>1. UpFrom(n, h, k + 1)[i] =
                         IF i = 0 THEN {n} ELSE h[i - 1] \cup ({parent[x] : x \in h[i - 1]} \cap Node)
                    BY DEF UpFrom
                <5>2. i # 0 => i - 1 \in 0 .. k /\ h[i - 1] = g[i - 1]
                    OBVIOUS
                <5>3. CASE i = k + 1
                    <6>1. i # 0 /\ i - 1 = k /\ h[i] = g[k] \cup ({parent[x] : x \in g[k]} \cap Node)
                        BY <5>3
                    <6>2. QED BY ONLY <5>1, <5>2, <6>1
                <5>4. CASE i # k + 1
                    <6>1. i \in 0 .. k /\ h[i] = g[i]
                        BY <5>4
                    <6>2. g[i] = IF i = 0 THEN {n} ELSE g[i - 1] \cup ({parent[x] : x \in g[i - 1]} \cap Node)
                        BY <4>1, <6>1 DEF UpFrom
                    <6>3. QED BY ONLY <5>1, <5>2, <6>1, <6>2
                <5>5. QED BY <5>3, <5>4
            <4>3. QED BY <4>2 DEF UpFrom
        <3>3. QED BY <3>2
    <2> HIDE DEF D
    <2>3. QED BY <1>0, <2>1, <2>2, NatSetInduction
<1> DEFINE up == CHOOSE g : g = UpFrom(n, g, K)
<1>2. AtOrAbove(n) = up[K]
    BY DEF AtOrAbove, UpFrom
<1>3. up = UpFrom(n, up, K)
    BY <1>1
<1> HIDE DEF up
<1>4. up[0] = {n}
    BY <1>0, <1>3 DEF UpFrom
<1>5. ASSUME NEW k \in 0 .. K - 1
      PROVE  up[k + 1] = up[k] \cup ({parent[x] : x \in up[k]} \cap Node)
    <2>1. up[k + 1] = UpFrom(n, up, K)[k + 1]
        BY <1>3
    <2>2. k + 1 \in 0 .. K /\ k + 1 # 0 /\ (k + 1) - 1 = k
        BY <1>0
    <2>3. UpFrom(n, up, K)[k + 1] = up[(k + 1) - 1] \cup ({parent[x] : x \in up[(k + 1) - 1]} \cap Node)
        BY <2>2 DEF UpFrom
    <2>4. QED BY <2>1, <2>2, <2>3
<1>6. QED BY <1>2, <1>4, <1>5

\* The parents of S are in S.
Upward(S) == \A x \in S : parent[x] \in Node => parent[x] \in S

\* AtOrAbove(n) is the least set with n and the parents of its elements: after
\* as many rounds as there are nodes nothing is left to be found.
LEMMA AboveIs ==
    ASSUME NEW n \in Node
    PROVE  /\ n \in AtOrAbove(n) /\ AtOrAbove(n) \subseteq Node /\ Upward(AtOrAbove(n))
           /\ \A S \in SUBSET Node : n \in S /\ Upward(S) => AtOrAbove(n) \subseteq S
<1> DEFINE K == Cardinality(Node)
<1>1. PICK up : /\ AtOrAbove(n) = up[K] /\ up[0] = {n}
                /\ \A k \in 0 .. K - 1 : up[k + 1] = up[k] \cup ({parent[x] : x \in up[k]} \cap Node)
    BY Rounds
<1>2. K \in Nat /\ IsFiniteSet(Node)
    BY NodesAre
<1> DEFINE T == {k \in Nat : k <= K =>
                    /\ n \in up[k] /\ up[k] \subseteq Node
                    /\ Upward(up[k]) \/ Cardinality(up[k]) > k
                    /\ \A S \in SUBSET Node : n \in S /\ Upward(S) => up[k] \subseteq S}
<1>3. 0 \in T
    <2>1. Cardinality({n}) = 1
        BY FS_Singleton, Zenon
    <2>2. up[0] = {n} /\ Cardinality(up[0]) > 0
        BY <1>1, <2>1
    <2>3. QED BY <1>1, <2>2
<1>4. ASSUME NEW k \in Nat, k \in T PROVE k + 1 \in T
    <2> SUFFICES ASSUME k + 1 <= K PROVE k + 1 \in T
        OBVIOUS
    <2>1. k \in 0 .. K - 1
        BY <1>2
    <2>2. up[k + 1] = up[k] \cup ({parent[x] : x \in up[k]} \cap Node)
        BY <1>1, <2>1
    <2>3. n \in up[k] /\ up[k] \subseteq Node /\ (Upward(up[k]) \/ Cardinality(up[k]) > k)
        BY <1>2, <1>4
    <2>4. n \in up[k + 1] /\ up[k + 1] \subseteq Node
        BY <2>2, <2>3
    <2>5. ASSUME NEW S \in SUBSET Node, n \in S, Upward(S) PROVE up[k + 1] \subseteq S
        <3>1. up[k] \subseteq S
            BY <1>2, <1>4, <2>5
        <3>2. QED BY <2>2, <2>5, <3>1 DEF Upward
    <2>6. Upward(up[k + 1]) \/ Cardinality(up[k + 1]) > k + 1
        <3>1. CASE up[k + 1] = up[k]
            BY <2>2, <3>1 DEF Upward
        <3>2. CASE up[k + 1] # up[k]
            <4>1. ~Upward(up[k])
                BY <2>2, <3>2 DEF Upward
            <4>2. Cardinality(up[k]) > k
                BY <2>3, <4>1
            <4>3. IsFiniteSet(up[k + 1])
                BY <1>2, <2>4, FS_Subset
            <4>4. /\ Cardinality(up[k]) <= Cardinality(up[k + 1]) 
                  /\ Cardinality(up[k]) # Cardinality(up[k + 1]) /\ IsFiniteSet(up[k])
                BY <2>2, <3>2, <4>3, FS_Subset
            <4>5. Cardinality(up[k]) \in Nat /\ Cardinality(up[k + 1]) \in Nat
                BY <4>3, <4>4, FS_CardinalityType
            <4>6. QED BY <4>2, <4>4, <4>5
        <3>3. QED BY <3>1, <3>2
    <2>7. QED BY <2>4, <2>5, <2>6
<1>5. K \in T
    <2> HIDE DEF T
    <2>1. QED BY <1>2, <1>3, <1>4, NatSetInduction
<1>6. up[K] \subseteq Node /\ Cardinality(up[K]) <= K /\ Cardinality(up[K]) \in Nat
    BY <1>2, <1>5, FS_Subset, FS_CardinalityType
<1>7. QED BY <1>1, <1>2, <1>5, <1>6

\* One step of a walk.
LEMMA AboveStep ==
    ASSUME NEW n \in Node
    PROVE  AtOrAbove(n) = {n} \cup (IF parent[n] \in Node THEN AtOrAbove(parent[n]) ELSE {})
<1> DEFINE U == {n} \cup (IF parent[n] \in Node THEN AtOrAbove(parent[n]) ELSE {})
<1>1. n \in AtOrAbove(n) /\ Upward(AtOrAbove(n)) /\ AtOrAbove(n) \subseteq Node
    BY AboveIs
<1>2. CASE parent[n] \in Node
    <2>1. /\ parent[n] \in AtOrAbove(parent[n]) /\ AtOrAbove(parent[n]) \subseteq Node
          /\ Upward(AtOrAbove(parent[n]))
        BY <1>2, AboveIs
    <2>2. Upward(U) /\ U \subseteq Node
        BY <1>2, <2>1 DEF Upward
    <2>3. AtOrAbove(n) \subseteq U
        <3> HIDE DEF U
        <3>1. n \in U
            BY DEF U
        <3>2. QED BY <2>2, <3>1, AboveIs
    <2>4. AtOrAbove(parent[n]) \subseteq AtOrAbove(n)
        BY <1>1, <1>2, AboveIs DEF Upward
    <2>5. QED BY <1>1, <1>2, <2>3, <2>4
<1>3. CASE parent[n] \notin Node
    <2>1. Upward({n})
        BY <1>3 DEF Upward
    <2>2. AtOrAbove(n) \subseteq {n}
        BY <2>1, AboveIs
    <2>3. QED BY <1>1, <1>3, <2>2
<1>4. QED BY <1>2, <1>3

\* What is above a node that is above n is above n.
LEMMA AboveTransitive ==
    ASSUME NEW n \in Node, NEW m \in AtOrAbove(n)
    PROVE  m \in Node /\ AtOrAbove(m) \subseteq AtOrAbove(n)
BY AboveIs

\* Of two nodes above n one is above the other.
LEMMA AboveLinear ==
    ASSUME NEW n \in Node, NEW x \in AtOrAbove(n), NEW y \in AtOrAbove(n)
    PROVE  x \in AtOrAbove(y) \/ y \in AtOrAbove(x)
<1> DEFINE S == {m \in AtOrAbove(n) : m \in AtOrAbove(y) \/ y \in AtOrAbove(m)}
<1>1. AtOrAbove(n) \subseteq Node /\ Upward(AtOrAbove(n))
    BY AboveIs
<1>2. n \in S
    BY AboveIs
<1>3. ASSUME NEW m \in S, parent[m] \in Node PROVE parent[m] \in S
    <2>1. m \in Node /\ parent[m] \in AtOrAbove(n)
        BY <1>1, <1>3 DEF Upward
    <2>2. CASE m \in AtOrAbove(y)
        <3>1. parent[m] \in AtOrAbove(y)
            BY <1>1, <1>3, <2>2, AboveIs DEF Upward
        <3>2. QED BY <2>1, <3>1
    <2>3. CASE y \in AtOrAbove(m) /\ y # m
        <3>1. y \in AtOrAbove(parent[m])
            BY <1>3, <2>1, <2>3, AboveStep
        <3>2. QED BY <2>1, <3>1
    <2>4. CASE y = m
        <3>1. m \in AtOrAbove(y)
            BY <2>1, <2>4, AboveIs
        <3>2. QED BY <2>2, <3>1
    <2>5. QED BY <2>2, <2>3, <2>4
<1>4. AtOrAbove(n) \subseteq S
    <2>1. Upward(S) /\ S \subseteq Node
        BY <1>1, <1>3 DEF Upward
    <2> HIDE DEF S
    <2>2. QED BY <1>2, <2>1, AboveIs
<1>5. QED BY <1>4

\* Where no set holds all its parents, no node is above its parent.
LEMMA AcyclicWalks == Acyclic => NoCycle
<1> SUFFICES ASSUME Acyclic, NEW n \in Node, parent[n] \in Node, n \in AtOrAbove(parent[n])
             PROVE  FALSE
    BY DEF NoCycle
<1> DEFINE S == {x \in Node : n \in AtOrAbove(x)}
<1>1. S # {}
    OBVIOUS
<1>2. ASSUME NEW x \in S PROVE parent[x] \in S
    <2>1. CASE x = n
        BY <2>1
    <2>2. CASE x # n
        BY <2>2, AboveStep
    <2>3. QED BY <2>1, <2>2
<1>3. QED BY <1>1, <1>2 DEF Acyclic

\* Hence two nodes are not above each other.
LEMMA AboveAntisymmetric ==
    ASSUME Acyclic, NEW x \in Node, NEW y \in AtOrAbove(x), x \in AtOrAbove(y)
    PROVE  x = y
<1> SUFFICES ASSUME x # y PROVE FALSE
    OBVIOUS
<1>1. parent[x] \in Node /\ y \in AtOrAbove(parent[x])
    BY AboveStep
<1>2. AtOrAbove(y) \subseteq AtOrAbove(parent[x])
    BY <1>1, AboveTransitive
<1>3. QED BY <1>1, <1>2, AcyclicWalks DEF NoCycle

\* Every walk ends at a node without a parent.
LEMMA WalkEnds ==
    ASSUME Acyclic, NEW n \in Node
    PROVE  \E x \in AtOrAbove(n) : parent[x] \notin Node
<1>1. n \in AtOrAbove(n) /\ AtOrAbove(n) \in SUBSET Node /\ Upward(AtOrAbove(n))
    BY AboveIs
<1>2. PICK x \in AtOrAbove(n) : parent[x] \notin AtOrAbove(n)
    BY <1>1 DEF Acyclic
<1>3. QED BY <1>1, <1>2 DEF Upward

\* Links that are cut, and nodes of U put under a node that is not below any of
\* them, leave a tree a tree.
LEMMA Grafted ==
    ASSUME Acyclic, NEW n \in Node, NEW U, U \cap AtOrAbove(n) = {}, NEW p,
           \A x \in Node : p[x] = parent[x] \/ p[x] \notin Node \/ (x \in U /\ p[x] = n)
    PROVE  \A S \in SUBSET Node : S # {} => \E x \in S : p[x] \notin S
<1> SUFFICES ASSUME NEW S \in SUBSET Node, S # {}, \A x \in S : p[x] \in S PROVE FALSE
    OBVIOUS
<1>1. PICK x \in S : parent[x] \notin S
    BY DEF Acyclic
<1>2. x \in Node /\ p[x] \in S
    OBVIOUS
<1>3. n \in S
    BY <1>1, <1>2
<1> DEFINE A == AtOrAbove(n) \cap S
<1>4. n \in AtOrAbove(n) /\ AtOrAbove(n) \subseteq Node /\ Upward(AtOrAbove(n))
    BY AboveIs
<1>5. A # {} /\ A \in SUBSET Node
    BY <1>3, <1>4
<1>6. ASSUME NEW a \in A PROVE parent[a] \in A
    <2>1. a \in Node /\ a \notin U /\ p[a] \in S
        OBVIOUS
    <2>2. p[a] = parent[a] /\ parent[a] \in Node
        BY <2>1
    <2>3. parent[a] \in AtOrAbove(n)
        BY <1>4, <2>2 DEF Upward
    <2>4. QED BY <2>1, <2>2, <2>3
<1> HIDE DEF A
<1>7. QED BY <1>5, <1>6 DEF Acyclic

-----------------------------------------------------------------------------
(* The operators of the model *)

\* The message that a loop is at.
LEMMA ThisIs ==
    ASSUME MailTypes, LoopTypes, pos <= Len(index)
    PROVE  /\ pos \in DOMAIN index /\ This \in Email /\ This \in ToSet(index)
           /\ This \in DOMAIN header /\ header[This] \in Header /\ IdOf(This) \in Id
<1>1. pos \in DOMAIN index
    BY DEF MailTypes, LoopTypes
<1>2. This \in Email /\ This \in ToSet(index)
    BY <1>1 DEF MailTypes, This, ToSet
<1>3. This \in DOMAIN header /\ header[This] \in Header
    BY <1>2 DEF MailTypes
<1>4. header[This].id \in Id
    BY <1>3 DEF Header
<1>5. QED BY <1>1, <1>2, <1>3, <1>4 DEF IdOf

LEMMA FoundIs ==
    ASSUME MailTypes, TreeTypes, LoopTypes, pos <= Len(index)
    PROVE  Found \in Node \cup {Null}
<1>1. IdOf(This) \in Id
    BY ThisIs
<1>2. QED BY <1>1 DEF Found, TreeTypes

\* A list of references is one of ids.
LEMMA CandidatesAre == ASSUME NEW h \in Header PROVE Candidates(h) \in Seq(Id)
<1>1. h.irt \in Seq(Id) /\ h.refs \in Seq(Id)
    BY DEF Header
<1>2. CASE h.irt = <<>> \/ h.refs = <<>>
    BY <1>1, <1>2 DEF Candidates
<1>3. CASE h.irt # <<>> /\ h.refs # <<>>
    <2>1. h.irt[1] \in Id /\ Tail(h.refs) \in Seq(Id)
        BY <1>1, <1>3
    <2>2. <<h.irt[1]>> \in Seq(Id)
        BY <2>1
    <2>3. QED BY <1>1, <1>3, <2>1, <2>2 DEF Candidates
<1>4. QED BY <1>2, <1>3

LEMMA TargetIs == ASSUME Copies, TreeTypes, NEW h \in Node PROVE Target(h) \in Node
BY DEF Copies, TreeTypes, Target

\* A set of numbers that is not empty has a least one, and a greatest one below
\* a bound.
LEMMA MinIs ==
    ASSUME NEW S \in SUBSET Nat, S # {}
    PROVE  Min(S) \in S /\ \A y \in S : Min(S) <= y
<1> DEFINE T == {k \in Nat : \A m \in S : m > k}
<1> SUFFICES ASSUME ~\E x \in S : \A y \in S : x <= y PROVE FALSE
    BY DEF Min
<1>1. 0 \in T
    OBVIOUS
<1>2. ASSUME NEW k \in Nat, k \in T PROVE k + 1 \in T
    <2>1. ASSUME NEW m \in S, ~(m > k + 1) PROVE FALSE
        <3>1. m = k + 1
            BY <1>2, <2>1
        <3>2. \A y \in S : m <= y
            BY <1>2, <3>1
        <3>3. QED BY <3>2
    <2>2. QED BY <2>1
<1>3. Nat \subseteq T
    <2> HIDE DEF T
    <2>1. QED BY <1>1, <1>2, NatSetInduction
<1>4. PICK m \in S : m \in Nat
    OBVIOUS
<1>5. m \in T
    BY <1>3, <1>4
<1>6. m > m
    BY <1>5
<1>7. QED BY <1>4, <1>6

LEMMA MaxIs ==
    ASSUME NEW n \in Nat, NEW S \in SUBSET (1 .. n), S # {}
    PROVE  Max(S) \in S
<1> DEFINE R == {n - x : x \in S}
<1>1. R \in SUBSET Nat /\ R # {}
    <2>1. \A x \in S : n - x \in Nat
        OBVIOUS
    <2>2. QED BY <2>1
<1>2. Min(R) \in R /\ \A y \in R : Min(R) <= y
    <2> HIDE DEF R
    <2>1. QED BY <1>1, MinIs
<1>3. PICK x \in S : Min(R) = n - x
    BY <1>2
<1>4. \A y \in S : y <= x
    <2>1. \A y \in S : n - y \in R
        OBVIOUS
    <2>2. \A y \in S : n - x <= n - y
        BY <1>2, <1>3, <2>1
    <2>3. QED BY <2>2
<1>5. QED BY <1>4 DEF Max

\* What is left of a list of references is one, too.
LEMMA CutIs ==
    ASSUME NEW refs \in Seq(Id), NEW n
    PROVE  Cut(refs, n) \in Seq(Id)
<1>1. CASE Cut(refs, n) = refs
    BY <1>1
<1>2. CASE Cut(refs, n) # refs
    <2> DEFINE nearest == {x \in AtOrAbove(n) : Real(x) /\ \E k \in DOMAIN refs : refs[k] = IdOf(message[x])}
    <2> DEFINE upTo == {x \in nearest : nearest \subseteq AtOrAbove(x)}
    <2> DEFINE x == CHOOSE y \in upTo : TRUE
    <2> DEFINE at == {k \in DOMAIN refs : refs[k] = IdOf(message[x])}
    <2>1. upTo # {} /\ Cut(refs, n) = SubSeq(refs, 1, Min(at))
        BY <1>2 DEF Cut
    <2>2. x \in upTo
        BY <2>1
    <2>3. at # {} /\ at \in SUBSET DOMAIN refs
        BY <2>2
    <2> HIDE DEF x, at
    <2>4. at \in SUBSET Nat
        BY <2>3
    <2>5. Min(at) \in DOMAIN refs
        BY <2>3, <2>4, MinIs
    <2>6. PICK m \in 1 .. Len(refs) : m = Min(at)
        BY <2>5
    <2>7. SubSeq(refs, 1, m) \in Seq(Id)
        BY <2>6
    <2>8. QED BY <2>1, <2>6, <2>7
<1>3. QED BY <1>1, <1>2

-----------------------------------------------------------------------------
(* What a step may do *)

\* A step that leaves the tree alone, one that begins a new tree, or one of
\* these.
TreeStep ==
    \/ UNCHANGED <<treeVars, cur>>
    \/ Cleared /\ cur' = cur /\ pc = "idle"
    \/ ReleasePseudo \/ FillMissing \/ NewNode
    \/ Begin \/ Follow \/ NoMoreReferences \/ CheckSubjects
    \/ \E r \in todo : Pseudo(r)

LEMMA TreeSteps == [Next]_vars => TreeStep
<1> SUFFICES ASSUME [Next]_vars PROVE TreeStep
    OBVIOUS
<1> USE DEF TreeStep
<1>1. CASE Sorting
    <2>1. CASE AllAttached \/ AlreadyThreaded \/ NoLoops \/ Linearize \/ \E r \in todo : NoParent(r)
        BY <2>1 DEF AllAttached, AlreadyThreaded, NoLoops, Linearize, NoParent, NextEach
    <2>2. CASE ReleasePseudo \/ FillMissing \/ NewNode \/ Begin \/ Follow \/ NoMoreReferences \/ CheckSubjects
               \/ \E r \in todo : Pseudo(r)
        BY <2>2
    <2>3. QED BY <1>1, <2>1, <2>2 DEF Sorting
<1>2. CASE User
    <2>1. CASE SortNothing
        BY <2>1 DEF SortNothing, vars, loopVars
    <2>2. ASSUME NEW rebuild \in BOOLEAN, Sort(rebuild) PROVE TreeStep
        BY <2>2 DEF Sort, Start
    <2>3. ASSUME NEW e \in Email, Delete(e) PROVE TreeStep
        BY <2>3 DEF Delete, May, Start, loopVars
    <2>4. ASSUME NEW e \in Email, Break(e) PROVE TreeStep
        BY <2>4 DEF Break, May, Start
    <2>5. ASSUME NEW e \in Email, NEW f \in Email, Link(e, f) PROVE TreeStep
        BY <2>5 DEF Link, May, Start
    <2>6. QED BY <1>2, <2>1, <2>2, <2>3, <2>4, <2>5 DEF User
<1>3. CASE \E e \in Email : Arrive(e)
    BY <1>3 DEF Arrive, loopVars
<1>4. CASE UNCHANGED vars
    BY <1>4 DEF vars, loopVars
<1>5. QED BY <1>1, <1>2, <1>3, <1>4 DEF Next

\* The node of a message that has none yet, and the first message with its id,
\* where $duplicate_threads is set.
NewAt == IF hash[IdOf(This)] = Null THEN IdOf(This) ELSE Copy(This)
Twin  == IF world.duplicates /\ Found # Null
         THEN IF Found \in duplicate THEN parent[Found] ELSE Found
         ELSE Null

LEMMA NewNodeIs ==
    ASSUME NewNode
    PROVE  /\ message' = [message EXCEPT ![NewAt] = This] /\ thread' = [thread EXCEPT ![This] = NewAt]
           /\ hash' = [hash EXCEPT ![IdOf(This)] = NewAt] /\ parent' = [parent EXCEPT ![NewAt] = Twin]
           /\ check' = check \cup {NewAt}
           /\ duplicate' = (IF Twin = Null THEN duplicate ELSE duplicate \cup {NewAt})
           /\ threaded' = (IF Twin = Null THEN threaded ELSE threaded \cup {This})
           /\ fake' = fake /\ changed' = changed /\ subjects' = subjects /\ world' = world
           /\ Each("attach") /\ thread[This] = Null /\ (Found \in Node => Real(Found)) /\ NextEach
           /\ UNCHANGED mailVars
BY DEF NewNode, NewAt, Twin, Kept

\* The node that a reference leads to.
Reference == IF hash[Head(left)] = Null THEN Head(left) ELSE Target(hash[Head(left)])

LEMMA FollowIs ==
    ASSUME Follow
    PROVE  /\ Following /\ ~InLoop
           /\ hash' = IF hash[Head(left)] = Null THEN [hash EXCEPT ![Reference] = Reference] ELSE hash
           /\ parent' = IF Stops(Reference) /\ parent[Reference] = Null
                        THEN [parent EXCEPT ![cur] = Reference, ![Reference] = Top]
                        ELSE [parent EXCEPT ![cur] = Reference]
           /\ IF Stops(Reference) THEN Done
              ELSE cur' = Reference /\ left' = Tail(left) /\ UNCHANGED <<pc, pos>>
           /\ UNCHANGED <<thread, threaded, changed, message, fake, duplicate, check, init, todo>> /\ Kept
BY DEF Follow, Reference

LEMMA ReferenceIs ==
    ASSUME TreeTypes, LoopTypes, Copies, Following
    PROVE  Reference \in Node /\ Head(left) \in Id
<1>1. Head(left) \in Id
    BY DEF LoopTypes, Following
<1>2. Head(left) \in Node /\ hash[Head(left)] \in Node \cup {Null}
    BY <1>1, NodesAre DEF TreeTypes
<1>3. QED BY <1>1, <1>2, TargetIs DEF Reference

\* The message whose thread the thread of r is put under, and what goes there.
Chosen(r) == Max(Matches(r))
Alike(r)  == {x \in Heads(r) : x = r \/ header[message[x]].subject = header[Chosen(r)].subject}
Moves(r)  == {r} \cup {c \in fake : parent[c] \in Alike(r)}

LEMMA PseudoIs ==
    ASSUME NEW r, Pseudo(r)
    PROVE  /\ pc = "pseudo" /\ r \in todo /\ Matches(r) # {}
           /\ parent' = [n \in Node |-> IF n \in Moves(r) THEN thread[Chosen(r)] ELSE parent[n]]
           /\ changed' = changed \ {message[x] : x \in Alike(r)}
           /\ fake' = fake \cup {r} /\ todo' = todo \ {r}
           /\ UNCHANGED <<thread, threaded, hash, message, duplicate, check, pc, init, pos, cur, left>> /\ Kept
BY DEF Pseudo, Chosen, Alike, Moves

LEMMA ChosenIs ==
    ASSUME MailTypes, TreeTypes, NEW r, Matches(r) # {}
    PROVE  /\ Chosen(r) \in Email /\ Chosen(r) \in subjects /\ thread[Chosen(r)] \in Node \cup {Null}
           /\ r \notin AtOrAbove(thread[Chosen(r)])
<1>1. Matches(r) \in SUBSET (1 .. MaxEmail)
    BY DEF Matches, TreeTypes, Email
<1>2. Chosen(r) \in Matches(r)
    BY <1>1, ThreadsAssumption, MaxIs DEF Chosen
<1>3. QED BY <1>2 DEF Matches, is_descendant, TreeTypes

\* Types of the tree.
LEMMA TreeTypesNext ==
    ASSUME MailTypes, TreeTypes, LoopTypes, Copies, [Next]_vars
    PROVE  TreeTypes'
<1> USE DEF TreeTypes
<1>1. CASE UNCHANGED <<treeVars, cur>>
    BY <1>1 DEF treeVars
<1>2. CASE Cleared
    BY <1>2 DEF Cleared
<1>3. CASE ReleasePseudo
    BY <1>3 DEF ReleasePseudo, NextEach
<1>4. CASE FillMissing
    <2>1. This \in Email /\ Found \in Node /\ thread[This] = Null /\ pos <= Len(index)
        BY <1>4, ThisIs, FoundIs DEF FillMissing, Each
    <2>2. /\ message' = [message EXCEPT ![Found] = This] /\ thread' = [thread EXCEPT ![This] = Found]
          /\ check' = check \cup {Found} \cup UNION {Heads(c) : c \in Children(Found)}
          /\ parent' = [n \in Node |-> IF n \in Detached(Found) THEN Null ELSE parent[n]]
          /\ fake' = fake \ Detached(Found) /\ UNCHANGED <<threaded, changed, hash, duplicate>>
        BY <1>4 DEF FillMissing
    <2>3. \A c \in Node : Heads(c) \subseteq Node
        BY DEF Heads, Below
    <2>4. check' \subseteq Node
        BY <2>1, <2>2, <2>3 DEF Children
    <2>5. QED BY <2>1, <2>2, <2>4
<1>5. CASE NewNode
    <2>1. This \in Email /\ IdOf(This) \in Id /\ Found \in Node \cup {Null} /\ pos <= Len(index)
        BY <1>5, ThisIs, FoundIs DEF NewNode, Each
    <2>2. NewAt \in Node
        BY <2>1, NodesAre DEF NewAt
    <2>3. Twin \in Node \cup {Null, Top}
        BY <2>1 DEF Twin
    <2>4. QED BY <1>5, <2>1, <2>2, <2>3, NewNodeIs
<1>6. CASE Begin
    <2>1. This \in Email
        BY <1>6, ThisIs DEF Begin, Each
    <2>2. QED BY <1>6, <2>1 DEF Begin
<1>7. CASE Follow
    <2>1. Reference \in Node /\ Head(left) \in Id
        BY <1>7, ReferenceIs, FollowIs
    <2>2. QED BY <1>7, <2>1, FollowIs
<1>8. CASE NoMoreReferences
    BY <1>8 DEF NoMoreReferences
<1>9. CASE CheckSubjects
    <2>1. changed' \subseteq Email
        BY <1>9 DEF CheckSubjects, MailTypes, ToSet
    <2>2. QED BY <1>9, <2>1 DEF CheckSubjects
<1>10. CASE \E r \in todo : Pseudo(r)
    <2>1. PICK r \in todo : Pseudo(r)
        BY <1>10
    <2>2. thread[Chosen(r)] \in Node \cup {Null} /\ r \in Node
        BY <2>1, ChosenIs, PseudoIs DEF LoopTypes
    <2>3. QED BY <2>1, <2>2, PseudoIs
<1>11. QED BY <1>1, <1>2, <1>3, <1>4, <1>5, <1>6, <1>7, <1>8, <1>9, <1>10, TreeSteps DEF TreeStep

\* Types of the loops.
LEMMA LoopTypesNext ==
    ASSUME MailTypes, TreeTypes, LoopTypes, Copies, [Next]_vars
    PROVE  LoopTypes'
<1> USE DEF LoopTypes
<1>1. CASE ReleasePseudo \/ AllAttached \/ AlreadyThreaded
    BY <1>1 DEF ReleasePseudo, AllAttached, AlreadyThreaded, NextEach, Each
<1>2. CASE FillMissing
    BY <1>2 DEF FillMissing, NextEach, Each
<1>3. CASE NewNode
    BY <1>3, NewNodeIs DEF NextEach, Each
<1>4. CASE Begin
    <2>1. This \in Email /\ header[This] \in Header
        BY <1>4, ThisIs DEF Begin, Each
    <2>2. cur' \in Node \cup {Null} /\ left' \in Seq(Id)
        BY <1>4, <2>1, CandidatesAre DEF Begin, TreeTypes
    <2>3. QED BY <1>4, <2>2 DEF Begin, Each
<1>5. CASE NoLoops
    BY <1>5 DEF NoLoops, Following
<1>6. CASE Follow
    <2>1. Reference \in Node /\ left # <<>> /\ pc = "follow"
        BY <1>6, ReferenceIs, FollowIs DEF Following
    <2>2. Tail(left) \in Seq(Id)
        BY <2>1
    <2>3. CASE Stops(Reference)
        BY <1>6, <2>1, <2>3, FollowIs DEF Done
    <2>4. CASE ~Stops(Reference)
        BY <1>6, <2>1, <2>2, <2>4, FollowIs
    <2>5. QED BY <2>3, <2>4
<1>7. CASE NoMoreReferences
    BY <1>7 DEF NoMoreReferences, Done
<1>8. CASE CheckSubjects
    BY <1>8 DEF CheckSubjects, Roots
<1>9. CASE Linearize
    <2>1. /\ pc = "pseudo" /\ todo = {} /\ pc' = "idle" /\ init' = FALSE /\ pos' = 1
          /\ cur' = cur /\ left' = left /\ todo' = todo
        BY <1>9 DEF Linearize
    <2>2. cur' = Null /\ left' \in Seq(Id) /\ todo' = {}
        BY <2>1
    <2>3. init' \in BOOLEAN
        BY <2>1, Zenon
    <2>4. pos' \in Nat \ {0}
        BY <2>1
    <2>5. todo' \subseteq Node /\ cur' \in Node \cup {Null}
        BY <2>2
    <2>6. pc' = "idle"
        BY <2>1
    <2>7. QED BY ONLY <2>2, <2>3, <2>4, <2>5, <2>6 DEF LoopTypes
<1>10. CASE \E r \in todo : NoParent(r) \/ Pseudo(r)
    <2>1. PICK r \in todo : NoParent(r) \/ Pseudo(r)
        BY <1>10
    <2>2. CASE NoParent(r)
        BY <2>2 DEF NoParent
    <2>3. CASE Pseudo(r)
        BY <2>3, PseudoIs
    <2>4. QED BY <2>1, <2>2, <2>3
<1>11. CASE User
    <2>1. CASE SortNothing
        BY <2>1 DEF SortNothing, vars, loopVars
    <2>2. ASSUME NEW rebuild \in BOOLEAN, pc = "idle", Start(rebuild) PROVE LoopTypes'
        BY <2>2 DEF Start
    <2>3. ASSUME NEW e \in Email, Delete(e) PROVE LoopTypes'
        <3>1. pc = "idle" /\ (Start(TRUE) \/ UNCHANGED <<pc, loopVars>>)
            BY <2>3 DEF Delete, May
        <3>2. QED BY <2>2, <3>1 DEF loopVars
    <2>4. QED BY <1>11, <2>1, <2>2, <2>3 DEF User, Sort, Break, Link, May
<1>12. CASE \E e \in Email : Arrive(e)
    BY <1>12 DEF Arrive, loopVars
<1>13. CASE UNCHANGED vars
    BY <1>13 DEF vars, loopVars
<1>14. QED BY <1>1, <1>2, <1>3, <1>4, <1>5, <1>6, <1>7, <1>8, <1>9, <1>10, <1>11, <1>12, <1>13
       DEF Next, Sorting

\* A node that nobody has used is above none but itself.
LEMMA UnusedApart ==
    ASSUME Unmade, NEW m \in Node, Unused(m), NEW n \in Node, n # m
    PROVE  m \notin AtOrAbove(n)
<1> DEFINE S == Node \ {m}
<1>1. Upward(S)
    BY DEF Upward, Unmade
<1>2. n \in S /\ S \in SUBSET Node
    OBVIOUS
<1> HIDE DEF S
<1>3. AtOrAbove(n) \subseteq S
    BY <1>1, <1>2, AboveIs
<1>4. QED BY <1>3 DEF S

\* The node of a new message, and what it is a copy of.
LEMMA NewAtIs ==
    ASSUME MailTypes, TreeTypes, LoopTypes, Nodes, Unmade, Copies, NewNode
    PROVE  /\ NewAt \in Node /\ Unused(NewAt) /\ This \in Email /\ IdOf(This) \in Id
           /\ Twin \in Node \cup {Null} /\ Twin # NewAt
           /\ Twin # Null => Found \in Node /\ Real(Found) /\ ~Unused(Twin)
           /\ Twin # Null => (Found \in duplicate /\ Twin = parent[Found]) \/ (Found \notin duplicate /\ Twin = Found)
<1>1. Each("attach") /\ thread[This] = Null /\ (Found \in Node => Real(Found)) /\ pos <= Len(index)
    BY NewNodeIs DEF Each
<1>2. This \in Email /\ IdOf(This) \in Id /\ Found \in Node \cup {Null}
    BY <1>1, ThisIs, FoundIs
<1>3. NewAt \in Node /\ Unused(NewAt)
    <2>1. CASE hash[IdOf(This)] = Null
        BY <1>2, <2>1, NodesAre DEF NewAt, Unused
    <2>2. CASE hash[IdOf(This)] # Null
        <3>1. NewAt = Copy(This) /\ Copy(This) \in Node \ Id /\ Copy(This) - MaxId = This
            BY <1>2, <2>2, NodesAre DEF NewAt
        <3>2. message[Copy(This)] \in {Null, This}
            BY <3>1 DEF Nodes
        <3>3. message[Copy(This)] # This
            <4>1. SUFFICES ASSUME message[Copy(This)] = This PROVE FALSE
                OBVIOUS
            <4>2. This # Null
                BY <1>2 DEF Email, Null
            <4>3. thread[This] = Copy(This)
                BY <3>1, <4>1, <4>2 DEF Nodes
            <4>4. QED BY <1>1, <3>1, <4>3, NodesAre
        <3>4. QED BY <3>1, <3>2, <3>3 DEF Unused
    <2>3. QED BY <2>1, <2>2
<1>4. CASE Twin = Null
    <2>1. Twin # NewAt
        BY <1>3, <1>4, NodesAre
    <2>2. QED BY <1>2, <1>3, <1>4, <2>1
<1>5. CASE Twin # Null
    <2>1. Found \in Node /\ Real(Found)
        BY <1>1, <1>2, <1>5 DEF Twin
    <2>2. \/ Found \in duplicate /\ Twin = parent[Found]
          \/ Found \notin duplicate /\ Twin = Found
        BY <1>5 DEF Twin
    <2>3. Twin \in Node /\ ~Unused(Twin)
        <3>1. CASE Found \in duplicate
            BY <2>1, <2>2, <3>1 DEF Copies, Unmade
        <3>2. CASE Found \notin duplicate
            BY <2>1, <2>2, <3>2 DEF Unmade, Real
        <3>3. QED BY <3>1, <3>2
    <2>4. QED BY <1>2, <1>3, <2>1, <2>2, <2>3
<1>6. QED BY <1>4, <1>5

\* What a reference leads to is not below the node that looks for its parent.
LEMMA NotBelow ==
    ASSUME TreeTypes, LoopTypes, Unmade, Copies, Follow, cur \in Node
    PROVE  Reference \in Node /\ cur \notin AtOrAbove(Reference)
<1>1. Reference \in Node /\ Head(left) \in Id /\ ~InLoop
    BY ReferenceIs, FollowIs
<1>2. CASE hash[Head(left)] = Null
    <2>1. Reference = Head(left) /\ Unused(Reference)
        BY <1>1, <1>2 DEF Reference, Unused
    <2>2. parent[Reference] = Null /\ Reference # cur
        BY <1>1, <2>1 DEF Unmade
    <2>3. AtOrAbove(Reference) = {Reference}
        BY <1>1, <2>2, AboveStep, NodesAre
    <2>4. QED BY <1>1, <2>2, <2>3
<1>3. CASE hash[Head(left)] # Null
    BY <1>1, <1>3 DEF Reference, InLoop, is_descendant
<1>4. QED BY <1>2, <1>3

\* What moves with the thread of r is at r or below.
LEMMA MovesBelow ==
    ASSUME TreeTypes, NEW r \in Node, NEW x \in Moves(r)
    PROVE  x \in Node /\ r \in AtOrAbove(x)
<1>1. CASE x = r
    BY <1>1, AboveIs
<1>2. CASE x \in fake /\ parent[x] \in Alike(r)
    <2>1. x \in Node
        BY <1>2 DEF TreeTypes
    <2>2. parent[x] \in Node /\ r \in AtOrAbove(parent[x])
        <3>1. parent[x] \in {r} \cup Below(r)
            BY <1>2 DEF Alike, Heads
        <3>2. QED BY <3>1, AboveIs DEF Below
    <2>3. QED BY <2>1, <2>2, AboveStep
<1>3. QED BY <1>1, <1>2 DEF Moves

\* No step makes the tree a cycle: a message that refers to its own reply, or a
\* missing one that arrives, is the case that matters.
LEMMA AcyclicNext ==
    ASSUME MailTypes, TreeTypes, LoopTypes, Nodes, Unmade, Acyclic, Copies, Looking, [Next]_vars
    PROVE  Acyclic'
<1>1. ASSUME NEW n \in Node, NEW U, U \cap AtOrAbove(n) = {},
             \A x \in Node : \/ parent'[x] = parent[x] \/ parent'[x] \notin Node
                             \/ x \in U /\ parent'[x] = n
      PROVE  Acyclic'
    <2>1. PICK p : p = parent'
        OBVIOUS
    <2>2. \A S \in SUBSET Node : S # {} => \E x \in S : p[x] \notin S
        <3>1. \A x \in Node : p[x] = parent[x] \/ p[x] \notin Node \/ (x \in U /\ p[x] = n)
            BY <1>1, <2>1
        <3>2. n \in Node /\ U \cap AtOrAbove(n) = {}
            BY <1>1
        <3>3. QED BY <3>1, <3>2, Grafted
    <2>3. QED BY <2>1, <2>2 DEF Acyclic
<1>2. ASSUME \A x \in Node : parent'[x] = parent[x] \/ parent'[x] \notin Node
      PROVE  Acyclic'
    <2>1. MaxId \in Nat /\ MaxEmail \in Nat \ {0}
        BY ThreadsAssumption
    <2>2. PICK n : n \in Node
        <3>1. 1 \in Node
            BY <2>1 DEF Node
        <3>2. QED BY <3>1
    <2>3. {} \cap AtOrAbove(n) = {}
        OBVIOUS
    <2>4. \A x \in Node : \/ parent'[x] = parent[x] \/ parent'[x] \notin Node
                          \/ x \in {} /\ parent'[x] = n
        BY <1>2
    <2>5. QED BY <1>1, <2>2, <2>3, <2>4
<1>3. CASE UNCHANGED <<treeVars, cur>> \/ Begin \/ CheckSubjects
    BY <1>2, <1>3 DEF treeVars, Begin, CheckSubjects
<1>4. CASE Cleared
    BY <1>2, <1>4, NodesAre DEF Cleared
<1>5. CASE ReleasePseudo
    BY <1>2, <1>5, NodesAre DEF ReleasePseudo
<1>6. CASE FillMissing
    BY <1>2, <1>6, NodesAre DEF FillMissing
<1>7. CASE NewNode
    <2>1. NewAt \in Node /\ Unused(NewAt) /\ Twin \in Node \cup {Null} /\ Twin # NewAt
        BY <1>7, NewAtIs
    <2>2. parent' = [parent EXCEPT ![NewAt] = Twin]
        BY <1>7, NewNodeIs
    <2>3. CASE Twin = Null
        BY <1>2, <2>1, <2>2, <2>3, NodesAre DEF TreeTypes
    <2>4. CASE Twin \in Node
        <3>1. {NewAt} \cap AtOrAbove(Twin) = {}
            BY <2>1, <2>4, UnusedApart
        <3>2. QED BY <1>1, <2>1, <2>2, <2>4, <3>1 DEF TreeTypes
    <2>5. QED BY <2>1, <2>3, <2>4
<1>8. CASE Follow
    <2>1. cur \in Node
        BY <1>8, FollowIs DEF Following, Looking
    <2>2. Reference \in Node /\ {cur} \cap AtOrAbove(Reference) = {}
        BY <1>8, <2>1, NotBelow
    <2>3. \A x \in Node : \/ parent'[x] = parent[x] \/ parent'[x] \notin Node
                          \/ x \in {cur} /\ parent'[x] = Reference
        BY <1>8, <2>1, <2>2, FollowIs, NodesAre DEF TreeTypes
    <2>4. QED BY <1>1, <2>2, <2>3
<1>9. CASE NoMoreReferences
    BY <1>2, <1>9, NodesAre DEF NoMoreReferences, TreeTypes
<1>10. ASSUME NEW r \in todo, Pseudo(r) PROVE Acyclic'
    <2>1. r \in Node /\ Matches(r) # {}
        BY <1>10, PseudoIs DEF LoopTypes
    <2> DEFINE n == thread[Chosen(r)]
    <2>2. n \in Node \cup {Null} /\ r \notin AtOrAbove(n)
        BY <2>1, ChosenIs
    <2>3. parent' = [x \in Node |-> IF x \in Moves(r) THEN n ELSE parent[x]]
        BY <1>10, PseudoIs
    <2>4. CASE n = Null
        BY <1>2, <2>3, <2>4, NodesAre
    <2>5. CASE n \in Node
        <3>1. Moves(r) \cap AtOrAbove(n) = {}
            BY <2>1, <2>2, <2>5, MovesBelow, AboveTransitive
        <3> HIDE DEF n
        <3>2. QED BY <1>1, <2>3, <2>5, <3>1
    <2>6. QED BY <2>2, <2>4, <2>5
<1>11. QED BY <1>3, <1>4, <1>5, <1>6, <1>7, <1>8, <1>9, <1>10, TreeSteps DEF TreeStep

-----------------------------------------------------------------------------
(* The mailbox *)

\* Whoever another node is below has a child.
LEMMA AboveHasChild ==
    ASSUME NEW n \in Node, NEW x \in AtOrAbove(n), x # n
    PROVE  \E y \in AtOrAbove(n) : parent[y] = x
<1> SUFFICES ASSUME \A y \in AtOrAbove(n) : parent[y] # x PROVE FALSE
    OBVIOUS
<1>1. n \in AtOrAbove(n) /\ AtOrAbove(n) \subseteq Node /\ Upward(AtOrAbove(n))
    BY AboveIs
<1> DEFINE S == AtOrAbove(n) \ {x}
<1>2. n \in S /\ S \in SUBSET Node /\ Upward(S)
    BY <1>1 DEF Upward
<1> HIDE DEF S
<1>3. AtOrAbove(n) \subseteq S
    BY <1>2, AboveIs
<1>4. QED BY <1>3 DEF S

\* A message that looks for its parent no longer is in a thread, when no other
\* does either.
LEMMA ThreadedAttached ==
    ASSUME TreeTypes, Acyclic, Orphans, NEW n \in Node, Real(n), cur = Null,
           \A x \in Node : ~Waits(x)
    PROVE  Attached(n)
<1>1. PICK x \in AtOrAbove(n) : parent[x] \notin Node
    BY WalkEnds
<1>2. x \in Node /\ parent[x] \in {Null, Top}
    BY <1>1, AboveIs DEF TreeTypes
<1>3. CASE parent[x] = Top
    BY <1>3 DEF Attached
<1>4. CASE parent[x] = Null
    <2>1. ~Real(x) /\ Childless(x)
        BY <1>2, <1>4, NodesAre DEF Orphans
    <2>2. x # n
        BY <2>1
    <2>3. PICK y \in AtOrAbove(n) : parent[y] = x
        BY <2>2, AboveHasChild
    <2>4. y \in Node
        BY AboveIs
    <2>5. QED BY <2>1, <2>3, <2>4 DEF Childless
<1>5. QED BY <1>2, <1>3, <1>4

\* When all messages are threaded, none waits.
LEMMA NobodyWaits ==
    ASSUME TreeTypes, Nodes, ToSet(index) \subseteq threaded, NEW x \in Node
    PROVE  ~Waits(x)
<1>1. SUFFICES ASSUME Waits(x) PROVE FALSE
    OBVIOUS
<1>2. message[x] \in Email /\ thread[message[x]] = x /\ x # Null
    BY <1>1, NodesAre DEF Waits, Real, Nodes, TreeTypes
<1>3. message[x] \in ToSet(index)
    BY <1>2 DEF Nodes
<1>4. QED BY <1>1, <1>3 DEF Waits

LEMMA ListingIs ==
    ASSUME NEW S, IsFiniteSet(S), NEW s \in SetToSeqs(S)
    PROVE  /\ s \in Seq(S) /\ ToSet(s) = S
           /\ \A i, j \in DOMAIN s : s[i] = s[j] => i = j
<1> DEFINE c == Cardinality(S)
<1>1. c \in Nat /\ IsFiniteSet(1 .. c) /\ Cardinality(1 .. c) = c
    BY FS_CardinalityType, FS_Interval
<1>2. s \in [1 .. c -> S] /\ \A i, j \in 1 .. c : i # j => s[i] # s[j]
    BY DEF SetToSeqs
<1> HIDE DEF c
<1>3. s \in Injection(1 .. c, S)
    BY <1>2 DEF Injection, IsInjective
<1>4. s \in Surjection(1 .. c, S)
    BY <1>1, <1>3, FS_Injection DEF c
<1>5. ToSet(s) = S
    BY <1>2, <1>4 DEF Surjection, ToSet
<1>6. s \in Seq(S)
    BY <1>1, <1>2
<1>7. QED BY <1>2, <1>5, <1>6

\* The tree holds every message when all are threaded.
LEMMA ListedIs ==
    ASSUME TreeTypes, LoopTypes, MailTypes, Progress, Nodes, Acyclic, Orphans, pc = "pseudo"
    PROVE  {message[n] : n \in Listed} = ToSet(index)
<1>1. ToSet(index) \subseteq threaded /\ cur = Null /\ \A i \in DOMAIN index : thread[index[i]] # Null
    BY DEF Progress, LoopTypes
<1>2. \A x \in Node : ~Waits(x)
    BY <1>1, NobodyWaits
<1>3. ASSUME NEW e \in ToSet(index) PROVE \E n \in Listed : message[n] = e
    <2>1. thread[e] # Null /\ e \in Email
        BY <1>1 DEF ToSet, MailTypes
    <2>2. thread[e] \in Node /\ message[thread[e]] = e /\ Real(thread[e])
        BY <2>1 DEF TreeTypes, Nodes, Real, Email, Null
    <2>3. Attached(thread[e])
        BY <1>1, <1>2, <2>2, ThreadedAttached
    <2>4. QED BY <2>2, <2>3 DEF Listed
<1>4. ASSUME NEW n \in Listed PROVE message[n] \in ToSet(index)
    <2>1. n \in Node /\ message[n] # Null /\ n # Null
        BY NodesAre DEF Listed, Real
    <2>2. message[n] \in Email /\ thread[message[n]] = n
        BY <2>1 DEF Nodes, TreeTypes
    <2>3. QED BY <2>1, <2>2 DEF Nodes
<1>5. QED BY <1>3, <1>4

\* A step that leaves the mailbox alone, or one of these.
MailStep ==
    \/ UNCHANGED <<mailVars, world>>
    \/ Linearize \/ \E e \in Email : Arrive(e) \/ Delete(e) \/ Break(e)
    \/ \E e, f \in Email : Link(e, f)

LEMMA MailSteps == [Next]_vars => MailStep
<1> SUFFICES ASSUME [Next]_vars PROVE MailStep
    OBVIOUS
<1> USE DEF MailStep
<1>1. CASE Sorting
    <2>1. CASE ReleasePseudo \/ FillMissing \/ NewNode \/ AllAttached
        BY <2>1 DEF ReleasePseudo, FillMissing, NewNode, AllAttached, Kept
    <2>2. CASE AlreadyThreaded \/ Begin \/ NoLoops \/ Follow \/ NoMoreReferences
        BY <2>2 DEF AlreadyThreaded, Begin, NoLoops, Follow, NoMoreReferences, Kept
    <2>3. CASE CheckSubjects
        BY <2>3 DEF CheckSubjects
    <2>4. ASSUME NEW r \in todo, NoParent(r) \/ Pseudo(r) PROVE MailStep
        BY <2>4 DEF NoParent, Pseudo, Kept
    <2>5. QED BY <1>1, <2>1, <2>2, <2>3, <2>4 DEF Sorting
<1>2. CASE User
    <2>1. ASSUME NEW rebuild \in BOOLEAN, Sort(rebuild) PROVE MailStep
        BY <2>1 DEF Sort, mailVars
    <2>2. CASE SortNothing
        BY <2>2 DEF SortNothing, vars
    <2>3. QED BY <1>2, <2>1, <2>2 DEF User
<1>3. CASE \E e \in Email : Arrive(e)
    BY <1>3
<1>4. CASE UNCHANGED vars
    BY <1>4 DEF vars
<1>5. QED BY <1>1, <1>2, <1>3, <1>4 DEF Next

\* Breaking a thread leaves headers headers.
LEMMA BrokenIs ==
    ASSUME MailTypes, NEW e \in Email, NEW irt \in Seq(Id), Broken(e, irt)
    PROVE  DOMAIN header' = DOMAIN header /\ \A f \in DOMAIN header : header'[f] \in Header
<1>1. PICK set : header' = [f \in DOMAIN header |->
               IF f = e THEN [header[f] EXCEPT !.irt = irt, !.refs = <<>>]
               ELSE IF f \in ToSet(index) /\ thread[f] \in set
               THEN [header[f] EXCEPT !.refs = Cut(@, thread[e])]
               ELSE header[f]]
    BY DEF Broken
<1>2. ASSUME NEW f \in DOMAIN header PROVE header'[f] \in Header
    <2>1. header[f] \in Header
        BY DEF MailTypes
    <2>2. header[f].refs \in Seq(Id)
        BY <2>1 DEF Header
    <2>3. Cut(header[f].refs, thread[e]) \in Seq(Id)
        BY <2>2, CutIs
    <2>4. PICK cut : cut = Cut(header[f].refs, thread[e])
        OBVIOUS
    <2>5. <<>> \in Seq(Id)
        OBVIOUS
    <2>6. [header[f] EXCEPT !.irt = irt, !.refs = <<>>] \in Header
        BY <2>1, <2>5 DEF Header
    <2>7. [header[f] EXCEPT !.refs = cut] \in Header
        BY <2>1, <2>3, <2>4 DEF Header
    <2>8. \/ header'[f] = [header[f] EXCEPT !.irt = irt, !.refs = <<>>]
          \/ header'[f] = [header[f] EXCEPT !.refs = cut]
          \/ header'[f] = header[f]
        BY <1>1, <2>4
    <2>9. QED BY <2>1, <2>6, <2>7, <2>8
<1>3. QED BY <1>1, <1>2

LEMMA MailTypesNext ==
    ASSUME MailTypes, TreeTypes, LoopTypes, Progress, Nodes, Acyclic, Orphans, [Next]_vars
    PROVE  MailTypes'
<1>1. CASE UNCHANGED <<mailVars, world>>
    BY <1>1 DEF MailTypes, mailVars
<1>2. CASE Linearize
    <2>1. pc = "pseudo" /\ UNCHANGED <<world, header, present>> /\ index' \in SetToSeqs({message[n] : n \in Listed})
        BY <1>2 DEF Linearize
    <2>2. {message[n] : n \in Listed} = ToSet(index)
        BY <2>1, ListedIs
    <2>3. index \in Seq(Email) /\ ToSet(index) \subseteq Email
        BY DEF MailTypes, ToSet
    <2>4. IsFiniteSet(ToSet(index))
        BY <2>3, ThreadsAssumption, FS_Interval, FS_Subset DEF Email
    <2>5. PICK s : s = index'
        OBVIOUS
    <2>6. s \in SetToSeqs(ToSet(index))
        BY <2>1, <2>2, <2>5
    <2>7. /\ s \in Seq(ToSet(index)) /\ ToSet(s) = ToSet(index)
          /\ \A i, j \in DOMAIN s : s[i] = s[j] => i = j
        BY <2>4, <2>6, ListingIs
    <2>8. s \in Seq(Email)
        BY <2>3, <2>7
    <2>9. QED BY <2>1, <2>5, <2>7, <2>8 DEF MailTypes
<1>3. ASSUME NEW e \in Email, Arrive(e) PROVE MailTypes'
    <2>1. /\ e \in DOMAIN world.headers \ DOMAIN header /\ index' = Append(index, e)
          /\ header' = [f \in DOMAIN header \cup {e} |-> IF f = e THEN world.headers[e] ELSE header[f]]
          /\ present' = present \cup {e} /\ world' = world
        BY <1>3 DEF Arrive
    <2>2. world.headers[e] \in Header
        BY <2>1, ThreadsAssumption DEF MailTypes
    <2>3. e \notin ToSet(index) /\ index \in Seq(Email)
        BY <2>1 DEF MailTypes
    <2>4. PICK k \in Nat : k = Len(index)
        BY <2>3
    <2>5. /\ Append(index, e) \in Seq(Email) /\ DOMAIN Append(index, e) = 1 .. k + 1
          /\ DOMAIN index = 1 .. k
          /\ \A i \in 1 .. k : Append(index, e)[i] = index[i] /\ index[i] # e
          /\ Append(index, e)[k + 1] = e
        BY <2>3, <2>4 DEF ToSet
    <2>6. ToSet(Append(index, e)) = ToSet(index) \cup {e}
        <3>1. \A x \in ToSet(Append(index, e)) : x \in ToSet(index) \cup {e}
            BY <2>5 DEF ToSet
        <3>2. \A x \in ToSet(index) : x \in ToSet(Append(index, e))
            BY <2>5 DEF ToSet
        <3>3. e \in ToSet(Append(index, e))
            <4>1. k + 1 \in 1 .. k + 1
                OBVIOUS
            <4>2. QED BY <2>5, <4>1 DEF ToSet
        <3>4. QED BY <3>1, <3>2, <3>3
    <2>7. \A i, j \in 1 .. k + 1 : Append(index, e)[i] = Append(index, e)[j] => i = j
        <3>1. \A i, j \in 1 .. k : index[i] = index[j] => i = j
            BY <2>5 DEF MailTypes
        <3>2. \A i \in 1 .. k + 1 : i \in 1 .. k \/ i = k + 1
            OBVIOUS
        <3>3. QED BY <2>5, <3>1, <3>2
    <2>8. index' \in Seq(Email) /\ ToSet(index') = present' /\ \A i, j \in DOMAIN index' : index'[i] = index'[j] => i = j
        BY <2>1, <2>5, <2>6, <2>7 DEF MailTypes
    <2>9. /\ present' \subseteq DOMAIN header' /\ DOMAIN header' \subseteq Email
          /\ \A f \in DOMAIN header' : header'[f] \in Header
        BY <2>1, <2>2 DEF MailTypes
    <2>10. QED BY <2>1, <2>8, <2>9 DEF MailTypes
<1>4. ASSUME NEW e \in Email, Delete(e) PROVE MailTypes'
    <2> DEFINE places == {i \in DOMAIN index : index[i] # e}
    <2> DEFINE t == AtPlaces(index, places)
    <2>1. index' = t /\ present' = present \ {e} /\ UNCHANGED <<world, header>>
        BY <1>4 DEF Delete
    <2>2. index \in Seq(Email)
        BY DEF MailTypes
    <2>3. t \in Seq(Email) /\ \E f : Picks(index, places, f, t, Len(index))
        <3> HIDE DEF places
        <3>1. QED BY <2>2, AtPlacesPicks
    <2>4. /\ \A m \in DOMAIN t : \E i \in DOMAIN index : i \in places /\ t[m] = index[i]
          /\ \A i \in DOMAIN index : i \in places => \E m \in DOMAIN t : t[m] = index[i]
        <3> HIDE DEF places
        <3>1. QED BY ONLY <2>2, AtPlacesElements DEF t
    <2>5. PICK f : Picks(index, places, f, t, Len(index))
        BY <2>3
    <2> HIDE DEF t
    <2>6. DOMAIN t = 1 .. Len(t) /\ DOMAIN index = 1 .. Len(index) /\ Len(t) \in Nat
        BY <2>2, <2>3
    <2>7. \A m \in DOMAIN t : f[m] \in DOMAIN index /\ t[m] = index[f[m]] /\ f[m] \in Nat
        BY <2>5, <2>6 DEF Picks
    <2>8. ASSUME NEW l \in DOMAIN t, NEW m \in DOMAIN t, t[l] = t[m] PROVE l = m
        <3>1. f[l] = f[m]
            BY <2>7, <2>8 DEF MailTypes
        <3>2. (l < m => f[l] < f[m]) /\ (m < l => f[m] < f[l])
            BY <2>5, <2>6 DEF Picks
        <3>3. l \in Nat /\ m \in Nat
            BY <2>6
        <3>4. QED BY <2>7, <3>1, <3>2, <3>3
    <2>9. ToSet(t) = ToSet(index) \ {e}
        BY <2>4 DEF ToSet
    <2>10. \A l, m \in DOMAIN index' : index'[l] = index'[m] => l = m
        BY <2>1, <2>8
    <2>11. ToSet(index') = present' /\ index' \in Seq(Email)
        BY <2>1, <2>3, <2>9 DEF MailTypes
    <2>12. QED BY <2>1, <2>10, <2>11 DEF MailTypes
<1>5. ASSUME NEW e \in Email, NEW irt \in Seq(Id), Broken(e, irt), UNCHANGED <<world, index, present>>
      PROVE  MailTypes'
    <2>1. DOMAIN header' = DOMAIN header /\ \A f \in DOMAIN header : header'[f] \in Header
        BY <1>5, BrokenIs
    <2>2. QED BY <1>5, <2>1 DEF MailTypes
<1>6. ASSUME NEW e \in Email, Break(e) PROVE MailTypes'
    <2>1. <<>> \in Seq(Id)
        OBVIOUS
    <2>2. Broken(e, <<>>) /\ UNCHANGED <<world, index, present>>
        BY <1>6 DEF Break
    <2>3. QED BY <1>5, <2>1, <2>2
<1>7. ASSUME NEW e \in Email, NEW f \in Email, Link(e, f) PROVE MailTypes'
    <2>1. Broken(f, <<IdOf(e)>>) /\ UNCHANGED <<world, index, present>> /\ e \in ToSet(index)
        BY <1>7 DEF Link
    <2>2. header[e] \in Header
        BY <2>1 DEF MailTypes
    <2>3. <<IdOf(e)>> \in Seq(Id)
        BY <2>2 DEF Header, IdOf
    <2>4. QED BY <1>5, <2>1, <2>3
<1>8. QED BY <1>1, <1>2, <1>3, <1>4, <1>6, <1>7, MailSteps DEF MailStep

-----------------------------------------------------------------------------
(* Messages and nodes *)

\* No message leaves the index but with the whole tree.
LEMMA IndexSteps ==
    ASSUME MailTypes, TreeTypes, LoopTypes, Progress, Nodes, Acyclic, Orphans, [Next]_vars
    PROVE  ToSet(index) \subseteq ToSet(index') \/ Cleared
<1>1. CASE UNCHANGED <<mailVars, world>>
    BY <1>1 DEF mailVars
<1>2. ASSUME present \subseteq present' PROVE ToSet(index) \subseteq ToSet(index')
    BY <1>2, MailTypesNext DEF MailTypes
<1>3. CASE Linearize \/ \E e \in Email : Arrive(e) \/ Break(e)
    BY <1>2, <1>3 DEF Linearize, Arrive, Break
<1>4. CASE \E e, f \in Email : Link(e, f)
    BY <1>2, <1>4 DEF Link
<1>5. CASE \E e \in Email : Delete(e)
    BY <1>5 DEF Delete, Start
<1>6. QED BY <1>1, <1>3, <1>4, <1>5, MailSteps DEF MailStep

LEMMA SubjectsSteps ==
    ASSUME [Next]_vars
    PROVE  \/ subjects' = {}
           \/ subjects' = subjects /\ ~(\E e \in Email : Delete(e))
           \/ subjects' = ToSet(index) /\ index' = index
<1> DEFINE G == \/ subjects' = {}
                \/ subjects' = subjects /\ ~(\E e \in Email : Delete(e))
                \/ subjects' = ToSet(index) /\ index' = index
<1>1. CASE \E e \in Email : Delete(e)
    BY <1>1 DEF Delete
<1> SUFFICES ASSUME ~\E e \in Email : Delete(e) PROVE G
    BY <1>1
<1>2. CASE Sorting
    <2>1. CASE ReleasePseudo \/ FillMissing \/ NewNode \/ AllAttached
        BY <2>1 DEF ReleasePseudo, FillMissing, NewNode, AllAttached, Kept
    <2>2. CASE AlreadyThreaded \/ Begin \/ NoLoops \/ Follow \/ NoMoreReferences
        BY <2>2 DEF AlreadyThreaded, Begin, NoLoops, Follow, NoMoreReferences, Kept
    <2>3. CASE CheckSubjects
        BY <2>3 DEF CheckSubjects, mailVars
    <2>4. CASE Linearize
        BY <2>4 DEF Linearize
    <2>5. ASSUME NEW r \in todo, NoParent(r) \/ Pseudo(r) PROVE G
        BY <2>5 DEF NoParent, Pseudo, Kept
    <2>6. QED BY <1>2, <2>1, <2>2, <2>3, <2>4, <2>5 DEF Sorting
<1>3. CASE User
    <2>1. ASSUME NEW rebuild \in BOOLEAN, Sort(rebuild) PROVE G
        BY <2>1 DEF Sort
    <2>2. CASE SortNothing
        BY <2>2 DEF SortNothing, vars
    <2>3. CASE \E e \in Email : Break(e) \/ \E f \in Email : Link(e, f)
        BY <2>3 DEF Break, Link
    <2>4. QED BY <1>3, <2>1, <2>2, <2>3 DEF User
<1>4. CASE \E e \in Email : Arrive(e)
    BY <1>4 DEF Arrive
<1>5. CASE UNCHANGED vars
    BY <1>5 DEF vars
<1>6. QED BY <1>2, <1>3, <1>4, <1>5 DEF Next

\* A message that was missing has a node that stands for its id.
LEMMA FillMissingIs ==
    ASSUME MailTypes, TreeTypes, LoopTypes, Unmade, FillMissing
    PROVE  /\ Found \in Id /\ Found \in Node /\ message[Found] = Null /\ ~Unused(Found)
           /\ This \in Email /\ This \in ToSet(index) /\ thread[This] = Null
           /\ message' = [message EXCEPT ![Found] = This] /\ thread' = [thread EXCEPT ![This] = Found]
           /\ parent' = [n \in Node |-> IF n \in Detached(Found) THEN Null ELSE parent[n]]
           /\ fake' = fake \ Detached(Found) /\ UNCHANGED <<threaded, changed, hash, duplicate, mailVars, world>>
           /\ Each("attach") /\ NextEach
<1>1. Each("attach") /\ thread[This] = Null /\ Found # Null /\ ~Real(Found)
    BY DEF FillMissing
<1>2. pos <= Len(index)
    BY <1>1 DEF Each
<1>3. Found \in Node /\ message[Found] = Null
    BY <1>1, <1>2, FoundIs DEF Real
<1>4. IdOf(This) \in Id /\ Found = hash[IdOf(This)]
    BY <1>1, <1>2, ThisIs DEF Found
<1>5. ~Unused(Found)
    BY <1>3, <1>4 DEF Unmade
<1>6. Found \in Id
    BY <1>3, <1>5 DEF Unused
<1>7. QED BY <1>1, <1>2, <1>3, <1>5, <1>6, ThisIs DEF FillMissing, Kept

LEMMA NodesNext ==
    ASSUME MailTypes, TreeTypes, LoopTypes, Progress, Nodes, Unmade, Acyclic, Copies, Orphans, [Next]_vars
    PROVE  Nodes'
<1> DEFINE Linked == /\ \A e \in Email : thread'[e] # Null => message'[thread'[e]] = e /\ (thread[e] # Null \/ e \in ToSet(index'))
                     /\ \A n \in Node : message'[n] # Null => thread'[message'[n]] = n
                     /\ \A n \in Node \ Id : message'[n] \in {Null, n - MaxId}
<1>1. Linked
    <2>1. CASE UNCHANGED <<treeVars, cur>>
        BY <2>1 DEF treeVars, Nodes
    <2>2. CASE Cleared
        BY <2>2 DEF Cleared
    <2>3. CASE ReleasePseudo \/ Begin \/ Follow \/ NoMoreReferences \/ CheckSubjects \/ \E r \in todo : Pseudo(r)
        <3>1. UNCHANGED <<thread, message>>
            BY <2>3 DEF ReleasePseudo, Begin, Follow, NoMoreReferences, CheckSubjects, Pseudo
        <3>2. QED BY <3>1 DEF Nodes
    <2>4. ASSUME NEW n \in Node, message[n] = Null, This \in Email, This \in ToSet(index), thread[This] = Null,
                 UNCHANGED mailVars, n \in Node \ Id => This = n - MaxId,
                 message' = [message EXCEPT ![n] = This], thread' = [thread EXCEPT ![This] = n]
          PROVE  Linked
        <3>0. n # Null /\ This # Null
            BY <2>4, NodesAre DEF Email, Null
        <3>1. thread'[This] = n /\ message'[n] = This /\ This \in ToSet(index')
            BY <2>4 DEF TreeTypes, mailVars
        <3>2. ASSUME NEW e \in Email, e # This, thread[e] # Null PROVE message'[thread'[e]] = e
            <4>1. thread'[e] = thread[e] /\ message[thread[e]] = e /\ thread[e] \in Node
                BY <2>4, <3>2 DEF TreeTypes, Nodes
            <4>2. thread[e] # n
                BY <2>4, <3>2, <4>1 DEF Email, Null
            <4>3. QED BY <2>4, <4>1, <4>2 DEF TreeTypes
        <3>3. ASSUME NEW m \in Node, m # n, message[m] # Null PROVE thread'[message'[m]] = m
            <4>1. message'[m] = message[m] /\ thread[message[m]] = m /\ message[m] \in Email /\ m # Null
                BY <2>4, <3>3, NodesAre DEF TreeTypes, Nodes
            <4>2. message[m] # This
                BY <2>4, <4>1
            <4>3. QED BY <2>4, <4>1, <4>2 DEF TreeTypes
        <3>4. \A m \in Node : m # n => message'[m] = message[m]
            BY <2>4 DEF TreeTypes
        <3>5. \A e \in Email : e # This => thread'[e] = thread[e]
            BY <2>4 DEF TreeTypes
        <3>6. \A m \in Node \ Id : message'[m] \in {Null, m - MaxId}
            BY <2>4, <3>1, <3>4 DEF Nodes
        <3>7. QED BY <3>1, <3>2, <3>3, <3>4, <3>5, <3>6
    <2>5. CASE FillMissing
        BY <2>4, <2>5, FillMissingIs
    <2>6. CASE NewNode
        <3>1. NewAt \in Node /\ Unused(NewAt) /\ This \in Email /\ IdOf(This) \in Id
            BY <2>6, NewAtIs
        <3>2. message[NewAt] = Null
            BY <3>1 DEF Unmade
        <3>3. pos <= Len(index)
            BY <2>6 DEF NewNode, Each
        <3>4. This \in ToSet(index)
            BY <3>3, ThisIs
        <3>5. NewAt \in Node \ Id => This = NewAt - MaxId
            BY <3>1, NodesAre DEF NewAt
        <3> HIDE DEF Linked
        <3>6. QED BY <2>4, <2>6, <3>1, <3>2, <3>4, <3>5, NewNodeIs
    <2>7. QED BY <2>1, <2>2, <2>3, <2>5, <2>6, TreeSteps DEF TreeStep
<1>2. ASSUME NEW e \in Email, thread'[e] # Null PROVE message'[thread'[e]] = e /\ e \in ToSet(index')
    <2>1. CASE Cleared
        BY <1>2, <2>1 DEF Cleared
    <2>2. CASE ~Cleared
        <3>1. ToSet(index) \subseteq ToSet(index')
            BY <2>2, IndexSteps
        <3>2. QED BY <1>1, <1>2, <3>1 DEF Nodes
    <2>3. QED BY <2>1, <2>2
<1>3. subjects' \subseteq ToSet(index')
    <2>1. CASE subjects' = {}
        BY <2>1
    <2>2. CASE subjects' = ToSet(index) /\ index' = index
        BY <2>2
    <2>3. CASE subjects' = subjects /\ ~(\E e \in Email : Delete(e))
        <3>1. present \subseteq present'
            BY <2>3, MailSteps DEF MailStep, mailVars, Linearize, Arrive, Break, Link
        <3>2. ToSet(index) \subseteq ToSet(index')
            BY <3>1, MailTypesNext DEF MailTypes
        <3>3. QED BY <2>3, <3>2 DEF Nodes
    <2>4. QED BY <2>1, <2>2, <2>3, SubjectsSteps
<1>4. ASSUME NEW e \in threaded' PROVE thread'[e] # Null
    <2>1. CASE UNCHANGED <<treeVars, cur>>
        BY <2>1 DEF treeVars, Nodes
    <2>2. CASE Cleared
        BY <2>2 DEF Cleared
    <2>3. CASE ReleasePseudo \/ Follow \/ NoMoreReferences \/ CheckSubjects \/ \E r \in todo : Pseudo(r)
        <3>1. UNCHANGED <<thread, threaded>>
            BY <2>3 DEF ReleasePseudo, Follow, NoMoreReferences, CheckSubjects, Pseudo
        <3>2. QED BY <3>1 DEF Nodes
    <2>4. CASE Begin
        <3>1. threaded' = threaded \cup {This} /\ thread' = thread /\ pc = "refs" /\ pos <= Len(index)
            BY <2>4 DEF Begin, Each
        <3>2. thread[This] # Null
            BY <3>1, ThisIs DEF Progress, This
        <3>3. QED BY <3>1, <3>2 DEF Nodes
    <2>5. ASSUME NEW n \in Node, This \in Email, thread' = [thread EXCEPT ![This] = n],
                 threaded' \subseteq threaded \cup {This}
          PROVE  thread'[e] # Null
        <3>1. n # Null /\ thread'[This] = n /\ \A f \in Email : f # This => thread'[f] = thread[f]
            BY <2>5, NodesAre DEF TreeTypes
        <3>2. e = This \/ (e \in threaded /\ e \in Email)
            BY <2>5 DEF TreeTypes
        <3>3. QED BY <3>1, <3>2 DEF Nodes
    <2>6. CASE FillMissing
        BY <2>5, <2>6, FillMissingIs
    <2>7. CASE NewNode
        BY <2>5, <2>7, NewAtIs, NewNodeIs
    <2>8. QED BY <2>1, <2>2, <2>3, <2>4, <2>6, <2>7, TreeSteps DEF TreeStep
<1>5. QED BY <1>1, <1>2, <1>3, <1>4 DEF Nodes

\* How far the loops have come.
LEMMA ProgressNext ==
    ASSUME MailTypes, TreeTypes, LoopTypes, Progress, Unmade, Nodes, Copies, [Next]_vars, MailTypes'
    PROVE  Progress'
<1>0. index \in Seq(Email) /\ DOMAIN index = 1 .. Len(index) /\ pos \in Nat
    BY DEF MailTypes, LoopTypes
<1>1. CASE ReleasePseudo
    <2>1. /\ pc = "attach" /\ pos <= Len(index) /\ thread[index[pos]] # Null /\ pos' = pos + 1 /\ pc' = pc
          /\ thread' = thread /\ index' = index
        BY <1>1 DEF ReleasePseudo, Each, NextEach, This, Kept, mailVars
    <2>2. \A i \in DOMAIN index : i < pos + 1 => i < pos \/ i = pos
        BY <1>0
    <2>3. QED BY <2>1, <2>2 DEF Progress
<1>2. ASSUME NEW n \in Node, thread' = [thread EXCEPT ![This] = n], Each("attach"), NextEach, index' = index
      PROVE  Progress'
    <2>1. /\ pc = "attach" /\ pos <= Len(index) /\ pos' = pos + 1 /\ pc' = pc /\ n # Null
        BY <1>2, NodesAre DEF Each, NextEach
    <2>2. \A i \in DOMAIN index : i < pos + 1 => i < pos \/ i = pos
        BY <1>0
    <2>3. \A i \in DOMAIN index : index[i] \in Email
        BY <1>0
    <2>4. ASSUME NEW i \in DOMAIN index, i < pos + 1 PROVE thread'[index[i]] # Null
        <3>1. CASE index[i] = This
            BY <1>2, <2>1, <2>3, <3>1 DEF TreeTypes
        <3>2. CASE index[i] # This
            <4>1. i < pos
                BY <2>2, <2>4, <3>2 DEF This
            <4>2. QED BY <1>2, <2>1, <2>3, <3>2, <4>1 DEF Progress, TreeTypes
        <3>3. QED BY <3>1, <3>2
    <2>5. QED BY <1>2, <2>1, <2>4 DEF Progress
<1>3. CASE FillMissing
    BY <1>2, <1>3, FillMissingIs DEF mailVars
<1>4. CASE NewNode
    <2>1. NewAt \in Node
        BY <1>4, NewAtIs
    <2>2. QED BY <1>2, <1>4, <2>1, NewNodeIs DEF mailVars
<1>5. CASE AllAttached
    <2>1. pc = "attach" /\ pos > Len(index) /\ pc' = "refs" /\ pos' = 1 /\ thread' = thread /\ index' = index
        BY <1>5 DEF AllAttached, Kept, mailVars, treeVars
    <2>2. \A i \in DOMAIN index : i < pos /\ ~(i < 1)
        BY <1>0, <2>1
    <2>3. QED BY <2>1, <2>2 DEF Progress
<1>6. CASE AlreadyThreaded
    <2>1. /\ pc = "refs" /\ pos' = pos + 1 /\ pc' = pc /\ thread' = thread /\ threaded' = threaded /\ index' = index
          /\ index[pos] \in threaded
        BY <1>6 DEF AlreadyThreaded, Each, NextEach, This, Kept, mailVars, treeVars
    <2>2. \A i \in DOMAIN index : i < pos + 1 => i < pos \/ i = pos
        BY <1>0
    <2>3. QED BY <2>1, <2>2 DEF Progress
<1>7. CASE Begin
    <2>1. /\ pc = "refs" /\ pos <= Len(index) /\ pos' = pos /\ pc' = "follow" /\ thread' = thread /\ index' = index
          /\ threaded' = threaded \cup {index[pos]}
        BY <1>7 DEF Begin, Each, This, Kept, mailVars
    <2>2. pos \in DOMAIN index /\ \A i \in DOMAIN index : i <= pos => i < pos \/ i = pos
        BY <1>0, <2>1 DEF LoopTypes
    <2>3. QED BY <2>1, <2>2 DEF Progress
<1>8. CASE NoLoops
    BY <1>8 DEF NoLoops, Following, Kept, mailVars, treeVars, Progress
<1>9. ASSUME pc = "follow", Done, UNCHANGED <<thread, threaded, index>> PROVE Progress'
    <2>1. pc' = "refs" /\ pos' = pos + 1
        BY <1>9 DEF Done
    <2>2. \A i \in DOMAIN index : i < pos + 1 => i <= pos
        BY <1>0
    <2>3. QED BY <1>9, <2>1, <2>2 DEF Progress
<1>10. CASE Follow
    <2>1. pc = "follow" /\ UNCHANGED <<thread, threaded, index>>
        BY <1>10, FollowIs DEF Following, Kept, mailVars
    <2>2. CASE Stops(Reference)
        BY <1>9, <1>10, <2>1, <2>2, FollowIs
    <2>3. CASE ~Stops(Reference)
        <3>1. pc' = pc /\ pos' = pos
            BY <1>10, <2>3, FollowIs
        <3>2. QED BY <2>1, <3>1 DEF Progress
    <2>4. QED BY <2>2, <2>3
<1>11. CASE NoMoreReferences
    BY <1>9, <1>11 DEF NoMoreReferences, Kept, mailVars
<1>12. CASE CheckSubjects
    <2>1. /\ pc = "refs" /\ pos > Len(index) /\ pc' = "pseudo" /\ thread' = thread /\ threaded' = threaded
          /\ index' = index
        BY <1>12 DEF CheckSubjects, mailVars
    <2>2. \A i \in DOMAIN index : i < pos
        BY <1>0, <2>1
    <2>3. ToSet(index) \subseteq threaded
        BY <2>1, <2>2 DEF Progress, ToSet
    <2>4. QED BY <2>1, <2>3 DEF Progress
<1>13. CASE \E r \in todo : NoParent(r) \/ Pseudo(r)
    <2>1. pc = "pseudo" /\ pc' = pc /\ thread' = thread /\ threaded' = threaded /\ index' = index
        BY <1>13 DEF NoParent, Pseudo, Kept, mailVars, treeVars
    <2>2. QED BY <2>1 DEF Progress
<1>14. ASSUME pc' = "idle" PROVE Progress'
    BY <1>14 DEF Progress
<1>15. CASE Linearize \/ \E e \in Email : Arrive(e)
    BY <1>14, <1>15 DEF Linearize, Arrive
<1>16. ASSUME NEW rebuild, Start(rebuild) PROVE Progress'
    <2>1. pc' = "attach" /\ pos' = 1
        BY <1>16 DEF Start
    <2>2. \A i \in DOMAIN index' : ~(i < 1)
        BY DEF MailTypes
    <2>3. QED BY <2>1, <2>2 DEF Progress
<1>17. CASE User
    <2>1. CASE SortNothing
        BY <1>14, <2>1 DEF SortNothing, vars
    <2>2. QED BY <1>14, <1>16, <1>17, <2>1 DEF User, Sort, Break, Link, Delete, May
<1>18. CASE UNCHANGED vars
    BY <1>18 DEF vars, mailVars, treeVars, loopVars, Progress
<1>19. QED BY <1>1, <1>3, <1>4, <1>5, <1>6, <1>7, <1>8, <1>10, <1>11, <1>12, <1>13, <1>15, <1>17, <1>18
       DEF Next, Sorting

-----------------------------------------------------------------------------
(* What the nodes may be under *)

\* A message that is at a place of the index has a node of its own.
LEMMA ThisNode ==
    ASSUME MailTypes, TreeTypes, LoopTypes, Nodes, pos <= Len(index), thread[This] # Null
    PROVE  thread[This] \in Node /\ message[thread[This]] = This /\ Real(thread[This]) /\ This # Null
<1>1. This \in Email
    BY ThisIs
<1>2. QED BY <1>1 DEF TreeTypes, Nodes, Real, Email, Null

\* A node that is under one of r's with the subject stands under a message.
LEMMA MovesFrom ==
    ASSUME TreeTypes, LoopTypes, Looking, NEW r \in todo, NEW x \in Moves(r), NEW q, parent[x] = q, q # Top
    PROVE  q \in Node /\ Real(q)
<1>1. x # r
    BY DEF Looking
<1>2. q \in Alike(r)
    BY <1>1 DEF Moves
<1>3. q \in {r} \cup Below(r) /\ Real(q)
    BY <1>2 DEF Alike, Heads
<1>4. CASE q \in Below(r)
    BY <1>3, <1>4 DEF Below
<1>5. CASE q = r
    <2>1. r \in Node
        BY DEF LoopTypes
    <2>2. QED BY <1>3, <1>5, <2>1
<1>6. QED BY <1>3, <1>4, <1>5

\* While threads are put together every message is in one.
LEMMA ChosenReal ==
    ASSUME MailTypes, TreeTypes, LoopTypes, Nodes, Progress, NEW r, Pseudo(r)
    PROVE  thread[Chosen(r)] \in Node /\ Real(thread[Chosen(r)])
<1>1. pc = "pseudo" /\ Matches(r) # {}
    BY PseudoIs
<1>2. Chosen(r) \in Email /\ Chosen(r) \in ToSet(index)
    BY <1>1, ChosenIs DEF Nodes
<1>3. thread[Chosen(r)] # Null
    BY <1>1, <1>2 DEF Progress, ToSet
<1>4. QED BY <1>2, <1>3 DEF TreeTypes, Nodes, Real, Email, Null

\* What is used stays so until the tree is cleared.
LEMMA UsedStays ==
    ASSUME MailTypes, TreeTypes, LoopTypes, Nodes, Unmade, Copies, [Next]_vars,
           ~(Cleared /\ cur' = cur /\ pc = "idle"), NEW n \in Node, ~Unused(n)
    PROVE  ~Unused(n)'
<1>1. CASE UNCHANGED <<hash, message>>
    BY <1>1 DEF Unused
<1>2. CASE FillMissing
    <2>1. /\ message' = [message EXCEPT ![Found] = This] /\ hash' = hash /\ Found \in Node /\ This \in Email
        BY <1>2, FillMissingIs
    <2>2. message'[n] # message[n] => message'[n] # Null
        BY <2>1 DEF TreeTypes, Email, Null
    <2>3. QED BY <2>1, <2>2 DEF Unused
<1>3. CASE NewNode
    <2>1. /\ message' = [message EXCEPT ![NewAt] = This] /\ hash' = [hash EXCEPT ![IdOf(This)] = NewAt]
          /\ NewAt \in Node /\ This \in Email
        BY <1>3, NewAtIs, NewNodeIs
    <2>2. n \in Id => (hash'[n] = hash[n] \/ hash'[n] = NewAt)
        BY <2>1 DEF TreeTypes
    <2>3. message'[n] = message[n] \/ message'[n] = This
        BY <2>1 DEF TreeTypes
    <2>4. QED BY <2>1, <2>2, <2>3, NodesAre DEF Unused, Email, Null
<1>4. CASE Follow
    <2>1. /\ Reference \in Node /\ message' = message
          /\ hash' = hash \/ hash' = [hash EXCEPT ![Reference] = Reference]
        BY <1>4, FollowIs, ReferenceIs
    <2>2. n \in Id => (hash'[n] = hash[n] \/ hash'[n] = Reference)
        BY <2>1 DEF TreeTypes
    <2>3. QED BY <2>1, <2>2, NodesAre DEF Unused
<1>5. CASE ReleasePseudo \/ Begin \/ NoMoreReferences \/ CheckSubjects \/ \E r \in todo : Pseudo(r)
    BY <1>1, <1>5 DEF ReleasePseudo, Begin, NoMoreReferences, CheckSubjects, Pseudo
<1>6. CASE UNCHANGED <<treeVars, cur>>
    BY <1>1, <1>6 DEF treeVars
<1>7. QED BY <1>2, <1>3, <1>4, <1>5, <1>6, TreeSteps DEF TreeStep

\* The new node is in use.
LEMMA NewUsed ==
    ASSUME MailTypes, TreeTypes, LoopTypes, Nodes, Unmade, Copies, NewNode
    PROVE  \A n \in Node : n = NewAt => ~Unused(n)'
<1>1. /\ message' = [message EXCEPT ![NewAt] = This] /\ hash' = [hash EXCEPT ![IdOf(This)] = NewAt]
      /\ NewAt \in Node /\ This \in Email /\ IdOf(This) \in Id
    BY NewAtIs, NewNodeIs
<1>2. message'[NewAt] = This /\ hash'[IdOf(This)] = NewAt
    BY <1>1 DEF TreeTypes
<1>3. NewAt \in Id => NewAt = IdOf(This)
    BY <1>1, NodesAre DEF NewAt
<1>4. QED BY <1>1, <1>2, <1>3, NodesAre DEF Unused, Email, Null

\* Nobody gets to what is not used but by its id.
LEMMA UnmadeNext ==
    ASSUME MailTypes, TreeTypes, LoopTypes, Progress, Nodes, Unmade, Copies, Looking, [Next]_vars
    PROVE  Unmade'
<1> DEFINE Apart(n) == /\ message'[n] = Null /\ parent'[n] = Null /\ n # cur' /\ n \notin fake'
                       /\ \A x \in Node : parent'[x] # n
                       /\ \A i \in Id : hash'[i] # n
<1>1. CASE Cleared /\ cur' = cur /\ pc = "idle"
    <2>1. cur' = Null
        BY <1>1 DEF LoopTypes
    <2>2. ASSUME NEW n \in Node PROVE Apart(n)
        BY <1>1, <2>1, <2>2, NodesAre DEF Cleared
    <2>3. QED BY <2>2 DEF Unmade
<1> SUFFICES ASSUME ~(Cleared /\ cur' = cur /\ pc = "idle"), NEW n \in Node, Unused(n)' PROVE Apart(n)
    BY <1>1 DEF Unmade
<1>2. ASSUME Unused(n)
      PROVE  /\ message[n] = Null /\ parent[n] = Null /\ n # cur /\ n \notin fake /\ n # Null /\ n # Top
             /\ \A x \in Node : parent[x] # n
             /\ \A i \in Id : hash[i] # n
    BY <1>2, NodesAre DEF Unmade
<1>3. Unused(n)
    BY UsedStays
<1>4. CASE UNCHANGED <<treeVars, cur>>
    BY <1>2, <1>3, <1>4 DEF treeVars
<1>5. CASE ReleasePseudo
    <2>1. /\ parent' = [m \in Node |-> IF m \in Children(thread[This]) \cap fake THEN Top ELSE parent[m]]
          /\ fake' \subseteq fake /\ cur' = cur /\ UNCHANGED <<hash, message>>
        BY <1>5 DEF ReleasePseudo, NextEach
    <2>2. QED BY <1>2, <1>3, <2>1
<1>6. CASE FillMissing
    <2>1. /\ parent' = [m \in Node |-> IF m \in Detached(Found) THEN Null ELSE parent[m]]
          /\ fake' \subseteq fake /\ cur' = cur /\ hash' = hash /\ message' = [message EXCEPT ![Found] = This]
          /\ ~Unused(Found)
        BY <1>6, FillMissingIs DEF NextEach
    <2>2. message'[n] = message[n]
        BY <1>3, <2>1 DEF TreeTypes
    <2>3. QED BY <1>2, <1>3, <2>1, <2>2
<1>7. CASE NewNode
    <2>1. NewAt \in Node /\ n # NewAt /\ Twin # n /\ IdOf(This) \in Id
        <3>1. Twin # Null => ~Unused(Twin)
            BY <1>7, NewAtIs
        <3>2. QED BY <1>2, <1>3, <1>7, <3>1, NewAtIs, NewUsed
    <2>2. /\ message' = [message EXCEPT ![NewAt] = This] /\ hash' = [hash EXCEPT ![IdOf(This)] = NewAt]
          /\ parent' = [parent EXCEPT ![NewAt] = Twin] /\ fake' = fake /\ cur' = cur
        BY <1>7, NewNodeIs DEF NextEach
    <2>3. QED BY <1>2, <1>3, <2>1, <2>2 DEF TreeTypes
<1>8. CASE Begin
    <2>1. UNCHANGED <<message, parent, fake, hash>> /\ cur' = thread[This] /\ pos <= Len(index) /\ pc = "refs"
        BY <1>8 DEF Begin, Each
    <2>2. thread[This] # Null
        BY <2>1, ThisIs DEF Progress, This
    <2>3. message[thread[This]] # Null
        BY <2>1, <2>2, ThisNode DEF Real
    <2>4. QED BY <1>2, <1>3, <2>1, <2>3
<1>9. CASE Follow
    <2>1. Reference \in Node /\ Head(left) \in Id /\ Following
        BY <1>9, FollowIs, ReferenceIs
    <2>2. /\ hash' = IF hash[Head(left)] = Null THEN [hash EXCEPT ![Reference] = Reference] ELSE hash
          /\ parent' = IF Stops(Reference) /\ parent[Reference] = Null
                       THEN [parent EXCEPT ![cur] = Reference, ![Reference] = Top]
                       ELSE [parent EXCEPT ![cur] = Reference]
          /\ UNCHANGED <<message, fake>> /\ (cur' = Reference \/ cur' = Null)
        BY <1>9, FollowIs DEF Done
    <2>3. n # Reference
        <3>1. CASE hash[Head(left)] = Null
            <4>1. Reference = Head(left) /\ hash'[Reference] = Reference
                BY <2>1, <2>2, <3>1 DEF Reference, TreeTypes
            <4>2. QED BY <2>1, <4>1, NodesAre DEF Unused
        <3>2. CASE hash[Head(left)] # Null
            <4>1. \/ Reference = hash[Head(left)]
                  \/ hash[Head(left)] \in duplicate /\ Reference = parent[hash[Head(left)]]
                BY <3>2 DEF Reference, Target
            <4>2. QED BY <1>2, <1>3, <2>1, <4>1 DEF TreeTypes
        <3>3. QED BY <3>1, <3>2
    <2>4. cur \in Node
        BY <2>1 DEF Following, Looking
    <2>5. \A i \in Id : hash'[i] = hash[i] \/ hash'[i] = Reference
        BY <2>1, <2>2 DEF TreeTypes
    <2>6. \A x \in Node : parent'[x] = parent[x] \/ parent'[x] \in {Reference, Top}
        BY <2>1, <2>2, <2>4 DEF TreeTypes
    <2>7. parent'[n] = parent[n]
        BY <1>2, <1>3, <2>1, <2>2, <2>3, <2>4 DEF TreeTypes
    <2>8. QED BY <1>2, <1>3, <2>2, <2>3, <2>5, <2>6, <2>7
<1>10. CASE NoMoreReferences
    <2>1. /\ parent' = (IF parent[cur] = Null THEN [parent EXCEPT ![cur] = Top] ELSE parent)
          /\ UNCHANGED <<message, fake, hash>> /\ cur' = Null
        BY <1>10 DEF NoMoreReferences, Done
    <2>2. QED BY <1>2, <1>3, <2>1 DEF TreeTypes
<1>11. CASE CheckSubjects
    BY <1>2, <1>3, <1>11 DEF CheckSubjects
<1>12. ASSUME NEW r \in todo, Pseudo(r) PROVE Apart(n)
    <2> DEFINE at == thread[Chosen(r)]
    <2>1. /\ parent' = [m \in Node |-> IF m \in Moves(r) THEN at ELSE parent[m]]
          /\ fake' = fake \cup {r} /\ UNCHANGED <<message, hash, cur>>
        BY <1>12, PseudoIs
    <2>2. at # n
        BY <1>2, <1>3, <1>12, ChosenReal DEF Real
    <2>3. n # r
        BY <1>2, <1>3, NodesAre DEF Looking
    <2>4. n \notin Moves(r)
        BY <1>2, <1>3, <2>3 DEF Moves
    <2> HIDE DEF at
    <2>5. QED BY <1>2, <1>3, <2>1, <2>2, <2>3, <2>4
<1>13. QED BY <1>4, <1>5, <1>6, <1>7, <1>8, <1>9, <1>10, <1>11, <1>12, TreeSteps DEF TreeStep

\* The node that a reference leads to is used, and not below who follows it.
LEMMA FollowSteps ==
    ASSUME MailTypes, TreeTypes, LoopTypes, Unmade, Copies, Looking, Follow
    PROVE  /\ pc = "follow" /\ cur \in Node /\ Reference \in Node /\ Reference # cur
           /\ parent[cur] \in {Null, Top} /\ parent[Reference] # cur
           /\ parent'[cur] = Reference
           /\ parent'[Reference] = IF Stops(Reference) /\ parent[Reference] = Null THEN Top
                                   ELSE parent[Reference]
           /\ \A x \in Node : x # cur /\ x # Reference => parent'[x] = parent[x]
           /\ cur' = IF Stops(Reference) THEN Null ELSE Reference
           /\ pc' = IF Stops(Reference) THEN "refs" ELSE "follow"
           /\ UNCHANGED <<thread, threaded, message, fake, duplicate>>
<1>1. /\ Following /\ ~InLoop
      /\ parent' = IF Stops(Reference) /\ parent[Reference] = Null
                   THEN [parent EXCEPT ![cur] = Reference, ![Reference] = Top]
                   ELSE [parent EXCEPT ![cur] = Reference]
      /\ cur' = (IF Stops(Reference) THEN Null ELSE Reference)
      /\ pc' = (IF Stops(Reference) THEN "refs" ELSE pc)
      /\ UNCHANGED <<thread, threaded, message, fake, duplicate>>
    BY FollowIs DEF Done
<1>2. cur \in Node /\ parent[cur] \in {Null, Top} /\ pc = "follow"
    BY <1>1 DEF Following, Looking
<1>3. Reference \in Node /\ cur \notin AtOrAbove(Reference)
    BY <1>2, NotBelow
<1>4. Reference # cur /\ parent[Reference] # cur
    <2>1. Reference \in AtOrAbove(Reference) /\ AtOrAbove(Reference) \subseteq Node /\ Upward(AtOrAbove(Reference))
        BY <1>3, AboveIs
    <2>2. QED BY <1>2, <1>3, <2>1 DEF Upward
<1>5. QED BY <1>1, <1>2, <1>3, <1>4 DEF TreeTypes

\* Taking a node from the tree takes the nodes with it that are left without
\* child and message, and no others.
LEMMA DetachedIs ==
    ASSUME TreeTypes, Acyclic, NEW f \in Node
    PROVE  /\ f \in Detached(f) /\ Detached(f) \subseteq Node
           /\ \A x \in Detached(f) : x # f => ~Real(x) /\ \E y \in Detached(f) : Children(x) = {y}
           /\ \A n \in Node : ~Real(n) /\ Children(n) # {} /\ Children(n) \subseteq Detached(f) => n \in Detached(f)
<1>1. f \in AtOrAbove(f) /\ AtOrAbove(f) \subseteq Node /\ Upward(AtOrAbove(f))
    BY AboveIs
<1>2. \A x \in AtOrAbove(f) : x \in Detached(f) <=> \A y \in AtOrAbove(f) \ {f} : x \in AtOrAbove(y) => Bare(y)
    BY DEF Detached
<1>3. Detached(f) \subseteq AtOrAbove(f)
    BY DEF Detached
<1>4. f \in Detached(f)
    BY <1>1, <1>2, AboveAntisymmetric
<1>5. ASSUME NEW n \in Node PROVE IsFiniteSet(Children(n))
    BY NodesAre, FS_Subset DEF Children
<1>6. ASSUME NEW x \in Detached(f), x # f
      PROVE  ~Real(x) /\ \E y \in Detached(f) : Children(x) = {y}
    <2>1. x \in AtOrAbove(f) /\ x \in Node /\ x \in AtOrAbove(x)
        BY <1>1, <1>3, AboveIs
    <2>2. Bare(x)
        BY <1>2, <1>6, <2>1
    <2>3. PICK y \in AtOrAbove(f) : parent[y] = x
        BY <1>6, <2>1, AboveHasChild
    <2>4. y \in Node /\ y \in Children(x)
        BY <1>1, <2>3 DEF Children
    <2>5. Cardinality(Children(x)) = 1
        BY <2>2 DEF Bare
    <2>6. \E z : Children(x) = {z}
        BY <1>5, <2>1, <2>5, FS_Singleton, Zenon
    <2>7. Children(x) = {y}
        BY <2>4, <2>6
    <2>8. ASSUME NEW z \in AtOrAbove(f) \ {f}, y \in AtOrAbove(z) PROVE Bare(z)
        <3>1. z \in Node /\ Upward(AtOrAbove(z))
            BY <1>1, AboveIs
        <3>2. x \in AtOrAbove(z)
            BY <2>1, <2>3, <2>8, <3>1 DEF Upward
        <3>3. QED BY <1>2, <1>6, <2>1, <3>2
    <2>9. y \in Detached(f)
        BY <1>2, <2>8
    <2>10. QED BY <2>2, <2>7, <2>9 DEF Bare
<1>7. ASSUME NEW n \in Node, ~Real(n), NEW x \in Children(n), Children(n) \subseteq Detached(f)
      PROVE  n \in Detached(f)
    <2>1. x \in Node /\ parent[x] = n /\ x \in Detached(f) /\ x \in AtOrAbove(f)
        BY <1>3, <1>7 DEF Children
    <2>2. n \in AtOrAbove(f)
        BY <1>1, <2>1 DEF Upward
    <2>3. n # x /\ n \in AtOrAbove(n) /\ x \notin AtOrAbove(n)
        BY <2>1, AboveIs, AcyclicWalks DEF NoCycle
    <2>4. ASSUME NEW z \in Children(n), z # x PROVE FALSE
        <3>1. z \in Node /\ parent[z] = n /\ z \in AtOrAbove(f)
            BY <1>3, <1>7 DEF Children
        <3>2. z \notin AtOrAbove(n)
            BY <3>1, AcyclicWalks DEF NoCycle
        <3>3. AtOrAbove(x) = {x} \cup AtOrAbove(n) /\ AtOrAbove(z) = {z} \cup AtOrAbove(n)
            BY <2>1, <3>1, AboveStep
        <3>4. x \in AtOrAbove(z) \/ z \in AtOrAbove(x)
            BY <2>1, <3>1, AboveLinear
        <3>5. QED BY <2>3, <2>4, <3>2, <3>3, <3>4
    <2>5. Children(n) = {x}
        BY <2>4
    <2>6. Cardinality(Children(n)) = 1
        BY <2>5, FS_Singleton, Zenon
    <2>7. Bare(n)
        BY <1>7, <2>6 DEF Bare
    <2>8. ASSUME NEW y \in AtOrAbove(f) \ {f}, n \in AtOrAbove(y) PROVE Bare(y)
        <3>1. y \in Node
            BY <1>1
        <3>2. CASE x \in AtOrAbove(y)
            BY <1>2, <2>1, <2>8, <3>2
        <3>3. CASE x \notin AtOrAbove(y)
            <4>1. y \in AtOrAbove(x) /\ y # x
                BY <2>1, <2>8, <3>1, <3>3, AboveIs, AboveLinear
            <4>2. y \in AtOrAbove(n)
                BY <2>1, <4>1, AboveStep
            <4>3. y = n
                BY <2>8, <3>1, <4>2, AboveAntisymmetric
            <4>4. QED BY <2>7, <4>3
        <3>4. QED BY <3>2, <3>3
    <2>9. QED BY <1>2, <2>2, <2>8
<1>8. QED BY <1>1, <1>3, <1>4, <1>6, <1>7

\* A node that has lost its children and has no message hangs nowhere.
LEMMA EmptiedNext ==
    ASSUME MailTypes, TreeTypes, LoopTypes, Progress, Nodes, Unmade, Acyclic, Emptied, Copies, Looking,
           [Next]_vars
    PROVE  Emptied'
<1> SUFFICES ASSUME NEW n \in Node, message'[n] = Null, \A x \in Node : parent'[x] # n
             PROVE  parent'[n] = Null
    BY DEF Emptied, Real, Childless
<1>0. n # Null /\ n # Top
    BY NodesAre
<1>1. ASSUME message[n] = Null, Childless(n) PROVE parent[n] = Null
    BY <1>1 DEF Emptied, Real
<1>2. CASE UNCHANGED <<treeVars, cur>> \/ Begin \/ CheckSubjects
    BY <1>1, <1>2 DEF treeVars, Begin, CheckSubjects, Childless
<1>3. CASE Cleared
    BY <1>3 DEF Cleared
<1>4. CASE ReleasePseudo
    <2>1. /\ parent' = [m \in Node |-> IF m \in Children(thread[This]) \cap fake THEN Top ELSE parent[m]]
          /\ message' = message /\ thread[This] # Null /\ pos <= Len(index)
        BY <1>4 DEF ReleasePseudo, Each
    <2>2. message[thread[This]] # Null
        BY <2>1, ThisNode DEF Real
    <2>3. \A x \in Node : parent[x] = n => parent'[x] = n
        BY <2>1, <2>2 DEF Children
    <2>4. parent[n] = Null
        BY <1>1, <2>1, <2>3 DEF Childless
    <2>5. thread[This] \in Node
        BY <2>1, ThisNode
    <2>6. QED BY <2>1, <2>4, <2>5, NodesAre DEF Children
<1>5. CASE FillMissing
    <2>1. /\ parent' = [m \in Node |-> IF m \in Detached(Found) THEN Null ELSE parent[m]]
          /\ Found \in Node /\ message' = [message EXCEPT ![Found] = This] /\ This \in Email
        BY <1>5, FillMissingIs
    <2>2. message[n] = Null /\ ~Real(n)
        BY <2>1, NodesAre DEF TreeTypes, Email, Null, Real
    <2>3. CASE Childless(n)
        BY <1>1, <2>1, <2>2, <2>3
    <2>4. CASE ~Childless(n)
        <3>1. Children(n) # {} /\ Children(n) \subseteq Detached(Found)
            BY <2>1, <2>4 DEF Childless, Children
        <3>2. n \in Detached(Found)
            BY <2>1, <2>2, <3>1, DetachedIs
        <3>3. QED BY <2>1, <3>2
    <2>5. QED BY <2>3, <2>4
<1>6. CASE NewNode
    <2>1. NewAt \in Node /\ This \in Email /\ Unused(NewAt) /\ parent[NewAt] = Null
        BY <1>6, NewAtIs DEF Unmade
    <2>2. /\ message' = [message EXCEPT ![NewAt] = This] /\ parent' = [parent EXCEPT ![NewAt] = Twin]
        BY <1>6, NewNodeIs
    <2>3. n # NewAt /\ message[n] = Null
        BY <2>1, <2>2 DEF TreeTypes, Email, Null
    <2>4. \A x \in Node : parent[x] = n => parent'[x] = n
        BY <1>0, <2>1, <2>2 DEF TreeTypes
    <2>5. QED BY <1>1, <2>1, <2>2, <2>3, <2>4 DEF Childless, TreeTypes
<1>7. CASE Follow
    <2>1. n # Reference /\ message[n] = Null /\ cur \in Node /\ parent[cur] \in {Null, Top}
        BY <1>7, FollowSteps
    <2>2. \A x \in Node : parent[x] = n => x = Reference /\ parent'[x] # n
        BY <1>0, <1>7, <2>1, FollowSteps
    <2>3. ASSUME parent[Reference] = n PROVE FALSE
        BY <1>0, <1>7, <2>3, FollowSteps
    <2>4. Childless(n)
        BY <2>2, <2>3 DEF Childless
    <2>5. n # cur
        BY <1>7, <2>1, <2>4, FollowSteps DEF Looking, Real
    <2>6. QED BY <1>1, <1>7, <2>1, <2>4, <2>5, FollowSteps
<1>8. CASE NoMoreReferences
    <2>1. /\ parent' = (IF parent[cur] = Null THEN [parent EXCEPT ![cur] = Top] ELSE parent)
          /\ message' = message /\ pc = "follow"
        BY <1>8 DEF NoMoreReferences
    <2>2. \A x \in Node : parent[x] = n => parent'[x] = n
        BY <1>0, <2>1 DEF TreeTypes
    <2>3. Childless(n) /\ message[n] = Null
        BY <2>1, <2>2 DEF Childless
    <2>4. n # cur
        BY <2>1, <2>3 DEF Looking, Real
    <2>5. QED BY <1>1, <2>1, <2>3, <2>4 DEF TreeTypes
<1>9. ASSUME NEW r \in todo, Pseudo(r) PROVE parent'[n] = Null
    <2> DEFINE at == thread[Chosen(r)]
    <2>1. parent' = [m \in Node |-> IF m \in Moves(r) THEN at ELSE parent[m]] /\ message' = message
        BY <1>9, PseudoIs
    <2> HIDE DEF at
    <2>2. ASSUME NEW x \in Node, parent[x] = n PROVE x \notin Moves(r)
        <3>1. ~Real(n)
            BY <2>1 DEF Real
        <3>2. QED BY <1>0, <2>2, <3>1, MovesFrom
    <2>3. Childless(n)
        BY <2>1, <2>2 DEF Childless
    <2>4. parent[n] = Null
        BY <1>1, <2>1, <2>3
    <2>5. n \notin Moves(r)
        BY <2>4, MovesFrom, NodesAre
    <2>6. QED BY <2>1, <2>4, <2>5
<1>10. QED BY <1>2, <1>3, <1>4, <1>5, <1>6, <1>7, <1>8, <1>9, TreeSteps DEF TreeStep

\* A second copy of a message stays under the first.
LEMMA CopiesNext ==
    ASSUME MailTypes, TreeTypes, LoopTypes, Progress, Nodes, Unmade, Acyclic, Copies, Looking, [Next]_vars
    PROVE  Copies'
<1> DEFINE Under(n) == message'[n] # Null /\ parent'[n] \in Node /\ n \notin fake' /\ message'[n] \in threaded'
<1> SUFFICES ASSUME NEW n \in duplicate' PROVE Under(n)
    BY DEF Copies, Real
<1>1. ASSUME n \in duplicate
      PROVE  /\ n \in Node /\ message[n] # Null /\ message[n] \in Email /\ parent[n] \in Node
             /\ parent[n] # Null /\ parent[n] # Top /\ n \notin fake /\ message[n] \in threaded
    BY <1>1, NodesAre DEF Copies, Real, TreeTypes
<1>2. CASE UNCHANGED <<treeVars, cur>>
    BY <1>1, <1>2 DEF treeVars
<1>3. CASE Cleared
    BY <1>3 DEF Cleared
<1>4. CASE ReleasePseudo
    <2>1. /\ parent' = [m \in Node |-> IF m \in Children(thread[This]) \cap fake THEN Top ELSE parent[m]]
          /\ fake' \subseteq fake /\ UNCHANGED <<message, duplicate, threaded>>
        BY <1>4 DEF ReleasePseudo
    <2>2. QED BY <1>1, <2>1
<1>5. CASE FillMissing
    <2>1. /\ parent' = [m \in Node |-> IF m \in Detached(Found) THEN Null ELSE parent[m]]
          /\ Found \in Node /\ message[Found] = Null /\ message' = [message EXCEPT ![Found] = This]
          /\ fake' \subseteq fake /\ UNCHANGED <<duplicate, threaded>>
        BY <1>5, FillMissingIs
    <2>2. n \notin Detached(Found)
        BY <1>1, <2>1, DetachedIs DEF Real
    <2>3. n # Found
        BY <1>1, <2>1
    <2>4. QED BY <1>1, <2>1, <2>2, <2>3 DEF TreeTypes
<1>6. CASE NewNode
    <2>1. /\ NewAt \in Node /\ This \in Email /\ Unused(NewAt) /\ message[NewAt] = Null /\ NewAt \notin fake
          /\ Twin \in Node \cup {Null}
        BY <1>6, NewAtIs DEF Unmade
    <2>2. /\ message' = [message EXCEPT ![NewAt] = This] /\ parent' = [parent EXCEPT ![NewAt] = Twin]
          /\ fake' = fake
          /\ duplicate' = (IF Twin = Null THEN duplicate ELSE duplicate \cup {NewAt})
          /\ threaded' = (IF Twin = Null THEN threaded ELSE threaded \cup {This})
        BY <1>6, NewNodeIs
    <2>3. CASE n = NewAt
        <3>1. Twin # Null
            BY <1>1, <2>1, <2>2, <2>3
        <3>2. message'[n] = This /\ parent'[n] = Twin
            BY <2>1, <2>2, <2>3 DEF TreeTypes
        <3>3. QED BY <2>1, <2>2, <2>3, <3>1, <3>2 DEF Email, Null
    <2>4. CASE n # NewAt
        <3>1. n \in duplicate
            BY <2>2, <2>4
        <3>2. message'[n] = message[n] /\ parent'[n] = parent[n]
            BY <1>1, <2>2, <2>4, <3>1 DEF TreeTypes
        <3>3. QED BY <1>1, <2>2, <3>1, <3>2
    <2>5. QED BY <2>3, <2>4
<1>7. CASE Begin
    <2>1. UNCHANGED <<parent, message, fake, duplicate>> /\ threaded \subseteq threaded'
        BY <1>7 DEF Begin
    <2>2. QED BY <1>1, <2>1
<1>8. CASE Follow
    <2>1. UNCHANGED <<threaded, message, fake, duplicate>>
        BY <1>8, FollowSteps
    <2>2. parent'[n] \in Node
        BY <1>1, <1>8, <2>1, FollowSteps
    <2>3. QED BY <1>1, <2>1, <2>2
<1>9. CASE NoMoreReferences
    <2>1. /\ parent' = (IF parent[cur] = Null THEN [parent EXCEPT ![cur] = Top] ELSE parent)
          /\ UNCHANGED <<message, fake, duplicate, threaded>>
        BY <1>9 DEF NoMoreReferences
    <2>2. parent'[n] = parent[n]
        BY <1>1, <2>1 DEF TreeTypes
    <2>3. QED BY <1>1, <2>1, <2>2
<1>10. CASE CheckSubjects
    BY <1>1, <1>10 DEF CheckSubjects
<1>11. ASSUME NEW r \in todo, Pseudo(r) PROVE Under(n)
    <2> DEFINE at == thread[Chosen(r)]
    <2>1. /\ parent' = [m \in Node |-> IF m \in Moves(r) THEN at ELSE parent[m]]
          /\ fake' = fake \cup {r} /\ UNCHANGED <<message, duplicate, threaded>>
        BY <1>11, PseudoIs
    <2> HIDE DEF at
    <2>2. n # r
        BY <1>1, <2>1 DEF Looking
    <2>3. n \notin Moves(r)
        BY <1>1, <2>1, <2>2 DEF Moves
    <2>4. QED BY <1>1, <2>1, <2>2, <2>3
<1>12. QED BY <1>2, <1>3, <1>4, <1>5, <1>6, <1>7, <1>8, <1>9, <1>10, <1>11, TreeSteps DEF TreeStep

\* A message that has not looked for its parent has none.
LEMMA WaitingNext ==
    ASSUME MailTypes, TreeTypes, LoopTypes, Progress, Nodes, Unmade, Acyclic, Copies, Waiting, Looking,
           [Next]_vars
    PROVE  Waiting'
<1> SUFFICES ASSUME NEW n \in Node, message'[n] # Null, message'[n] \notin threaded'
             PROVE  parent'[n] \in {Null, Top}
    BY DEF Waiting, Waits, Real
<1>1. ASSUME message'[n] = message[n], threaded \subseteq threaded' PROVE Waits(n) /\ parent[n] \in {Null, Top}
    BY <1>1 DEF Waiting, Waits, Real
<1>2. CASE UNCHANGED <<treeVars, cur>>
    BY <1>1, <1>2 DEF treeVars
<1>3. CASE Cleared
    BY <1>3 DEF Cleared
<1>4. CASE ReleasePseudo
    <2>1. /\ parent' = [m \in Node |-> IF m \in Children(thread[This]) \cap fake THEN Top ELSE parent[m]]
          /\ UNCHANGED <<message, threaded>>
        BY <1>4 DEF ReleasePseudo
    <2>2. QED BY <1>1, <2>1
<1>5. CASE FillMissing
    <2>1. /\ parent' = [m \in Node |-> IF m \in Detached(Found) THEN Null ELSE parent[m]]
          /\ Found \in Node /\ message' = [message EXCEPT ![Found] = This] /\ threaded' = threaded
        BY <1>5, FillMissingIs
    <2>2. CASE n = Found
        BY <2>1, <2>2, DetachedIs
    <2>3. CASE n # Found
        <3>1. message'[n] = message[n]
            BY <2>1, <2>3 DEF TreeTypes
        <3>2. QED BY <1>1, <2>1, <3>1
    <2>4. QED BY <2>2, <2>3
<1>6. CASE NewNode
    <2>1. NewAt \in Node /\ This \in Email
        BY <1>6, NewAtIs
    <2>2. /\ message' = [message EXCEPT ![NewAt] = This] /\ parent' = [parent EXCEPT ![NewAt] = Twin]
          /\ threaded' = (IF Twin = Null THEN threaded ELSE threaded \cup {This})
        BY <1>6, NewNodeIs
    <2>3. CASE n = NewAt
        <3>1. message'[n] = This /\ parent'[n] = Twin
            BY <2>1, <2>2, <2>3 DEF TreeTypes
        <3>2. QED BY <2>2, <3>1
    <2>4. CASE n # NewAt
        <3>1. message'[n] = message[n] /\ parent'[n] = parent[n] /\ threaded \subseteq threaded'
            BY <2>2, <2>4 DEF TreeTypes
        <3>2. QED BY <1>1, <3>1
    <2>5. QED BY <2>3, <2>4
<1>7. CASE Begin
    BY <1>1, <1>7 DEF Begin
<1>8. CASE Follow
    <2>1. parent[n] \in {Null, Top} /\ Waits(n)
        BY <1>1, <1>8, FollowSteps
    <2>2. n # cur
        BY <1>8, <2>1, FollowSteps DEF Looking
    <2>3. QED BY <1>8, <2>1, <2>2, FollowSteps
<1>9. CASE NoMoreReferences
    <2>1. /\ parent' = (IF parent[cur] = Null THEN [parent EXCEPT ![cur] = Top] ELSE parent)
          /\ UNCHANGED <<message, threaded>>
        BY <1>9 DEF NoMoreReferences
    <2>2. QED BY <1>1, <2>1 DEF TreeTypes
<1>10. CASE CheckSubjects
    BY <1>1, <1>10 DEF CheckSubjects
<1>11. ASSUME NEW r \in todo, Pseudo(r) PROVE FALSE
    <2>1. pc = "pseudo" /\ UNCHANGED <<message, threaded>>
        BY <1>11, PseudoIs
    <2>2. Waits(n)
        BY <1>1, <2>1
    <2>3. ToSet(index) \subseteq threaded
        BY <2>1 DEF Progress
    <2>4. QED BY <2>2, <2>3, NobodyWaits
<1>12. QED BY <1>2, <1>3, <1>4, <1>5, <1>6, <1>7, <1>8, <1>9, <1>10, <1>11, TreeSteps DEF TreeStep

\* Where the loops over the tree stand.
LEMMA LookingNext ==
    ASSUME MailTypes, TreeTypes, LoopTypes, Progress, Nodes, Unmade, Acyclic, Copies, Waiting, Looking,
           [Next]_vars
    PROVE  Looking'
<1> DEFINE Looks == /\ cur' \in Node /\ parent'[cur'] \in {Null, Top}
                    /\ message'[cur'] # Null => message'[cur'] \in threaded'
                    /\ message'[cur'] # Null \/ \E x \in Node : parent'[x] = cur'
<1>0. LoopTypes'
    BY LoopTypesNext
<1>1. ASSUME pc' = "follow" => Looks, pc' = "pseudo" => \A r \in todo' : parent'[r] = Top PROVE Looking'
    <2>1. pc' # "pseudo" => todo' = {}
        BY <1>0 DEF LoopTypes
    <2>2. QED BY <1>1, <2>1 DEF Looking, Waits, Real, Childless
<1>2. ASSUME pc = "follow" PROVE /\ cur \in Node /\ parent[cur] \in {Null, Top}
                                 /\ message[cur] # Null => message[cur] \in threaded
                                 /\ message[cur] # Null \/ \E x \in Node : parent[x] = cur
    BY <1>2 DEF Looking, Waits, Real, Childless
<1>3. ASSUME pc' \notin {"follow", "pseudo"} PROVE Looking'
    BY <1>1, <1>3
<1>4. CASE ReleasePseudo \/ FillMissing \/ NewNode \/ AllAttached \/ AlreadyThreaded
    BY <1>3, <1>4 DEF ReleasePseudo, FillMissing, NewNode, AllAttached, AlreadyThreaded, NextEach, Each
<1>5. CASE Begin
    <2>1. /\ UNCHANGED <<message, parent>> /\ cur' = thread[This] /\ pos <= Len(index) /\ pc = "refs"
          /\ pc' = "follow" /\ This \notin threaded /\ threaded' = threaded \cup {This}
        BY <1>5 DEF Begin, Each
    <2>2. thread[This] # Null
        BY <2>1, ThisIs DEF Progress, This
    <2>3. thread[This] \in Node /\ message[thread[This]] = This /\ This # Null
        BY <2>1, <2>2, ThisNode
    <2>4. parent[thread[This]] \in {Null, Top}
        BY <2>1, <2>3 DEF Waiting, Waits, Real
    <2>5. Looks
        BY <2>1, <2>3, <2>4
    <2> HIDE DEF Looks
    <2>6. QED BY <1>1, <2>1, <2>5
<1>6. CASE NoLoops
    <2>1. pc = "follow" /\ pc' = pc /\ UNCHANGED <<cur, message, parent, threaded>>
        BY <1>6 DEF NoLoops, Following, treeVars
    <2>2. Looks
        BY <1>2, <2>1
    <2> HIDE DEF Looks
    <2>3. QED BY <1>1, <2>1, <2>2
<1>7. CASE Follow
    <2>1. CASE Stops(Reference)
        BY <1>3, <1>7, <2>1, FollowSteps
    <2>2. CASE ~Stops(Reference)
        <3>1. /\ pc' = "follow" /\ cur' = Reference /\ Reference \in Node /\ cur \in Node
              /\ parent'[cur] = Reference /\ parent'[Reference] = parent[Reference] /\ message' = message
            BY <1>7, <2>2, FollowSteps
        <3>2. message[Reference] = Null /\ parent[Reference] \in {Null, Top}
            BY <2>2 DEF Stops, Real
        <3>3. Looks
            BY <3>1, <3>2
        <3> HIDE DEF Looks
        <3>4. QED BY <1>1, <3>1, <3>3
    <2>3. QED BY <2>1, <2>2
<1>8. CASE NoMoreReferences \/ Linearize \/ \E e \in Email : Arrive(e)
    BY <1>3, <1>8 DEF NoMoreReferences, Done, Linearize, Arrive
<1>9. CASE CheckSubjects
    <2>1. pc' = "pseudo" /\ todo' \subseteq Roots /\ parent' = parent
        BY <1>9 DEF CheckSubjects
    <2>2. \A r \in todo' : parent'[r] = Top
        BY <2>1 DEF Roots
    <2>3. QED BY <1>1, <2>1, <2>2
<1>10. ASSUME NEW r \in todo, NoParent(r) PROVE Looking'
    <2>1. pc = "pseudo" /\ pc' = pc /\ todo' \subseteq todo /\ parent' = parent
        BY <1>10 DEF NoParent, treeVars
    <2>2. \A q \in todo' : parent'[q] = Top
        BY <2>1 DEF Looking
    <2>3. QED BY <1>1, <2>1, <2>2
<1>11. ASSUME NEW r \in todo, Pseudo(r) PROVE Looking'
    <2> DEFINE at == thread[Chosen(r)]
    <2>1. /\ parent' = [m \in Node |-> IF m \in Moves(r) THEN at ELSE parent[m]]
          /\ todo' = todo \ {r} /\ pc' = "pseudo"
        BY <1>11, PseudoIs
    <2> HIDE DEF at
    <2>2. ASSUME NEW q \in todo' PROVE parent'[q] = Top
        <3>1. q \in todo /\ q # r /\ q \in Node /\ parent[q] = Top
            BY <2>1 DEF Looking, LoopTypes
        <3>2. Top \notin Alike(r)
            <4>1. r \in Node
                BY DEF LoopTypes
            <4>2. QED BY <4>1, NodesAre DEF Alike, Heads, Below
        <3>3. q \notin Moves(r)
            BY <3>1, <3>2 DEF Moves
        <3>4. QED BY <2>1, <3>1, <3>3
    <2>3. QED BY <1>1, <2>1, <2>2
<1>12. CASE User
    <2>1. CASE SortNothing
        BY <1>3, <2>1 DEF SortNothing, vars
    <2>2. QED BY <1>3, <1>12, <2>1 DEF User, Sort, Break, Link, Delete, May, Start
<1>13. CASE UNCHANGED vars
    <2>1. UNCHANGED <<pc, cur, todo, message, parent, threaded>>
        BY <1>13 DEF vars, treeVars, loopVars
    <2>2. pc' = "follow" => Looks
        BY <1>2, <2>1
    <2>3. \A r \in todo' : parent'[r] = Top
        BY <2>1 DEF Looking
    <2> HIDE DEF Looks
    <2>4. QED BY <1>1, <2>2, <2>3
<1>14. QED BY <1>4, <1>5, <1>6, <1>7, <1>8, <1>9, <1>10, <1>11, <1>12, <1>13 DEF Next, Sorting

\* What has no parent has not looked for one yet, or is nothing.
LEMMA OrphansNext ==
    ASSUME MailTypes, TreeTypes, LoopTypes, Progress, Nodes, Unmade, Acyclic, Copies, Orphans, Looking,
           [Next]_vars
    PROVE  Orphans'
<1> DEFINE Lone(n) == \/ message'[n] # Null /\ message'[n] \notin threaded'
                      \/ message'[n] = Null /\ \A x \in Node : parent'[x] # n
<1> SUFFICES ASSUME NEW n \in Node, parent'[n] = Null, n # cur' PROVE Lone(n)
    BY DEF Orphans, Waits, Real, Childless
<1>0. n # Null /\ n # Top
    BY NodesAre
<1>1. ASSUME parent[n] = Null, n # cur
      PROVE  \/ message[n] # Null /\ message[n] \notin threaded
             \/ message[n] = Null /\ \A x \in Node : parent[x] # n
    BY <1>1 DEF Orphans, Waits, Real, Childless
<1>2. CASE UNCHANGED <<treeVars, cur>> \/ CheckSubjects
    BY <1>1, <1>2 DEF treeVars, CheckSubjects
<1>3. CASE Cleared
    BY <1>0, <1>3 DEF Cleared
<1>4. CASE ReleasePseudo
    <2>1. /\ parent' = [m \in Node |-> IF m \in Children(thread[This]) \cap fake THEN Top ELSE parent[m]]
          /\ UNCHANGED <<message, threaded, cur>>
        BY <1>4 DEF ReleasePseudo, NextEach
    <2>2. parent[n] = Null /\ n # cur
        BY <2>1, NodesAre
    <2>3. QED BY <1>0, <1>1, <2>1, <2>2
<1>5. CASE FillMissing
    <2>1. /\ parent' = [m \in Node |-> IF m \in Detached(Found) THEN Null ELSE parent[m]]
          /\ Found \in Node /\ message[Found] = Null /\ message' = [message EXCEPT ![Found] = This]
          /\ threaded' = threaded /\ cur' = cur /\ thread[This] = Null /\ This \in Email
        BY <1>5, FillMissingIs DEF NextEach
    <2>2. This \notin threaded /\ This # Null
        BY <2>1 DEF Nodes, Email, Null
    <2>3. message'[Found] = This /\ \A m \in Node : m # Found => message'[m] = message[m]
        BY <2>1 DEF TreeTypes
    <2>4. CASE n = Found
        BY <2>1, <2>2, <2>3, <2>4
    <2>5. CASE n # Found /\ n \in Detached(Found)
        <3>1. PICK y \in Detached(Found) : Children(n) = {y}
            BY <2>1, <2>5, DetachedIs
        <3>2. ~Real(n)
            BY <2>1, <2>5, DetachedIs
        <3>3. ASSUME NEW x \in Node PROVE parent'[x] # n
            <4>1. parent[x] = n => x \in Detached(Found)
                BY <3>1, <3>3 DEF Children
            <4>2. QED BY <1>0, <2>1, <4>1
        <3>4. QED BY <2>3, <2>5, <3>2, <3>3 DEF Real
    <2>6. CASE n # Found /\ n \notin Detached(Found)
        <3>1. parent[n] = Null
            BY <2>1, <2>6
        <3>2. \A x \in Node : parent'[x] = parent[x] \/ parent'[x] = Null
            BY <2>1
        <3>3. QED BY <1>0, <1>1, <2>1, <2>3, <2>6, <3>1, <3>2
    <2>7. QED BY <2>4, <2>5, <2>6
<1>6. CASE NewNode
    <2>1. NewAt \in Node /\ This \in Email /\ This # Null /\ thread[This] = Null /\ This \notin threaded
        BY <1>6, NewAtIs, NewNodeIs DEF Nodes, Email, Null
    <2>2. /\ message' = [message EXCEPT ![NewAt] = This] /\ parent' = [parent EXCEPT ![NewAt] = Twin]
          /\ threaded' = (IF Twin = Null THEN threaded ELSE threaded \cup {This}) /\ cur' = cur
        BY <1>6, NewNodeIs DEF NextEach
    <2>3. CASE n = NewAt
        <3>1. message'[n] = This /\ parent'[n] = Twin
            BY <2>1, <2>2, <2>3 DEF TreeTypes
        <3>2. QED BY <2>1, <2>2, <3>1
    <2>4. CASE n # NewAt
        <3>1. message'[n] = message[n] /\ parent[n] = Null
            BY <2>2, <2>4 DEF TreeTypes
        <3>2. CASE message[n] # Null /\ message[n] \notin threaded
            <4>1. thread[message[n]] = n
                BY <3>2 DEF Nodes
            <4>2. message[n] # This
                BY <1>0, <2>1, <4>1
            <4>3. QED BY <2>2, <3>1, <3>2, <4>2
        <3>3. CASE message[n] = Null /\ \A x \in Node : parent[x] # n
            <4>1. Twin # n
                BY <1>0, <1>6, <3>3, NewAtIs DEF Real
            <4>2. \A x \in Node : parent'[x] = parent[x] \/ parent'[x] = Twin
                BY <2>2 DEF TreeTypes
            <4>3. QED BY <3>1, <3>3, <4>1, <4>2
        <3>4. QED BY <1>1, <2>2, <3>1, <3>2, <3>3
    <2>5. QED BY <2>3, <2>4
<1>7. CASE Begin
    <2>1. /\ UNCHANGED <<message, parent>> /\ cur' = thread[This] /\ threaded' = threaded \cup {This}
          /\ pc = "refs"
        BY <1>7 DEF Begin, Each
    <2>2. n # cur /\ parent[n] = Null
        BY <1>0, <2>1 DEF LoopTypes
    <2>3. CASE message[n] # Null /\ message[n] \notin threaded
        <3>1. thread[message[n]] = n
            BY <2>3 DEF Nodes
        <3>2. message[n] # This
            BY <2>1, <3>1
        <3>3. QED BY <2>1, <2>3, <3>2
    <2>4. CASE message[n] = Null /\ \A x \in Node : parent[x] # n
        BY <2>1, <2>4
    <2>5. QED BY <1>1, <2>2, <2>3, <2>4
<1>8. CASE Follow
    <2>1. n # cur
        BY <1>0, <1>8, FollowSteps, NodesAre
    <2>2. n # Reference
        <3>1. SUFFICES ASSUME n = Reference PROVE FALSE
            OBVIOUS
        <3>2. Stops(Reference)
            BY <1>8, <3>1, FollowSteps
        <3>3. QED BY <1>8, <3>1, <3>2, FollowSteps, NodesAre
    <2>3. parent[n] = Null
        BY <1>8, <2>1, <2>2, FollowSteps
    <2>4. \A x \in Node : parent'[x] \in {parent[x], Reference, Top}
        BY <1>8, FollowSteps
    <2>5. UNCHANGED <<message, threaded>>
        BY <1>8, FollowSteps
    <2>6. QED BY <1>0, <1>1, <2>1, <2>2, <2>3, <2>4, <2>5
<1>9. CASE NoMoreReferences
    <2>1. /\ parent' = (IF parent[cur] = Null THEN [parent EXCEPT ![cur] = Top] ELSE parent)
          /\ UNCHANGED <<message, threaded>> /\ pc = "follow"
        BY <1>9 DEF NoMoreReferences
    <2>2. cur \in Node
        BY <2>1 DEF Looking
    <2>3. n # cur /\ parent[n] = Null
        BY <2>1, <2>2, NodesAre DEF TreeTypes
    <2>4. \A x \in Node : parent'[x] \in {parent[x], Top}
        BY <2>1, <2>2 DEF TreeTypes
    <2>5. QED BY <1>0, <1>1, <2>1, <2>3, <2>4
<1>10. ASSUME NEW r \in todo, Pseudo(r) PROVE Lone(n)
    <2> DEFINE at == thread[Chosen(r)]
    <2>1. /\ parent' = [m \in Node |-> IF m \in Moves(r) THEN at ELSE parent[m]]
          /\ UNCHANGED <<message, threaded, cur>>
        BY <1>10, PseudoIs
    <2>2. at \in Node /\ message[at] # Null /\ at # Null
        BY <1>10, ChosenReal, NodesAre DEF Real
    <2> HIDE DEF at
    <2>3. parent[n] = Null /\ n # cur
        BY <2>1, <2>2
    <2>4. \A x \in Node : parent'[x] = parent[x] \/ parent'[x] = at
        BY <2>1
    <2>5. QED BY <1>1, <2>1, <2>2, <2>3, <2>4
<1>11. QED BY <1>2, <1>3, <1>4, <1>5, <1>6, <1>7, <1>8, <1>9, <1>10, TreeSteps DEF TreeStep

-----------------------------------------------------------------------------
(* The theorems *)

LEMMA InitInv == Init => ThreadsInv
<1> SUFFICES ASSUME Init PROVE ThreadsInv
    OBVIOUS
<1> USE NodesAre DEF Init
<1>1. MailTypes
    <2>1. index = <<>> /\ index \in Seq(Email) /\ ToSet(index) = {} /\ DOMAIN index = {} /\ DOMAIN header = {}
        BY DEF ToSet
    <2>2. QED BY <2>1 DEF MailTypes
<1>2. TreeTypes
    BY DEF TreeTypes
<1>3. LoopTypes
    <2>1. left \in Seq(Id) /\ pos \in Nat \ {0} /\ todo = {} /\ cur = Null /\ pc = "idle"
        OBVIOUS
    <2>2. init \in BOOLEAN
        BY Zenon
    <2>3. QED BY <2>1, <2>2 DEF LoopTypes
<1>4. Progress
    BY DEF Progress
<1>5. Nodes
    BY DEF Nodes
<1>6. Unmade
    BY DEF Unmade
<1>7. Acyclic
    BY DEF Acyclic
<1>8. Emptied /\ Copies /\ Waiting /\ Orphans /\ Looking
    BY DEF Emptied, Copies, Waiting, Waits, Orphans, Looking, Real, Childless
<1>9. QED BY <1>1, <1>2, <1>3, <1>4, <1>5, <1>6, <1>7, <1>8 DEF ThreadsInv, TreeInv

LEMMA StepInv == ThreadsInv /\ [Next]_vars => ThreadsInv'
<1> SUFFICES ASSUME ThreadsInv, [Next]_vars PROVE ThreadsInv'
    OBVIOUS
<1>0. /\ MailTypes /\ TreeTypes /\ LoopTypes /\ Progress /\ Nodes /\ Unmade /\ Acyclic /\ Emptied
      /\ Copies /\ Waiting /\ Orphans /\ Looking
    BY DEF ThreadsInv, TreeInv
<1>1. MailTypes'
    BY <1>0, MailTypesNext
<1>2. TreeTypes' /\ LoopTypes'
    BY <1>0, TreeTypesNext, LoopTypesNext
<1>3. Progress'
    BY <1>0, <1>1, ProgressNext
<1>4. Nodes' /\ Unmade'
    BY <1>0, NodesNext, UnmadeNext
<1>5. Acyclic' /\ Emptied'
    BY <1>0, AcyclicNext, EmptiedNext
<1>6. Copies' /\ Waiting'
    BY <1>0, CopiesNext, WaitingNext
<1>7. Orphans' /\ Looking'
    BY <1>0, OrphansNext, LookingNext
<1>8. QED BY <1>1, <1>2, <1>3, <1>4, <1>5, <1>6, <1>7 DEF ThreadsInv, TreeInv

THEOREM ThreadsInvariant == Spec => []ThreadsInv
BY InitInv, StepInv, PTL DEF Spec

\* NoCycle: mutt_sort_threads() never puts a message below itself, whatever
\* the references of the messages and in whatever order they arrive: the loops
\* that walk up the tree come to an end.
THEOREM WalksEnd == Spec => []NoCycle
<1>1. ThreadsInv => NoCycle
    BY AcyclicWalks DEF ThreadsInv, TreeInv
<1>2. QED BY <1>1, ThreadsInvariant, PTL

\* EmptyHaveChildren: a node without a message that is in a thread has a child,
\* so that the loops of mutt_sort_subthreads() and linearize_tree() that step
\* from it to its child find one.
THEOREM EmptyHaveSome == Spec => []EmptyHaveChildren
<1>1. ThreadsInv => EmptyHaveChildren
    <2> SUFFICES ASSUME ThreadsInv, NEW n \in Node, ~Real(n), Children(n) = {}, Attached(n) PROVE FALSE
        BY DEF EmptyHaveChildren
    <2>1. parent[n] = Null
        BY DEF ThreadsInv, TreeInv, Emptied, Childless, Children
    <2>2. AtOrAbove(n) = {n}
        BY <2>1, AboveStep, NodesAre
    <2>3. QED BY <2>1, <2>2, NodesAre DEF Attached
<1>2. QED BY <1>1, ThreadsInvariant, PTL

\* UnlinksFromTop: whatever mutt_sort_threads() looks for a parent for hangs at
\* the top of the tree, if anywhere, as the unlink_message() from there needs.
THEOREM TopUnlinked == Spec => []UnlinksFromTop
<1>1. ThreadsInv => UnlinksFromTop
    BY DEF ThreadsInv, TreeInv, Looking, UnlinksFromTop
<1>2. QED BY <1>1, ThreadsInvariant, PTL

\* AllListed: the index that linearize_tree() makes from the tree holds every
\* message of the mailbox once.
THEOREM EveryoneListed == Spec => []AllListed
<1>1. ThreadsInv => AllListed
    <2> SUFFICES ASSUME MailTypes PROVE ToSet(index) = present /\ Len(index) = Cardinality(present)
        BY DEF ThreadsInv, AllListed
    <2>1. PICK k \in Nat : k = Len(index) /\ DOMAIN index = 1 .. k
        BY DEF MailTypes
    <2>2. ToSet(index) = present /\ index \in [1 .. k -> present]
        BY <2>1 DEF MailTypes, ToSet
    <2>3. index \in Bijection(1 .. k, present)
        BY <2>1, <2>2 DEF MailTypes, Bijection, Injection, Surjection, IsInjective, ToSet
    <2>4. ExistsBijection(1 .. k, present)
        BY <2>3 DEF ExistsBijection
    <2>5. Cardinality(present) = k
        BY <2>4, FS_CountingElements
    <2>6. QED BY <2>1, <2>2, <2>5
<1>2. QED BY <1>1, ThreadsInvariant, PTL

-----------------------------------------------------------------------------
(* The place of a message *)

\* An order of the ids that the headers agree with.
Agrees(rank) ==
    \A e \in DOMAIN header :
        LET path == <<IdOf(e)>> \o Candidates(header[e])
        IN  \A i \in 1 .. Len(path) - 1 : rank[path[i]] < rank[path[i + 1]]

\* A node stands for one id: the one it was made for, that of its message, that
\* under which it is found, and that of the message it is a copy of.
Names ==
    /\ \A n \in Id : Real(n) => IdOf(message[n]) = n
    /\ \A i \in Id : hash[i] # Null => NodeId(hash[i]) = i
    /\ \A n \in duplicate : NodeId(parent[n]) = NodeId(n)

\* What is threaded by subject is under a message, and released when the loop
\* comes to that message, before the first reference is followed.
Fakes ==
    /\ \A n \in fake : parent[n] \in Node /\ Real(parent[n])
    /\ pc = "attach" => \A n \in fake : \A i \in DOMAIN index : i < pos => parent[n] # thread[index[i]]
    /\ pc \in {"refs", "follow"} => fake = {}

\* What is threaded by references is below what the headers say is older.
Ascends(rank) ==
    \A n \in Node \ (fake \cup duplicate) :
        parent[n] \in Node => rank[NodeId(n)] < rank[NodeId(parent[n])]

\* The references left to follow are older still, and none that the message
\* itself names has been passed over, unless the headers do not agree.
Leads(rank) ==
    /\ left # <<>> => rank[NodeId(cur)] < rank[Head(left)]
    /\ \A i \in 1 .. Len(left) - 1 : rank[left[i]] < rank[left[i + 1]]

Ranked == \A rank \in [Id -> Id] : Agrees(rank) => Ascends(rank) /\ (pc = "follow" => Leads(rank))

Follows ==
    pc = "follow" =>
        /\ cur \notin duplicate
        /\ cur # thread[This] => ~Real(cur)
        /\ cur = thread[This] =>
              /\ ToSet(left) \subseteq ToSet(Candidates(header[This]))
              /\ Consistent => left = Candidates(header[This])

Under(e) == {i \in DOMAIN Candidates(header[e]) : NodeId(parent[thread[e]]) = Candidates(header[e])[i]}

\* The message is where its own header puts it.
Placed(e) ==
    IF parent[thread[e]] = Top \/ thread[e] \in fake
    THEN Candidates(header[e]) = <<>> \/ ~Consistent
    ELSE Under(e) # {} /\ (1 \in Under(e) \/ ~Consistent)

Places ==
    \A e \in ToSet(index) \cap threaded : thread[e] # cur /\ thread[e] \notin duplicate => Placed(e)

PlacesInv == Names /\ Fakes /\ Ranked /\ Follows /\ Places
-----------------------------------------------------------------------------
(* The ids of the nodes *)

\* A step that begins a new tree, and what any other does with the headers.
Anew  == Cleared /\ cur' = cur /\ pc = "idle"
Later == DOMAIN header \subseteq DOMAIN header' /\ \A e \in DOMAIN header : header'[e] = header[e]

LEMMA HeaderSteps == ASSUME [Next]_vars, ~Anew PROVE Later
<1>1. CASE UNCHANGED <<mailVars, world>> \/ Linearize
    BY <1>1 DEF mailVars, Linearize, Later
<1>2. ASSUME NEW e \in Email, Arrive(e) PROVE Later
    BY <1>2 DEF Arrive, Later
<1>3. ASSUME NEW e \in Email, Delete(e) PROVE Later
    BY <1>3 DEF Delete, Later
<1>4. ASSUME NEW e \in Email, Break(e) PROVE FALSE
    BY <1>4 DEF Break, May, Start, Anew
<1>5. ASSUME NEW e \in Email, NEW f \in Email, Link(e, f) PROVE FALSE
    BY <1>5 DEF Link, May, Start, Anew
<1>6. QED BY <1>1, <1>2, <1>3, <1>4, <1>5, MailSteps DEF MailStep

\* An order that the headers agree with is one that they agreed with.
LEMMA AgreesStays == ASSUME Later, NEW rank, Agrees(rank)' PROVE Agrees(rank)
<1> SUFFICES ASSUME NEW e \in DOMAIN header
             PROVE  LET path == <<IdOf(e)>> \o Candidates(header[e])
                    IN  \A i \in 1 .. Len(path) - 1 : rank[path[i]] < rank[path[i + 1]]
    BY DEF Agrees
<1>1. e \in DOMAIN header' /\ header'[e] = header[e] /\ IdOf(e)' = IdOf(e)
    BY DEF Later, IdOf
<1>2. LET path == <<IdOf(e)'>> \o Candidates(header'[e])
      IN  \A i \in 1 .. Len(path) - 1 : rank[path[i]] < rank[path[i + 1]]
    BY <1>1 DEF Agrees
<1>3. QED BY <1>1, <1>2

LEMMA ConsistentIs == Consistent <=> \E rank \in [Id -> Id] : Agrees(rank)
BY DEF Consistent, Agrees

LEMMA ConsistentStays == ASSUME Later, Consistent' PROVE Consistent
<1>1. (\E rank \in [Id -> Id] : Agrees(rank))'
    BY DEF Consistent, Agrees
<1>2. PICK rank \in [Id -> Id] : Agrees(rank)'
    BY <1>1
<1>3. QED BY <1>2, AgreesStays, ConsistentIs

\* What has a parent, a child, or is found under an id is in use.
LEMMA UsedAre ==
    ASSUME Unmade, Copies
    PROVE  /\ \A n \in Node : parent[n] # Null \/ Real(n) \/ n = cur => ~Unused(n)
           /\ \A x \in Node : parent[x] \in Node => ~Unused(parent[x])
           /\ \A i \in Id : hash[i] \in Node => ~Unused(hash[i])
BY DEF Unmade, Real

LEMMA RealIs ==
    ASSUME MailTypes, TreeTypes, Nodes, NEW n \in Node, Real(n)
    PROVE  /\ message[n] \in Email /\ message[n] \in ToSet(index) /\ message[n] \in DOMAIN header
           /\ thread[message[n]] = n /\ IdOf(message[n]) \in Id
<1>1. message[n] \in Email /\ thread[message[n]] = n
    BY DEF TreeTypes, Nodes, Real
<1>2. message[n] \in ToSet(index)
    BY <1>1, NodesAre DEF Nodes
<1>3. message[n] \in DOMAIN header /\ header[message[n]] \in Header
    BY <1>2 DEF MailTypes
<1>4. QED BY <1>1, <1>2, <1>3 DEF IdOf, Header

LEMMA NodeIdIs ==
    ASSUME MailTypes, TreeTypes, Nodes, NEW n \in Node, ~Unused(n) PROVE NodeId(n) \in Id
BY RealIs DEF NodeId, Unused, Real

LEMMA MessageStays ==
    ASSUME MailTypes, TreeTypes, LoopTypes, Nodes, Unmade, Copies, [Next]_vars, ~Anew,
           NEW n \in Node, Real(n)
    PROVE  message'[n] = message[n]
<1>1. CASE FillMissing
    BY <1>1, FillMissingIs DEF Real, TreeTypes
<1>2. CASE NewNode
    <2>1. message' = [message EXCEPT ![NewAt] = This] /\ Unused(NewAt) /\ NewAt \in Node
        BY <1>2, NewNodeIs, NewAtIs
    <2>2. n # NewAt
        BY <2>1 DEF Unmade, Real
    <2>3. QED BY <2>1, <2>2 DEF TreeTypes
<1>3. CASE UNCHANGED <<treeVars, cur>> \/ ReleasePseudo \/ Begin \/ Follow \/ NoMoreReferences
           \/ CheckSubjects \/ \E r \in todo : Pseudo(r)
    BY <1>3 DEF treeVars, ReleasePseudo, Begin, Follow, NoMoreReferences, CheckSubjects, Pseudo
<1>4. QED BY <1>1, <1>2, <1>3, TreeSteps DEF TreeStep, Anew

\* A node keeps its id.
LEMMA NodeIdStays ==
    ASSUME MailTypes, TreeTypes, LoopTypes, Nodes, Unmade, Copies, [Next]_vars, ~Anew,
           NEW n \in Node, ~Unused(n)
    PROVE  NodeId(n)' = NodeId(n)
<1>1. CASE n \in Id
    BY <1>1 DEF NodeId
<1>2. CASE n \notin Id
    <2>1. Real(n)
        BY <1>2 DEF Unused, Real
    <2>2. message'[n] = message[n] /\ message[n] \in DOMAIN header
        BY <2>1, MessageStays, RealIs
    <2>3. header'[message[n]] = header[message[n]]
        BY <2>2, HeaderSteps DEF Later
    <2>4. QED BY <1>2, <2>2, <2>3 DEF NodeId, IdOf
<1>3. QED BY <1>1, <1>2

\* The node that a reference leads to stands for the id referred to.
LEMMA ReferenceId ==
    ASSUME MailTypes, TreeTypes, LoopTypes, Nodes, Unmade, Copies, Names, Following
    PROVE  /\ NodeId(Reference) = Head(left)
           /\ hash[Head(left)] # Null => ~Unused(Reference) /\ Reference = Target(hash[Head(left)])
<1>1. Reference \in Node /\ Head(left) \in Id
    BY ReferenceIs
<1>2. CASE hash[Head(left)] = Null
    BY <1>1, <1>2 DEF Reference, NodeId
<1>3. CASE hash[Head(left)] # Null
    <2> DEFINE h == hash[Head(left)]
    <2>1. h \in Node /\ NodeId(h) = Head(left) /\ Reference = Target(h) /\ ~Unused(h)
        BY <1>1, <1>3, UsedAre DEF TreeTypes, Names, Reference
    <2>2. CASE h \in duplicate
        <3>1. Reference = parent[h] /\ parent[h] \in Node
            BY <2>1, <2>2 DEF Target, Copies
        <3>2. QED BY <1>3, <2>1, <2>2, <3>1, UsedAre DEF Names
    <2>3. CASE h \notin duplicate
        BY <1>3, <2>1, <2>3 DEF Target
    <2>4. QED BY <2>2, <2>3
<1>4. QED BY <1>2, <1>3

\* While references are followed, the way up leads to what is older.
LEMMA Climbs ==
    ASSUME MailTypes, TreeTypes, Nodes, Unmade, Copies, Names, fake = {},
           NEW rank \in [Id -> Id], Ascends(rank), NEW n \in Node, ~Unused(n), NEW a \in AtOrAbove(n)
    PROVE  rank[NodeId(n)] <= rank[NodeId(a)]
<1> DEFINE S == {x \in Node : ~Unused(x) /\ rank[NodeId(n)] <= rank[NodeId(x)]}
<1>0. \A x \in Node : ~Unused(x) => NodeId(x) \in Id /\ rank[NodeId(x)] \in Nat
    BY NodeIdIs DEF Id
<1>1. n \in S
    BY <1>0
<1>2. ASSUME NEW x \in S, parent[x] \in Node PROVE parent[x] \in S
    <2>1. ~Unused(parent[x])
        BY <1>2, UsedAre
    <2>2. rank[NodeId(x)] <= rank[NodeId(parent[x])]
        <3>1. CASE x \in duplicate
            BY <1>0, <1>2, <2>1, <3>1 DEF Names
        <3>2. CASE x \notin duplicate
            BY <1>0, <1>2, <2>1, <3>2 DEF Ascends
        <3>3. QED BY <3>1, <3>2
    <2>3. QED BY <1>0, <1>2, <2>1, <2>2
<1>3. Upward(S) /\ S \in SUBSET Node
    BY <1>2 DEF Upward
<1> HIDE DEF S
<1>4. AtOrAbove(n) \subseteq S
    BY <1>1, <1>3, AboveIs
<1>5. QED BY <1>4 DEF S

\* Where the headers agree no reference is passed over.
LEMMA PassedOver ==
    ASSUME MailTypes, TreeTypes, LoopTypes, Nodes, Unmade, Copies, Looking, Names, Fakes, Ranked,
           Following, InLoop
    PROVE  ~Consistent
<1> SUFFICES ASSUME NEW rank \in [Id -> Id], Agrees(rank) PROVE FALSE
    BY ConsistentIs
<1>1. pc = "follow" /\ left # <<>> /\ cur \in Node /\ fake = {}
    BY DEF Following, Looking, Fakes
<1>2. Ascends(rank) /\ rank[NodeId(cur)] < rank[Head(left)]
    BY <1>1 DEF Ranked, Leads
<1>3. Reference \in Node /\ ~Unused(Reference) /\ cur \in AtOrAbove(Reference) /\ NodeId(Reference) = Head(left)
    BY ReferenceIs, ReferenceId DEF InLoop, is_descendant
<1>4. rank[NodeId(Reference)] <= rank[NodeId(cur)]
    BY <1>1, <1>2, <1>3, Climbs
<1>5. rank[NodeId(cur)] \in Nat /\ rank[NodeId(Reference)] \in Nat
    <2>1. NodeId(cur) \in Id /\ NodeId(Reference) \in Id
        BY <1>1, <1>3, UsedAre, NodeIdIs
    <2>2. QED BY <2>1 DEF Id
<1>6. QED BY <1>2, <1>3, <1>4, <1>5


\* A missing message that arrives is the one that its node stood for.
LEMMA FillMissingId ==
    ASSUME MailTypes, TreeTypes, LoopTypes, Unmade, Names, FillMissing PROVE IdOf(This) = Found
<1>1. Found = hash[IdOf(This)] /\ IdOf(This) \in Id /\ Found \in Id /\ Found # Null
    <2>1. pos <= Len(index) /\ Found # Null
        BY DEF FillMissing, Each
    <2>2. QED BY <2>1, ThisIs, FillMissingIs DEF Found
<1>2. QED BY <1>1 DEF Names, NodeId

\* What is a copy stays under what it is a copy of.
LEMMA CopyStays ==
    ASSUME MailTypes, TreeTypes, LoopTypes, Nodes, Unmade, Acyclic, Copies, Looking, [Next]_vars, ~Anew,
           NEW n \in duplicate
    PROVE  parent'[n] = parent[n] /\ n \in duplicate' /\ n \in Node /\ parent[n] \in Node
<1>1. n \in Node /\ parent[n] \in Node /\ Real(n) /\ n \notin fake /\ parent[n] \notin {Null, Top}
    BY NodesAre DEF Copies, TreeTypes
<1>2. CASE ReleasePseudo
    BY <1>1, <1>2 DEF ReleasePseudo
<1>3. CASE FillMissing
    <2>1. n \notin Detached(Found)
        BY <1>1, <1>3, FillMissingIs, DetachedIs DEF Real
    <2>2. QED BY <1>1, <1>3, <2>1, FillMissingIs
<1>4. CASE NewNode
    <2>1. n # NewAt
        BY <1>1, <1>4, NewAtIs, UsedAre
    <2>2. QED BY <1>1, <1>4, <2>1, NewAtIs, NewNodeIs DEF TreeTypes
<1>5. CASE Follow
    <2>1. n # cur /\ (n = Reference => parent[Reference] # Null)
        BY <1>1, <1>5, FollowSteps
    <2>2. QED BY <1>1, <1>5, <2>1, FollowSteps
<1>6. CASE NoMoreReferences
    BY <1>1, <1>6 DEF NoMoreReferences, TreeTypes
<1>7. ASSUME NEW r \in todo, Pseudo(r) PROVE parent'[n] = parent[n] /\ n \in duplicate'
    <2>1. n \notin Moves(r)
        BY <1>1 DEF Moves, Looking
    <2>2. QED BY <1>1, <1>7, <2>1, PseudoIs
<1>8. CASE UNCHANGED <<treeVars, cur>> \/ Begin \/ CheckSubjects
    BY <1>1, <1>8 DEF treeVars, Begin, CheckSubjects
<1>9. QED BY <1>1, <1>2, <1>3, <1>4, <1>5, <1>6, <1>7, <1>8, TreeSteps DEF TreeStep, Anew

LEMMA NamesNext ==
    ASSUME MailTypes, TreeTypes, LoopTypes, Nodes, Unmade, Acyclic, Copies, Looking, Names, [Next]_vars
    PROVE  Names'
<1> DEFINE N(n) == IF n \in Id THEN n ELSE header'[message'[n]].id
           A == \A n \in Id : message'[n] # Null => header'[message'[n]].id = n
           B == \A i \in Id : hash'[i] # Null => N(hash'[i]) = i
           C == \A n \in duplicate' : N(parent'[n]) = N(n)
<1>0. ASSUME A, B, C PROVE Names'
    BY <1>0 DEF Names, NodeId, IdOf, Real
<1>1. CASE Anew
    BY <1>0, <1>1, NodesAre DEF Anew, Cleared
<1> SUFFICES ASSUME ~Anew PROVE A /\ B /\ C
    BY <1>0, <1>1
<1>2. Later
    BY HeaderSteps
<1>3. ASSUME NEW n \in Node, ~Unused(n) PROVE N(n) = NodeId(n)
    BY <1>3, NodeIdStays DEF NodeId, IdOf
<1>4. ASSUME NEW n \in Node, Real(n)
      PROVE  message'[n] = message[n] /\ header'[message'[n]].id = IdOf(message[n])
    BY <1>2, <1>4, MessageStays, RealIs DEF Later, IdOf
<1>5. ASSUME NEW n \in duplicate PROVE N(parent'[n]) = N(n)
    <2>1. n \in Node /\ parent'[n] = parent[n] /\ parent[n] \in Node
        BY CopyStays
    <2>2. ~Unused(n) /\ ~Unused(parent[n])
        BY <2>1, UsedAre DEF Copies
    <2>3. N(n) = NodeId(n) /\ N(parent[n]) = NodeId(parent[n])
        BY <1>3, <2>1, <2>2
    <2>4. QED BY <2>1, <2>3 DEF Names
<1>6. ASSUME NEW i \in Id, hash[i] # Null PROVE N(hash[i]) = i
    <2>1. hash[i] \in Node /\ ~Unused(hash[i]) /\ NodeId(hash[i]) = i
        BY <1>6, UsedAre DEF TreeTypes, Names
    <2>2. QED BY <1>3, <2>1
<1>7. ASSUME NEW n \in Id, Real(n) PROVE header'[message'[n]].id = n
    BY <1>4, <1>7, NodesAre DEF Names
<1> HIDE DEF N
<1>8. CASE UNCHANGED <<treeVars, cur>> \/ ReleasePseudo \/ Begin \/ NoMoreReferences \/ CheckSubjects
           \/ \E r \in todo : Pseudo(r)
    <2>1. UNCHANGED <<message, hash, duplicate>>
        BY <1>8 DEF treeVars, ReleasePseudo, Begin, NoMoreReferences, CheckSubjects, Pseudo
    <2>2. QED BY <1>5, <1>6, <1>7, <2>1 DEF Real
<1>9. CASE FillMissing
    <2>1. /\ message' = [message EXCEPT ![Found] = This] /\ UNCHANGED <<hash, duplicate, header>>
          /\ Found \in Node /\ IdOf(This) = Found /\ message \in [Node -> Email \cup {Null}]
        BY <1>9, FillMissingIs, FillMissingId DEF mailVars, TreeTypes
    <2>2. ASSUME NEW n \in Id, message'[n] # Null PROVE header'[message'[n]].id = n
        <3>1. CASE n = Found
            BY <2>1, <3>1 DEF IdOf
        <3>2. CASE n # Found
            BY <1>7, <2>1, <2>2, <3>2, NodesAre DEF Real
        <3>3. QED BY <3>1, <3>2
    <2>3. QED BY <1>5, <1>6, <2>1, <2>2
<1>10. CASE NewNode
    <2>1. /\ message' = [message EXCEPT ![NewAt] = This] /\ hash' = [hash EXCEPT ![IdOf(This)] = NewAt]
          /\ parent' = [parent EXCEPT ![NewAt] = Twin] /\ header' = header
          /\ duplicate' = (IF Twin = Null THEN duplicate ELSE duplicate \cup {NewAt})
          /\ Each("attach") /\ pos <= Len(index)
        BY <1>10, NewNodeIs DEF mailVars, Each
    <2>2. /\ NewAt \in Node /\ This \in Email /\ IdOf(This) \in Id
          /\ Twin # Null => Twin \in Node /\ ~Unused(Twin) /\ Found \in Node /\ Real(Found)
                            /\ Twin = Target(Found)
        BY <1>10, NewAtIs DEF Target
    <2>3. message'[NewAt] = This /\ (NewAt \in Id => NewAt = IdOf(This))
        BY <2>1, <2>2, NodesAre DEF TreeTypes, NewAt
    <2>4. N(NewAt) = IdOf(This)
        BY <2>1, <2>3 DEF N, IdOf
    <2>5. ASSUME NEW n \in Id, message'[n] # Null PROVE header'[message'[n]].id = n
        <3>1. CASE n = NewAt
            BY <2>1, <2>3, <3>1 DEF IdOf
        <3>2. CASE n # NewAt
            BY <1>7, <2>1, <2>5, <3>2, NodesAre DEF Real, TreeTypes
        <3>3. QED BY <3>1, <3>2
    <2>6. ASSUME NEW i \in Id, hash'[i] # Null PROVE N(hash'[i]) = i
        <3>1. CASE i = IdOf(This)
            BY <2>1, <2>2, <2>4, <3>1 DEF TreeTypes
        <3>2. CASE i # IdOf(This)
            BY <1>6, <2>1, <2>6, <3>2 DEF TreeTypes
        <3>3. QED BY <3>1, <3>2
    <2>7. ASSUME NEW n \in duplicate' PROVE N(parent'[n]) = N(n)
        <3>1. CASE n \in duplicate
            BY <1>5, <3>1
        <3>2. CASE n \notin duplicate
            <4>1. n = NewAt /\ Twin # Null /\ parent'[n] = Twin
                BY <2>1, <2>2, <2>7, <3>2 DEF TreeTypes
            <4>2. Found = hash[IdOf(This)] /\ Found # Null
                BY <2>2, <4>1, NodesAre DEF Found
            <4>3. NodeId(Found) = IdOf(This)
                BY <2>2, <4>2 DEF Names
            <4>4. NodeId(Twin) = NodeId(Found)
                BY <2>2, <4>1 DEF Names, Target
            <4>5. QED BY <1>3, <2>2, <2>4, <4>1, <4>3, <4>4
        <3>3. QED BY <3>1, <3>2
    <2>8. QED BY <2>5, <2>6, <2>7
<1>11. CASE Follow
    <2>1. /\ hash' = (IF hash[Head(left)] = Null THEN [hash EXCEPT ![Reference] = Reference] ELSE hash)
          /\ UNCHANGED <<message, duplicate>> /\ Following /\ Head(left) \in Id
        BY <1>11, FollowIs, ReferenceIs
    <2>2. ASSUME NEW i \in Id, hash'[i] # Null PROVE N(hash'[i]) = i
        <3>1. CASE hash'[i] = hash[i]
            BY <1>6, <2>2, <3>1
        <3>2. CASE hash'[i] # hash[i]
            <4>1. hash[Head(left)] = Null /\ Reference = Head(left)
                BY <2>1, <3>2 DEF Reference
            <4>2. i = Reference /\ hash'[i] = i
                BY <2>1, <3>2, <4>1 DEF TreeTypes
            <4>3. QED BY <4>2 DEF N
        <3>3. QED BY <3>1, <3>2
    <2>3. QED BY <1>5, <1>7, <2>1, <2>2 DEF Real
<1>12. QED BY <1>8, <1>9, <1>10, <1>11, TreeSteps DEF TreeStep, Anew

-----------------------------------------------------------------------------
(* What is threaded by subject, and what is older *)

\* What is at pos, and what is before it in the index, has its own node.
LEMMA OwnNode ==
    ASSUME MailTypes, TreeTypes, LoopTypes, Nodes, NEW i \in DOMAIN index, NEW j \in DOMAIN index, i # j,
           thread[index[i]] # Null
    PROVE  thread[index[i]] # thread[index[j]]
<1>1. index[i] \in Email /\ index[j] \in Email /\ index[i] # index[j]
    BY DEF MailTypes
<1>2. QED BY <1>1 DEF Nodes

LEMMA FakesNext ==
    ASSUME MailTypes, TreeTypes, LoopTypes, Progress, Nodes, Unmade, Acyclic, Copies, Looking, Fakes, [Next]_vars,
           MailTypes'
    PROVE  Fakes'
<1> DEFINE A == \A n \in fake' : parent'[n] \in Node /\ message'[parent'[n]] # Null
           B == pc' = "attach" => \A n \in fake' : \A i \in DOMAIN index' :
                                     i < pos' => parent'[n] # thread'[index'[i]]
           C == pc' \in {"refs", "follow"} => fake' = {}
<1>0. ASSUME A, B, C PROVE Fakes'
    BY <1>0 DEF Fakes, Real
<1>1. CASE Anew
    BY <1>0, <1>1 DEF Anew, Cleared
<1> SUFFICES ASSUME ~Anew PROVE A /\ B /\ C
    BY <1>0, <1>1
<1>2. ASSUME NEW n \in fake
      PROVE  n \in Node /\ parent[n] \in Node /\ message[parent[n]] # Null /\ message'[parent[n]] # Null
    BY <1>2, MessageStays DEF Fakes, TreeTypes, Real
<1>3. ASSUME fake' \subseteq fake, \A n \in fake' : parent'[n] = parent[n] PROVE A
    BY <1>2, <1>3
<1>4. pc = "attach" /\ pos <= Len(index) => pos \in DOMAIN index /\ pos \in Nat
    BY ThisIs DEF LoopTypes
<1>5. CASE ReleasePseudo
    <2>1. /\ parent' = [n \in Node |-> IF n \in Children(thread[This]) \cap fake THEN Top ELSE parent[n]]
          /\ fake' = fake \ Children(thread[This]) /\ UNCHANGED <<thread, message, index>>
          /\ pos' = pos + 1 /\ pc' = "attach" /\ pc = "attach" /\ pos <= Len(index)
        BY <1>5 DEF ReleasePseudo, NextEach, Each, Kept, mailVars
    <2>2. \A n \in fake' : n \in fake /\ parent'[n] = parent[n] /\ parent[n] # thread[This]
        BY <1>2, <2>1 DEF Children
    <2>3. B
        <3>1. ASSUME NEW n \in fake', NEW i \in DOMAIN index, i < pos + 1 PROVE parent[n] # thread[index[i]]
            <4>1. i \in Nat /\ (i = pos \/ i < pos)
                BY <1>4, <2>1, <3>1 DEF MailTypes
            <4>2. QED BY <2>1, <2>2, <4>1 DEF Fakes, This
        <3>2. QED BY <2>1, <2>2, <3>1
    <2>4. A
        BY <1>3, <2>2
    <2>5. C
        BY <2>1
    <2> HIDE DEF A, B, C
    <2>6. QED BY <2>3, <2>4, <2>5
<1>6. CASE FillMissing \/ NewNode
    <2>1. /\ fake' \subseteq fake /\ \A n \in fake' : parent'[n] = parent[n]
          /\ index' = index /\ pos' = pos + 1 /\ pc' = "attach" /\ pc = "attach" /\ pos <= Len(index)
          /\ \E q \in Node : /\ \A n \in fake' : parent[n] # q
                            /\ thread' = [thread EXCEPT ![This] = q] /\ This \in Email /\ message[q] = Null
        <3>1. CASE FillMissing
            <4>1. /\ fake' = fake \ Detached(Found)
                  /\ parent' = [n \in Node |-> IF n \in Detached(Found) THEN Null ELSE parent[n]]
                  /\ Found \in Node /\ message[Found] = Null /\ thread' = [thread EXCEPT ![This] = Found]
                  /\ This \in Email /\ Each("attach") /\ NextEach /\ index' = index
                BY <3>1, FillMissingIs DEF mailVars
            <4>2. \A n \in fake : n \in Node /\ parent[n] # Found
                BY <1>2, <4>1
            <4>3. QED BY <4>1, <4>2 DEF Each, NextEach
        <3>2. CASE NewNode
            <4>1. /\ fake' = fake /\ parent' = [parent EXCEPT ![NewAt] = Twin]
                  /\ thread' = [thread EXCEPT ![This] = NewAt] /\ Each("attach") /\ NextEach /\ index' = index
                BY <3>2, NewNodeIs DEF mailVars
            <4>2. NewAt \in Node /\ Unused(NewAt) /\ This \in Email
                BY <3>2, NewAtIs
            <4>3. NewAt \notin fake /\ message[NewAt] = Null
                BY <4>2 DEF Unmade
            <4>4. \A n \in fake : n \in Node /\ parent[n] # NewAt
                BY <1>2, <4>3
            <4>5. QED BY <4>1, <4>2, <4>3, <4>4 DEF Each, NextEach, TreeTypes
        <3>3. QED BY <1>6, <3>1, <3>2
    <2>2. A
        BY <1>3, <2>1
    <2>3. B
        <3>1. ASSUME NEW n \in fake', NEW i \in DOMAIN index, i < pos + 1 PROVE parent[n] # thread'[index[i]]
            <4>1. i \in Nat /\ (i = pos \/ i < pos) /\ index[i] \in Email
                BY <1>4, <2>1, <3>1 DEF MailTypes
            <4>2. CASE index[i] = This
                BY <2>1, <4>2 DEF TreeTypes
            <4>3. CASE index[i] # This
                BY <2>1, <4>1, <4>3 DEF Fakes, This, TreeTypes
            <4>4. QED BY <4>2, <4>3
        <3>2. QED BY <2>1, <3>1
    <2>4. C
        BY <2>1
    <2> HIDE DEF A, B, C
    <2>5. QED BY <2>2, <2>3, <2>4
<1>7. CASE AllAttached
    <2>1. UNCHANGED <<fake, parent, message>> /\ pc = "attach" /\ pos > Len(index) /\ pc' = "refs"
        BY <1>7 DEF AllAttached, treeVars
    <2>2. fake = {}
        <3> SUFFICES ASSUME NEW n \in fake PROVE FALSE
            OBVIOUS
        <3>1. parent[n] \in Node /\ Real(parent[n])
            BY DEF Fakes
        <3>2. message[parent[n]] \in ToSet(index) /\ thread[message[parent[n]]] = parent[n]
            BY <3>1, RealIs
        <3>3. PICK i \in DOMAIN index : index[i] = message[parent[n]]
            BY <3>2 DEF ToSet
        <3>4. i < pos
            BY <2>1, <3>3 DEF MailTypes, LoopTypes
        <3>5. QED BY <2>1, <3>2, <3>3, <3>4 DEF Fakes
    <2>3. QED BY <2>1, <2>2
<1>8. CASE AlreadyThreaded \/ Begin \/ NoLoops \/ NoMoreReferences \/ Follow
    <2>1. fake = {} /\ fake' = fake /\ pc' \in {"refs", "follow"}
        BY <1>8 DEF AlreadyThreaded, Begin, NoLoops, NoMoreReferences, Follow, Each, NextEach, Following, Done,
                    treeVars, Fakes
    <2>2. QED BY <2>1
<1>9. CASE CheckSubjects \/ Linearize \/ \E r \in todo : NoParent(r)
    <2>1. UNCHANGED <<fake, parent, message>> /\ pc' \in {"idle", "pseudo"}
        BY <1>9 DEF CheckSubjects, Linearize, NoParent, treeVars
    <2>2. QED BY <1>3, <2>1
<1>10. ASSUME NEW r \in todo, Pseudo(r) PROVE A /\ B /\ C
    <2> DEFINE at == thread[Chosen(r)]
    <2>1. /\ parent' = [m \in Node |-> IF m \in Moves(r) THEN at ELSE parent[m]]
          /\ fake' = fake \cup {r} /\ message' = message /\ pc' = "pseudo"
        BY <1>10, PseudoIs
    <2>2. at \in Node /\ message[at] # Null
        BY <1>10, ChosenReal DEF Real
    <2>3. r \in Node /\ r \in Moves(r)
        BY DEF LoopTypes, Moves
    <2> HIDE DEF at
    <2>4. A
        BY <1>2, <2>1, <2>2, <2>3
    <2>5. QED BY <2>1, <2>4
<1>11. CASE User \/ \E e \in Email : Arrive(e)
    <2>1. ASSUME NEW rebuild \in BOOLEAN, Sort(rebuild) PROVE A /\ B /\ C
        <3>1. UNCHANGED treeVars /\ pos' = 1 /\ pc' = "attach"
            BY <2>1 DEF Sort, Start, Anew
        <3>2. B
            BY <3>1, MailTypes' DEF MailTypes
        <3>3. QED BY <1>3, <3>1, <3>2 DEF treeVars
    <2>2. CASE SortNothing
        BY <1>3, <2>2 DEF SortNothing, vars, treeVars, Fakes
    <2>3. ASSUME NEW e \in Email, Delete(e) \/ Break(e) \/ \E f \in Email : Link(e, f) PROVE FALSE
        BY <2>3 DEF Delete, Break, Link, May, Start, Anew, loopVars
    <2>4. ASSUME NEW e \in Email, Arrive(e) PROVE A /\ B /\ C
        BY <1>3, <2>4 DEF Arrive, treeVars
    <2>5. QED BY <1>11, <2>1, <2>2, <2>3, <2>4 DEF User
<1>12. CASE UNCHANGED vars
    BY <1>3, <1>12 DEF vars, treeVars, mailVars, loopVars, Fakes
<1>13. QED BY <1>5, <1>6, <1>7, <1>8, <1>9, <1>10, <1>11, <1>12 DEF Next, Sorting

\* Whoever gets a parent that it did not have gets it by the reference that is
\* followed, as a copy, or as a reply by subject.
LEMMA ParentSteps ==
    ASSUME ThreadsInv, Fakes, [Next]_vars, ~Anew, NEW n \in Node, parent'[n] # parent[n], parent'[n] \in Node
    PROVE  \/ Follow /\ n = cur /\ parent'[n] = Reference
           \/ NewNode /\ n = NewAt /\ n \in duplicate'
           \/ n \in fake'
<1> USE DEF ThreadsInv, TreeInv
<1>1. CASE ReleasePseudo
    <2>1. parent'[n] \in {Top, parent[n]}
        BY <1>1 DEF ReleasePseudo
    <2>2. QED BY <2>1, NodesAre
<1>2. CASE FillMissing
    <2>1. parent'[n] \in {Null, parent[n]}
        BY <1>2, FillMissingIs
    <2>2. QED BY <2>1, NodesAre
<1>3. CASE NewNode
    <2>1. n = NewAt /\ Twin # Null
        BY <1>3, NewNodeIs, NodesAre DEF TreeTypes
    <2>2. QED BY <1>3, <2>1, NewNodeIs
<1>4. CASE Follow
    <2>1. n = cur \/ (n = Reference /\ parent'[n] = Top)
        BY <1>4, FollowSteps
    <2>2. QED BY <1>4, <2>1, FollowSteps, NodesAre
<1>5. CASE NoMoreReferences
    <2>1. parent'[n] \in {Top, parent[n]}
        BY <1>5 DEF NoMoreReferences, TreeTypes
    <2>2. QED BY <2>1, NodesAre
<1>6. ASSUME NEW r \in todo, Pseudo(r) PROVE n \in fake'
    <2>1. n \in Moves(r) /\ fake' = fake \cup {r}
        BY <1>6, PseudoIs
    <2>2. QED BY <2>1 DEF Moves
<1>7. CASE UNCHANGED <<treeVars, cur>> \/ Begin \/ CheckSubjects
    BY <1>7 DEF treeVars, Begin, CheckSubjects
<1>8. QED BY <1>1, <1>2, <1>3, <1>4, <1>5, <1>6, <1>7, TreeSteps DEF TreeStep, Anew

\* Only a node that is put at the top, or taken out, ceases to be a fake.
LEMMA FakeSteps ==
    ASSUME ThreadsInv, [Next]_vars, ~Anew, NEW n \in fake, n \notin fake'
    PROVE  /\ n \in Node
           /\ \/ ReleasePseudo /\ parent'[n] = Top
              \/ FillMissing /\ parent'[n] = Null /\ n \in Detached(Found)
<1> USE DEF ThreadsInv, TreeInv
<1>1. n \in Node
    BY DEF TreeTypes
<1>2. CASE ReleasePseudo
    BY <1>1, <1>2 DEF ReleasePseudo
<1>3. CASE FillMissing
    BY <1>1, <1>3, FillMissingIs
<1>4. CASE UNCHANGED <<treeVars, cur>> \/ NewNode \/ Begin \/ Follow \/ NoMoreReferences \/ CheckSubjects
           \/ \E r \in todo : Pseudo(r)
    BY <1>4 DEF treeVars, NewNode, Begin, Follow, NoMoreReferences, CheckSubjects, Pseudo
<1>5. QED BY <1>2, <1>3, <1>4, TreeSteps DEF TreeStep, Anew

LEMMA AscendsNext ==
    ASSUME ThreadsInv, Names, Fakes, [Next]_vars, ~Anew, NEW rank \in [Id -> Id], Ascends(rank),
           pc = "follow" => Leads(rank)
    PROVE  Ascends(rank)'
<1> USE DEF ThreadsInv, TreeInv
<1> SUFFICES ASSUME NEW n \in Node, n \notin fake', n \notin duplicate', parent'[n] \in Node
             PROVE  rank[NodeId(n)'] < rank[NodeId(parent[n])']
    BY DEF Ascends
<1> DEFINE N(m) == IF m \in Id THEN m ELSE header'[message'[m]].id
<1>1. rank[N(n)] < rank[N(parent'[n])]
    <2>1. ASSUME NEW m \in Node, ~Unused(m) PROVE N(m) = NodeId(m)
        BY <2>1, NodeIdStays DEF NodeId, IdOf
    <2> HIDE DEF N
    <2>2. CASE parent'[n] = parent[n]
        <3>1. n \notin duplicate
            BY CopyStays
        <3>2. n \notin fake
            BY <2>2, FakeSteps, NodesAre
        <3>3. rank[NodeId(n)] < rank[NodeId(parent[n])]
            BY <2>2, <3>1, <3>2 DEF Ascends
        <3>4. ~Unused(n) /\ ~Unused(parent[n])
            BY <2>2, UsedAre, NodesAre
        <3>5. QED BY <2>1, <2>2, <3>3, <3>4
    <2>3. CASE parent'[n] # parent[n]
        <3>1. Follow /\ n = cur /\ parent'[n] = Reference
            BY <2>3, ParentSteps
        <3>2. Following /\ pc = "follow" /\ left # <<>>
            BY <3>1, FollowIs DEF Following
        <3>3. rank[NodeId(cur)] < rank[Head(left)]
            BY <3>2 DEF Leads
        <3>4. NodeId(Reference) = Head(left) /\ Reference \in Node /\ Head(left) \in Id
            BY <3>2, ReferenceId, ReferenceIs
        <3>5. N(cur) = NodeId(cur)
            BY <2>1, <3>1, UsedAre
        <3>6. N(Reference) = Head(left)
            <4>1. CASE hash[Head(left)] = Null
                BY <3>4, <4>1 DEF Reference, N
            <4>2. CASE hash[Head(left)] # Null
                BY <2>1, <3>2, <3>4, <4>2, ReferenceId
            <4>3. QED BY <4>1, <4>2
        <3>7. QED BY <3>1, <3>3, <3>5, <3>6
    <2>4. QED BY <2>2, <2>3
<1>2. QED BY <1>1 DEF NodeId, IdOf

\* An order along a message and its references is one along the references.
LEMMA PathIs ==
    ASSUME NEW rank, NEW a \in Id, NEW c \in Seq(Id), NEW path, path = <<a>> \o c,
           \A i \in 1 .. Len(path) - 1 : rank[path[i]] < rank[path[i + 1]]
    PROVE  /\ c # <<>> => rank[a] < rank[Head(c)]
           /\ \A i \in 1 .. Len(c) - 1 : rank[c[i]] < rank[c[i + 1]]
<1>1. PICK k \in Nat : k = Len(c) /\ DOMAIN c = 1 .. k
    OBVIOUS
<1>2. Len(path) = k + 1 /\ path[1] = a /\ \A i \in 1 .. k : path[i + 1] = c[i]
    BY <1>1
<1>3. ASSUME c # <<>> PROVE rank[a] < rank[Head(c)]
    <2>1. k >= 1 /\ Head(c) = c[1]
        BY <1>1, <1>3
    <2>2. rank[path[1]] < rank[path[1 + 1]] /\ path[1 + 1] = c[1]
        BY <1>1, <1>2, <2>1
    <2>3. QED BY <1>2, <2>1, <2>2
<1>4. ASSUME NEW i \in 1 .. Len(c) - 1 PROVE rank[c[i]] < rank[c[i + 1]]
    <2>1. i \in 1 .. k /\ i + 1 \in 1 .. k
        BY <1>1, <1>4
    <2>2. path[i + 1] = c[i] /\ path[(i + 1) + 1] = c[i + 1]
        BY <1>2, <2>1
    <2>3. i + 1 \in 1 .. Len(path) - 1
        BY <1>1, <1>2, <1>4
    <2>4. QED BY <2>2, <2>3
<1>5. QED BY <1>3, <1>4

LEMMA TailLeads ==
    ASSUME NEW rank, NEW c \in Seq(Id), c # <<>>,
           \A i \in 1 .. Len(c) - 1 : rank[c[i]] < rank[c[i + 1]]
    PROVE  /\ Tail(c) # <<>> => rank[Head(c)] < rank[Head(Tail(c))]
           /\ \A i \in 1 .. Len(Tail(c)) - 1 : rank[Tail(c)[i]] < rank[Tail(c)[i + 1]]
<1>1. PICK k \in Nat : k = Len(c) /\ k >= 1
    OBVIOUS
<1>2. Tail(c) \in Seq(Id) /\ Len(Tail(c)) = k - 1 /\ \A i \in 1 .. k - 1 : Tail(c)[i] = c[i + 1]
    BY <1>1
<1>3. ASSUME Tail(c) # <<>> PROVE rank[Head(c)] < rank[Head(Tail(c))]
    <2>1. k > 1
        BY <1>1, <1>2, <1>3
    <2>2. Head(c) = c[1] /\ Head(Tail(c)) = c[1 + 1]
        BY <1>1, <1>2, <2>1
    <2>3. QED BY <1>1, <2>1, <2>2
<1>4. ASSUME NEW i \in 1 .. Len(Tail(c)) - 1 PROVE rank[Tail(c)[i]] < rank[Tail(c)[i + 1]]
    <2>1. i \in 1 .. k - 1 /\ i + 1 \in 1 .. k - 1
        BY <1>1, <1>2, <1>4
    <2>2. Tail(c)[i] = c[i + 1] /\ Tail(c)[i + 1] = c[(i + 1) + 1]
        BY <1>2, <2>1
    <2>3. rank[c[i + 1]] < rank[c[(i + 1) + 1]]
        BY <1>1, <2>1
    <2>4. QED BY <2>2, <2>3
<1>5. QED BY <1>3, <1>4

\* The message whose references are followed, and its node.
LEMMA BeginIs ==
    ASSUME ThreadsInv, Names, Begin
    PROVE  /\ cur' = thread[This] /\ cur' \in Node /\ Real(cur') /\ cur' \notin duplicate /\ NodeId(cur') = IdOf(This)
           /\ This \in DOMAIN header /\ header[This] \in Header /\ IdOf(This) \in Id
           /\ left' = Candidates(header[This]) /\ left' \in Seq(Id) /\ This \notin threaded
           /\ threaded' = threaded \cup {This} /\ pc' = "follow" /\ message[thread[This]] = This
           /\ UNCHANGED <<message, header, index, thread, parent, fake, duplicate, pos>>
<1> USE DEF ThreadsInv, TreeInv
<1>1. /\ cur' = thread[This] /\ left' = Candidates(header[This]) /\ This \notin threaded /\ pc = "refs"
      /\ pc' = "follow" /\ pos <= Len(index) /\ threaded' = threaded \cup {This}
      /\ UNCHANGED <<message, header, index, thread, parent, fake, duplicate, pos>>
    BY DEF Begin, Each, Kept, mailVars
<1>2. pos \in DOMAIN index /\ header[This] \in Header /\ This \in DOMAIN header /\ IdOf(This) \in Id
    BY <1>1, ThisIs
<1>3. thread[This] # Null
    BY <1>1, <1>2 DEF Progress, This
<1>4. thread[This] \in Node /\ message[thread[This]] = This /\ Real(thread[This])
    BY <1>1, <1>3, ThisNode
<1>5. thread[This] \notin duplicate
    BY <1>1, <1>4 DEF Copies
<1>6. NodeId(thread[This]) = IdOf(This)
    BY <1>4 DEF NodeId, Names
<1>7. Candidates(header[This]) \in Seq(Id)
    BY <1>2, CandidatesAre
<1>8. QED BY <1>1, <1>2, <1>4, <1>5, <1>6, <1>7

\* The steps that go on following references.
LEMMA FollowOn ==
    ASSUME ThreadsInv, [Next]_vars, pc' = "follow"
    PROVE  \/ Begin
           \/ Follow /\ ~Stops(Reference)
           \/ NoLoops
           \/ UNCHANGED vars
<1>1. CASE Follow
    BY <1>1, FollowSteps DEF ThreadsInv, TreeInv
<1>2. CASE ReleasePseudo \/ FillMissing \/ NewNode \/ AllAttached \/ AlreadyThreaded \/ NoMoreReferences
           \/ CheckSubjects \/ Linearize \/ (\E r \in todo : NoParent(r) \/ Pseudo(r))
           \/ (\E e \in Email : Arrive(e))
    BY <1>2 DEF ReleasePseudo, FillMissing, NewNode, AllAttached, AlreadyThreaded, NoMoreReferences,
                CheckSubjects, Linearize, NoParent, Pseudo, Arrive, NextEach, Each, Done
<1>3. CASE User
    <2>1. CASE SortNothing
        BY <2>1 DEF SortNothing
    <2>2. CASE ~SortNothing
        BY <1>3, <2>2 DEF User, Sort, Delete, Break, Link, May, Start, loopVars
    <2>3. QED BY <2>1, <2>2
<1>4. QED BY <1>1, <1>2, <1>3 DEF Next, Sorting

LEMMA LeadsNext ==
    ASSUME ThreadsInv, Names, Fakes, Ranked, [Next]_vars, pc' = "follow", NEW rank \in [Id -> Id], Agrees(rank)
    PROVE  Leads(rank)'
<1> USE DEF ThreadsInv, TreeInv
<1> DEFINE N(m) == IF m \in Id THEN m ELSE header'[message'[m]].id
<1>0. ASSUME left' # <<>> => rank[N(cur')] < rank[Head(left')],
             \A i \in 1 .. Len(left') - 1 : rank[left'[i]] < rank[left'[i + 1]]
      PROVE  Leads(rank)'
    BY <1>0 DEF Leads, NodeId, IdOf
<1>1. CASE Begin
    <2>1. LET path == <<IdOf(This)>> \o Candidates(header[This])
          IN  \A i \in 1 .. Len(path) - 1 : rank[path[i]] < rank[path[i + 1]]
        BY <1>1, BeginIs DEF Agrees
    <2>2. /\ left' # <<>> => rank[IdOf(This)] < rank[Head(left')]
          /\ \A i \in 1 .. Len(left') - 1 : rank[left'[i]] < rank[left'[i + 1]]
        BY <1>1, <2>1, BeginIs, PathIs
    <2>3. N(cur') = IdOf(This)
        BY <1>1, BeginIs DEF NodeId, IdOf
    <2> HIDE DEF N
    <2>4. QED BY <1>0, <2>2, <2>3
<1>2. ASSUME pc = "follow" PROVE Leads(rank)
    BY <1>2 DEF Ranked
<1>3. CASE Follow /\ ~Stops(Reference)
    <2>1. /\ Following /\ cur' = Reference /\ left' = Tail(left) /\ UNCHANGED <<message, header>> /\ left # <<>>
          /\ left \in Seq(Id)
        BY <1>3, FollowIs DEF Following, Kept, mailVars, LoopTypes
    <2>2. NodeId(Reference) = Head(left)
        BY <2>1, ReferenceId
    <2>3. N(cur') = Head(left)
        BY <2>1, <2>2 DEF NodeId, IdOf
    <2> HIDE DEF N
    <2>4. \A i \in 1 .. Len(left) - 1 : rank[left[i]] < rank[left[i + 1]]
        BY <1>2, <2>1 DEF Leads, Following
    <2>5. QED BY <1>0, <2>1, <2>3, <2>4, TailLeads
<1>4. CASE NoLoops
    <2>1. Following /\ InLoop
        BY <1>4 DEF NoLoops
    <2>2. QED BY <2>1, PassedOver, ConsistentIs
<1>5. CASE UNCHANGED vars
    <2>1. UNCHANGED <<pc, cur, left, message, header>>
        BY <1>5 DEF vars, treeVars, mailVars, loopVars
    <2>2. Leads(rank)
        BY <1>2, <2>1
    <2>3. QED BY <1>0, <2>1, <2>2 DEF Leads, NodeId, IdOf
<1>6. QED BY <1>1, <1>3, <1>4, <1>5, FollowOn

LEMMA RankedNext ==
    ASSUME ThreadsInv, Names, Fakes, Ranked, [Next]_vars, Looking'
    PROVE  Ranked'
<1> SUFFICES ASSUME NEW rank \in [Id -> Id], Agrees(rank)'
             PROVE  Ascends(rank)' /\ (pc' = "follow" => Leads(rank)')
    BY DEF Ranked
<1>1. CASE Anew
    <2>1. pc' # "follow"
        BY <1>1, NodesAre DEF Anew, Looking, ThreadsInv, TreeInv, LoopTypes
    <2>2. Ascends(rank)'
        BY <1>1, NodesAre DEF Anew, Cleared, Ascends
    <2>3. QED BY <2>1, <2>2
<1>2. CASE ~Anew
    <2>1. Agrees(rank)
        BY <1>2, HeaderSteps, AgreesStays
    <2>2. Ascends(rank) /\ (pc = "follow" => Leads(rank))
        BY <2>1 DEF Ranked
    <2>3. Ascends(rank)'
        BY <1>2, <2>2, AscendsNext
    <2>4. QED BY <2>1, <2>3, LeadsNext
<1>3. QED BY <1>1, <1>2

LEMMA FollowsNext ==
    ASSUME ThreadsInv, Names, Fakes, Ranked, Follows, [Next]_vars
    PROVE  Follows'
<1> USE DEF ThreadsInv, TreeInv
<1> SUFFICES ASSUME pc' = "follow"
             PROVE  /\ cur' \notin duplicate'
                    /\ cur' # thread'[index'[pos']] => message'[cur'] = Null
                    /\ cur' = thread'[index'[pos']] =>
                          /\ ToSet(left') \subseteq ToSet(Candidates(header'[index'[pos']]))
                          /\ Consistent' => left' = Candidates(header'[index'[pos']])
    BY DEF Follows, Real, This
<1>1. CASE Begin
    BY <1>1, BeginIs DEF This
<1>2. CASE Follow /\ ~Stops(Reference)
    <2>1. cur' = Reference /\ message' = message /\ duplicate' = duplicate /\ thread' = thread /\ pc = "follow"
        BY <1>2, FollowSteps
    <2>2. UNCHANGED <<index, pos>>
        BY <1>2, FollowIs DEF Kept, mailVars
    <2>3. message[Reference] = Null
        BY <1>2 DEF Stops, Real
    <2>4. Reference \notin duplicate
        BY <2>3 DEF Copies, Real
    <2>5. message[thread[This]] # Null
        <3>1. pos \in DOMAIN index /\ pos <= Len(index)
            BY <2>1 DEF Progress, MailTypes
        <3>2. thread[This] # Null
            BY <2>1, <3>1 DEF Progress, This
        <3>3. QED BY <3>1, <3>2, ThisNode
    <2>6. QED BY <2>1, <2>2, <2>3, <2>4, <2>5 DEF This
<1>3. CASE NoLoops
    <2>1. /\ Following /\ InLoop /\ pc = "follow" /\ left # <<>> /\ left \in Seq(Id) /\ left' = Tail(left)
          /\ UNCHANGED <<index, pos, header, thread, message, duplicate, cur>>
        BY <1>3 DEF NoLoops, Following, Kept, mailVars, treeVars, LoopTypes
    <2>2. ~Consistent
        BY <2>1, PassedOver
    <2>3. ~Consistent'
        BY <2>1, <2>2 DEF Consistent, IdOf
    <2>4. ToSet(left') \subseteq ToSet(left)
        BY <2>1 DEF ToSet
    <2>5. QED BY <2>1, <2>3, <2>4 DEF Follows, Real, This
<1>4. CASE UNCHANGED vars
    <2>1. UNCHANGED <<index, pos, header, thread, message, duplicate, cur, left, pc>>
        BY <1>4 DEF vars, treeVars, mailVars, loopVars
    <2>2. Consistent' <=> Consistent
        BY <2>1 DEF Consistent, IdOf
    <2>3. QED BY <2>1, <2>2 DEF Follows, Real, This
<1>5. QED BY <1>1, <1>2, <1>3, <1>4, FollowOn

-----------------------------------------------------------------------------
(* Where the messages are *)

\* A message that has been threaded, and whose node is left where it is, is
\* where its header puts it as before.
LEMMA PlacedStays ==
    ASSUME ThreadsInv, [Next]_vars, ~Anew, NEW e \in ToSet(index) \cap threaded, NEW n \in Node, n = thread[e],
           Real(n), thread'[e] = n, Placed(e),
           \/ parent'[n] = parent[n] /\ parent[n] \in Node \cup {Top} /\ (n \in fake <=> n \in fake')
           \/ (parent[n] = Top \/ n \in fake) /\ (parent'[n] = Top \/ n \in fake')
    PROVE  Placed(e)'
<1> USE DEF ThreadsInv, TreeInv
<1> DEFINE N(m) == IF m \in Id THEN m ELSE header'[message'[m]].id
           C == Candidates(header[e])
           U == {i \in DOMAIN C : N(parent'[n]) = C[i]}
<1>1. e \in DOMAIN header /\ Later
    BY HeaderSteps DEF MailTypes
<1>2. header'[e] = header[e]
    BY <1>1 DEF Later
<1>3. Consistent' => Consistent
    BY <1>1, ConsistentStays
<1>4. Under(e)' = U
    BY <1>2 DEF Under, NodeId, IdOf
<1>5. ASSUME IF parent'[n] = Top \/ n \in fake' THEN C = <<>> \/ ~Consistent'
             ELSE U # {} /\ (1 \in U \/ ~Consistent')
      PROVE  Placed(e)'
    BY <1>2, <1>4, <1>5 DEF Placed
<1> HIDE DEF U
<1>6. CASE parent[n] = Top \/ n \in fake
    <2>1. C = <<>> \/ ~Consistent
        BY <1>6 DEF Placed
    <2>2. parent'[n] = Top \/ n \in fake'
        BY <1>6
    <2>3. QED BY <1>3, <1>5, <2>1, <2>2
<1>7. CASE parent[n] # Top /\ n \notin fake
    <2>1. parent'[n] = parent[n] /\ parent[n] \in Node /\ n \notin fake'
        BY <1>7
    <2>2. ~Unused(parent[n])
        BY <2>1, UsedAre
    <2>3. N(parent[n]) = NodeId(parent[n])
        BY <2>1, <2>2, NodeIdStays DEF NodeId, IdOf
    <2>4. Under(e) # {} /\ (1 \in Under(e) \/ ~Consistent)
        BY <1>7 DEF Placed
    <2> HIDE DEF N
    <2>5. U = Under(e)
        BY <2>1, <2>3 DEF U, Under
    <2>6. QED BY <1>3, <1>5, <1>7, <2>1, <2>4, <2>5
<1>8. QED BY <1>6, <1>7

\* The message that is threaded now has found a message it names, and the first
\* of them if the headers agree, or none that it could name.
LEMMA FollowPlaces ==
    ASSUME ThreadsInv, Names, Fakes, Follows, Follow, NEW e, e = This, cur = thread[e], e \in DOMAIN header,
           header[e] \in Header, thread' = thread, header' = header, message' = message
    PROVE  Placed(e)'
<1> USE DEF ThreadsInv, TreeInv
<1> DEFINE N(m) == IF m \in Id THEN m ELSE header'[message'[m]].id
           C == Candidates(header[e])
           U == {i \in DOMAIN C : N(parent'[cur]) = C[i]}
<1>1. /\ Following /\ pc = "follow" /\ cur \in Node /\ parent'[cur] = Reference /\ Reference \in Node /\ fake' = fake
      /\ left # <<>> /\ left \in Seq(Id)
    BY FollowIs, FollowSteps DEF Following, LoopTypes
<1>2. fake = {} /\ parent'[cur] # Top
    BY <1>1, NodesAre DEF Fakes
<1>3. NodeId(Reference) = Head(left)
    BY <1>1, ReferenceId
<1>4. N(parent'[cur]) = Head(left)
    BY <1>1, <1>3 DEF NodeId, IdOf
<1>5. Under(e)' = U
    BY DEF Under, NodeId, IdOf
<1> HIDE DEF N
<1>6. C \in Seq(Id) /\ ToSet(left) \subseteq ToSet(C) /\ (Consistent => left = C)
    BY <1>1, CandidatesAre DEF Follows
<1>7. Head(left) \in ToSet(left) /\ Head(left) = left[1] /\ 1 \in DOMAIN left
    BY <1>1 DEF ToSet
<1>8. U # {}
    BY <1>4, <1>6, <1>7 DEF ToSet
<1>9. Consistent => 1 \in U
    BY <1>4, <1>6, <1>7
<1>10. Consistent' <=> Consistent
    BY DEF Consistent, IdOf
<1> HIDE DEF U
<1>11. QED BY <1>1, <1>2, <1>5, <1>8, <1>9, <1>10 DEF Placed

LEMMA ThreadedNodes ==
    ASSUME ThreadsInv, NEW e \in ToSet(index) \cap threaded
    PROVE  /\ e \in Email /\ thread[e] \in Node /\ message[thread[e]] = e /\ Real(thread[e])
           /\ thread[e] # cur => parent[thread[e]] \in Node \cup {Top}
<1> USE DEF ThreadsInv, TreeInv
<1>1. e \in Email /\ thread[e] # Null
    BY DEF Nodes, TreeTypes
<1>2. thread[e] \in Node /\ message[thread[e]] = e /\ Real(thread[e])
    BY <1>1, NodesAre DEF TreeTypes, Nodes, Real, Email, Null
<1>3. ~Waits(thread[e])
    BY <1>2 DEF Waits
<1>4. QED BY <1>1, <1>2, <1>3 DEF Orphans, TreeTypes

LEMMA PlacesNext ==
    ASSUME ThreadsInv, Names, Fakes, Ranked, Follows, Places, [Next]_vars, ThreadsInv'
    PROVE  Places'
<1> SUFFICES ASSUME NEW e \in ToSet(index') \cap threaded', thread'[e] # cur', thread'[e] \notin duplicate'
             PROVE  Placed(e)'
    BY DEF Places
<1>0. e \in Email /\ thread'[e] \in Node
    BY ThreadedNodes, ThreadsInv' DEF ThreadsInv, TreeInv, TreeTypes, Nodes
<1>1. ~Anew
    BY DEF Anew, Cleared
<1> DEFINE Stays(n) == \/ parent'[n] = parent[n] /\ (n \in fake <=> n \in fake')
                       \/ (parent[n] = Top \/ n \in fake) /\ (parent'[n] = Top \/ n \in fake')
<1>2. ASSUME e \in ToSet(index) \cap threaded, thread[e] # cur, thread[e] = thread'[e],
             thread[e] \notin duplicate, Stays(thread[e])
      PROVE  Placed(e)'
    <2>1. Placed(e)
        BY <1>2 DEF Places
    <2>2. thread[e] \in Node /\ Real(thread[e]) /\ parent[thread[e]] \in Node \cup {Top}
        BY <1>2, ThreadedNodes
    <2>3. PICK n \in Node : n = thread[e]
        BY <2>2
    <2>4. QED BY <1>1, <1>2, <2>1, <2>2, <2>3, PlacedStays
<1>3. CASE ReleasePseudo
    <2>1. /\ parent' = [n \in Node |-> IF n \in Children(thread[This]) \cap fake THEN Top ELSE parent[n]]
          /\ fake' = fake \ Children(thread[This]) /\ UNCHANGED <<thread, threaded, index, cur, duplicate>>
        BY <1>3 DEF ReleasePseudo, NextEach, Kept, mailVars
    <2>2. Stays(thread[e])
        BY <1>0, <2>1
    <2> HIDE DEF Stays
    <2>3. QED BY <1>2, <2>1, <2>2
<1>4. CASE FillMissing
    <2>1. /\ thread' = [thread EXCEPT ![This] = Found] /\ This \in Email /\ Found \in Node /\ message[Found] = Null
          /\ thread[This] = Null /\ UNCHANGED <<threaded, index, duplicate, cur>>
          /\ parent' = [n \in Node |-> IF n \in Detached(Found) THEN Null ELSE parent[n]]
          /\ fake' = fake \ Detached(Found)
        BY <1>4, FillMissingIs DEF ThreadsInv, TreeInv, mailVars, NextEach
    <2>2. e \in ToSet(index) \cap threaded
        BY <2>1
    <2>3. Real(thread[e]) /\ thread[e] \in Node
        BY <2>2, ThreadedNodes
    <2>4. e # This
        BY <2>1, <2>3, NodesAre
    <2>5. thread'[e] = thread[e]
        BY <1>0, <2>1, <2>4 DEF ThreadsInv, TreeInv, TreeTypes
    <2>6. thread[e] \notin Detached(Found)
        BY <2>1, <2>3, DetachedIs DEF ThreadsInv, TreeInv, Real
    <2>7. Stays(thread[e])
        BY <2>1, <2>3, <2>6
    <2> HIDE DEF Stays
    <2>8. QED BY <1>2, <2>1, <2>2, <2>5, <2>7
<1>5. CASE NewNode
    <2>1. /\ thread' = [thread EXCEPT ![This] = NewAt] /\ thread[This] = Null
          /\ parent' = [parent EXCEPT ![NewAt] = Twin] /\ fake' = fake /\ UNCHANGED <<index, cur>>
          /\ duplicate' = (IF Twin = Null THEN duplicate ELSE duplicate \cup {NewAt})
          /\ threaded' = (IF Twin = Null THEN threaded ELSE threaded \cup {This})
        BY <1>5, NewNodeIs DEF mailVars, NextEach
    <2>2. NewAt \in Node /\ Unused(NewAt) /\ This \in Email
        BY <1>5, NewAtIs DEF ThreadsInv, TreeInv
    <2>3. e # This
        <3>1. SUFFICES ASSUME e = This PROVE FALSE
            OBVIOUS
        <3>2. thread'[e] = NewAt
            BY <1>0, <2>1, <3>1 DEF ThreadsInv, TreeInv, TreeTypes
        <3>3. Twin = Null /\ e \in threaded
            BY <2>1, <3>2
        <3>4. QED BY <2>1, <3>1, <3>3 DEF ThreadsInv, TreeInv, Nodes
    <2>4. e \in ToSet(index) \cap threaded /\ thread'[e] = thread[e]
        BY <1>0, <2>1, <2>3 DEF ThreadsInv, TreeInv, TreeTypes
    <2>5. Real(thread[e]) /\ thread[e] \in Node
        BY <2>4, ThreadedNodes
    <2>6. thread[e] # NewAt
        BY <2>2, <2>5, UsedAre DEF ThreadsInv, TreeInv
    <2>7. Stays(thread[e]) /\ thread[e] \notin duplicate
        BY <2>1, <2>2, <2>4, <2>5, <2>6 DEF ThreadsInv, TreeInv, TreeTypes
    <2> HIDE DEF Stays
    <2>8. QED BY <1>2, <2>1, <2>4, <2>7
<1>6. CASE Begin
    <2>1. /\ cur' = thread[This] /\ threaded' = threaded \cup {This}
          /\ UNCHANGED <<index, thread, parent, fake, duplicate>> /\ pc = "refs"
        BY <1>6, BeginIs DEF Begin, Each
    <2>2. cur = Null
        BY <2>1 DEF ThreadsInv, TreeInv, LoopTypes
    <2>3. e \in ToSet(index) \cap threaded /\ thread[e] # cur /\ Stays(thread[e])
        BY <1>0, <2>1, <2>2, NodesAre
    <2> HIDE DEF Stays
    <2>4. QED BY <1>2, <2>1, <2>3
<1>7. ASSUME pc = "follow", thread[e] = cur, thread' = thread, index' = index, threaded' = threaded
      PROVE  e = This /\ e \in DOMAIN header /\ header[e] \in Header
    <2>1. e \in ToSet(index) \cap threaded
        BY <1>7
    <2>2. Real(cur) /\ message[cur] = e
        BY <1>7, <2>1, ThreadedNodes
    <2>3. cur = thread[This]
        BY <1>7, <2>2 DEF Follows
    <2>4. pos \in DOMAIN index /\ pos <= Len(index)
        BY <1>7 DEF ThreadsInv, TreeInv, Progress, MailTypes
    <2>5. thread[This] # Null
        BY <1>7, <2>4 DEF ThreadsInv, TreeInv, Progress, This
    <2>6. message[thread[This]] = This
        BY <2>4, <2>5, ThisNode DEF ThreadsInv, TreeInv
    <2>7. QED BY <2>2, <2>3, <2>4, <2>6, ThisIs DEF ThreadsInv, TreeInv
<1>8. CASE Follow
    <2>1. UNCHANGED <<thread, threaded, index, message, header, fake, duplicate>> /\ pc = "follow"
        BY <1>8, FollowIs DEF Kept, mailVars, Following
    <2>2. CASE thread[e] = cur
        BY <1>7, <1>8, <2>1, <2>2, FollowPlaces
    <2>3. CASE thread[e] # cur
        <3>1. e \in ToSet(index) \cap threaded
            BY <2>1
        <3>2. thread[e] \in Node /\ parent[thread[e]] # Null
            BY <2>3, <3>1, ThreadedNodes, NodesAre
        <3>3. parent'[thread[e]] = parent[thread[e]]
            <4>1. CASE thread[e] = Reference
                BY <1>8, <3>2, <4>1, FollowSteps DEF ThreadsInv, TreeInv
            <4>2. CASE thread[e] # Reference
                BY <1>8, <2>3, <3>2, <4>2, FollowSteps DEF ThreadsInv, TreeInv
            <4>3. QED BY <4>1, <4>2
        <3>4. Stays(thread[e])
            BY <2>1, <3>3
        <3> HIDE DEF Stays
        <3>5. QED BY <1>2, <2>1, <2>3, <3>1, <3>4
    <2>4. QED BY <2>2, <2>3
<1>9. CASE NoMoreReferences
    <2>1. /\ UNCHANGED <<thread, threaded, index, message, header, fake, duplicate>> /\ pc = "follow" /\ left = <<>>
          /\ parent' = IF parent[cur] = Null THEN [parent EXCEPT ![cur] = Top] ELSE parent
        BY <1>9 DEF NoMoreReferences, Kept, mailVars
    <2>2. CASE thread[e] = cur
        <3>1. e = This
            BY <1>7, <2>1, <2>2
        <3>2. parent'[cur] = Top
            BY <2>1 DEF ThreadsInv, TreeInv, Looking, TreeTypes
        <3>3. Candidates(header[e]) = <<>> \/ ~Consistent
            BY <2>1, <2>2, <3>1 DEF Follows
        <3>4. Consistent' <=> Consistent
            BY <2>1 DEF Consistent, IdOf
        <3>5. QED BY <2>1, <2>2, <3>2, <3>3, <3>4 DEF Placed
    <2>3. CASE thread[e] # cur
        <3>1. e \in ToSet(index) \cap threaded /\ Stays(thread[e])
            BY <1>0, <2>1, <2>3 DEF ThreadsInv, TreeInv, TreeTypes
        <3> HIDE DEF Stays
        <3>2. QED BY <1>2, <2>1, <2>3, <3>1
    <2>4. QED BY <2>2, <2>3
<1>10. ASSUME NEW r \in todo, Pseudo(r) PROVE Placed(e)'
    <2>1. /\ parent' = [n \in Node |-> IF n \in Moves(r) THEN thread[Chosen(r)] ELSE parent[n]]
          /\ fake' = fake \cup {r} /\ UNCHANGED <<thread, threaded, index, duplicate, cur>>
        BY <1>10, PseudoIs DEF Kept, mailVars
    <2>2. e \in ToSet(index) \cap threaded
        BY <2>1
    <2>3. parent[r] = Top /\ (\A n \in Moves(r) : n = r \/ n \in fake)
        BY DEF ThreadsInv, TreeInv, Looking, Moves
    <2>4. Stays(thread[e])
        BY <1>0, <2>1, <2>3
    <2> HIDE DEF Stays
    <2>5. QED BY <1>2, <2>1, <2>2, <2>4
<1>11. CASE CheckSubjects
    <2>1. UNCHANGED <<thread, threaded, index, parent, fake, duplicate, cur>>
        BY <1>11 DEF CheckSubjects, mailVars
    <2>2. QED BY <1>2, <2>1
<1>12. CASE UNCHANGED <<treeVars, cur>>
    <2>1. UNCHANGED <<thread, threaded, parent, fake, duplicate, cur>>
        BY <1>12 DEF treeVars
    <2>2. e \in ToSet(index)
        BY <1>0, <2>1, NodesAre DEF ThreadsInv, TreeInv, Nodes
    <2>3. QED BY <1>2, <2>1, <2>2
<1>13. QED BY <1>1, <1>3, <1>4, <1>5, <1>6, <1>8, <1>9, <1>10, <1>11, <1>12, TreeSteps DEF TreeStep, Anew
LEMMA InitPlaces == Init => PlacesInv
<1> SUFFICES ASSUME Init PROVE PlacesInv
    OBVIOUS
<1> USE NodesAre DEF Init
<1>1. Names
    BY DEF Names, Real
<1>2. Fakes
    BY DEF Fakes
<1>3. Ranked
    BY DEF Ranked, Ascends
<1>4. Follows
    BY DEF Follows
<1>5. Places
    BY DEF Places
<1>6. QED BY <1>1, <1>2, <1>3, <1>4, <1>5 DEF PlacesInv

LEMMA StepPlaces == ThreadsInv /\ PlacesInv /\ [Next]_vars => PlacesInv'
<1> SUFFICES ASSUME ThreadsInv, PlacesInv, [Next]_vars PROVE PlacesInv'
    OBVIOUS
<1>1. ThreadsInv' /\ Names /\ Fakes /\ Ranked /\ Follows /\ Places
    BY StepInv DEF PlacesInv
<1>2. Names'
    BY <1>1, NamesNext DEF ThreadsInv, TreeInv
<1>3. Fakes'
    BY <1>1, FakesNext DEF ThreadsInv, TreeInv
<1>4. Ranked'
    BY <1>1, RankedNext DEF ThreadsInv, TreeInv
<1>5. Follows'
    BY <1>1, FollowsNext
<1>6. Places'
    BY <1>1, PlacesNext
<1>7. QED BY <1>2, <1>3, <1>4, <1>5, <1>6 DEF PlacesInv

THEOREM PlacesInvariant == Spec => []PlacesInv
<1>1. Spec => [](ThreadsInv /\ PlacesInv)
    BY InitInv, StepInv, InitPlaces, StepPlaces, PTL DEF Spec
<1>2. QED BY <1>1, PTL

\* OwnHeaderDecides: when mutt_sort_threads() is done, every message is under
\* one that its own header names, and where the headers agree under the first
\* that it names, whatever the messages that arrived before it, or stand for
\* it, have said; what is at the top, or threaded by subject, names nothing.
THEOREM HeaderDecides == Spec => []OwnHeaderDecides
<1>1. ThreadsInv /\ PlacesInv => OwnHeaderDecides
    <2> SUFFICES ASSUME ThreadsInv, Places, pc = "idle", NEW e \in ToSet(index) \cap threaded,
                        thread[e] \notin duplicate
                 PROVE  Placed(e)
        BY DEF PlacesInv, OwnHeaderDecides, Placed, Under
    <2>1. thread[e] # cur
        BY NodesAre, ThreadedNodes DEF ThreadsInv, LoopTypes
    <2>2. QED BY <2>1 DEF Places
<1>2. QED BY <1>1, ThreadsInvariant, PlacesInvariant, PTL
=============================================================================
