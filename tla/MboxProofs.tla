----------------------------- MODULE MboxProofs -----------------------------
(***************************************************************************)
(* Three facts about mbox files, for any number of messages of any length, *)
(* next to a delivery agent that respects the lock:                        *)
(*   MailIsKept    no mail is lost, whatever fails and whenever NeoMutt    *)
(*                 dies,                                                   *)
(*   ViewIsOfFile  the index says where the messages are, and              *)
(*   SyncWrites    a sync writes what the index shows;                     *)
(* and one for every environment: SyncHasWork, a sync finds what it is     *)
(* called for.                                                             *)
(* PlaceInv says where the messages are, in the file, in the copy and in   *)
(* the file that is being written; KeptInv says that what starts somewhere *)
(* is whole there, or safe elsewhere; WrittenInv says what the copy is.    *)
(***************************************************************************)
EXTENDS Mbox, ListsProofs

\* The lock is one of the open file: closing another descriptor keeps it.
FileLock == LockType = "flock"

\* One failure to write back, at most, where no other client removes mail: the
\* next one would replace the copy that is left behind.
OneFailure == \A e \in Environments : ~e.rewrite /\ e.saveEmpty => ~e.failAgain

Entry == [text : Seq(Block) \ {<<>>}, offset : Nat, deleted : BOOLEAN, changed : BOOLEAN]

-----------------------------------------------------------------------------
(* Types, who holds the lock, and what a sync finds, in every environment *)

\* A sync finds what it is called for.
ChangeInv ==
    /\ changed => AnyChanged(view) /\ pc \notin {"closed", "read"}
    /\ pc \in {"lock", "check", "copy"} => Touched # {}

LockInv ==
    /\ pc \in {"check", "copy", "write", "commit"} => lock = "excl"
    /\ pc \in {"closed", "read", "idle", "reread"} <=> op = "none"
    /\ pc \in {"closed", "idle", "lock", "reread", "resync", "synced"} => lock = "none"

Syncing == {"copy", "write", "commit", "bail"}

\* How far the loops of a sync have come.
Bounds ==
    /\ pc \notin Syncing \/ (pc = "copy" /\ next = 0) => tmp = <<>> /\ next = 0 /\ newOffset = <<>>
    /\ pc = "copy" /\ next # 0 =>
          /\ FirstTouched < next /\ next <= Len(view) + 1
          /\ Len(newOffset) = next - FirstTouched
    /\ pc \in {"write", "commit"} => Touched # {} /\ Len(newOffset) = Len(view) + 1 - FirstTouched
    /\ pc = "write" => next <= Len(tmp) /\ (next # 0 => Offset + next <= Len(file))

Base == TypeOK /\ ChangeInv /\ LockInv /\ Bounds

-----------------------------------------------------------------------------
(* Where the messages are *)

\* The text stands in f after the block o, up to the next "From " or the end.
Holds(f, o, text) ==
    /\ Len(text) > 0 /\ o + Len(text) <= Len(f)
    /\ \A k \in 1 .. Len(text) : f[o + k] = text[k] /\ (text[k].part = 1 <=> k = 1)
    /\ o + Len(text) < Len(f) => f[o + Len(text) + 1].part = 1

Unmarked(v) == DOMAIN v \ Marked(v)

\* The entries K of v are in f where they say, and in their order before end.
InPlace(f, v, K) == \A i \in K : Holds(f, v[i].offset, v[i].text)

InOrder(v, K, end) ==
    /\ \A i \in K : v[i].offset < end
    /\ \A i, j \in K : i < j => v[i].offset < v[j].offset

\* From Commit on, until they are dropped, marked entries are nowhere.
Live == IF pc = "synced" THEN Unmarked(view) ELSE DOMAIN view

\* What the write-back makes of the file, and Commit of the view.
Target  == SubSeq(file, 1, Offset) \o tmp
Place(new, i) == new[i - FirstTouched + 1]
NewView == [i \in DOMAIN view |->
               IF i >= FirstTouched /\ ~view[i].deleted THEN [view[i] EXCEPT !.offset = Place(newOffset, i)]
               ELSE view[i]]

AtRest == {"idle", "lock", "check", "copy", "bail", "giveup", "synced"}

Control ==
    /\ pc = "read" => readonly \/ lock = "shared"
    /\ pc \notin {"resync", "reread"}
    /\ pc \notin {"read", "idle"} => ~readonly
    /\ pc \in {"closed", "read"} => view = <<>>

\* The size that was noted is that of the file, or mail has come since.
SizeInv ==
    /\ pc \in AtRest \cup {"read"} => size <= Len(file) /\ (size < Len(file) => IsFrom(file, size + 1))
    /\ pc \in {"copy", "commit"} \/ (pc = "read" /\ ~readonly) => size = Len(file)

ViewInv ==
    pc \in AtRest => InPlace(file, view, Live) /\ (~readonly => InOrder(view, Live, size))

\* The entries from FirstTouched up to n are in the copy t, at the places new.
Done(n) == {i \in FirstTouched .. n - 1 : ~view[i].deleted}
CopyOf(t, new, n) ==
    /\ \A i \in Done(n) :
          Place(new, i) >= Offset /\ Holds(t, Place(new, i) - Offset, view[i].text)
    /\ \A i, j \in Done(n) : i < j => Place(new, i) < Place(new, j)
    /\ \A p \in DOMAIN t : IsFrom(t, p) => \E i \in Done(n) : Place(new, i) = Offset + p - 1
    /\ t # <<>> => IsFrom(t, 1)

CopyInv == pc = "copy" /\ next # 0 => CopyOf(tmp, newOffset, next)

WriteInv ==
    /\ pc = "write" =>
          /\ Offset <= Len(file)
          /\ \A k \in 1 .. next : file[Offset + k] = tmp[k]
          /\ tmp # <<>> => IsFrom(tmp, 1)
          /\ next = 0 => IsFrom(file, Offset + 1)
    /\ pc \in {"write", "commit"} =>
          LET t == IF pc = "write" THEN Target ELSE file
          IN  InPlace(t, NewView, Unmarked(view)) /\ InOrder(NewView, Unmarked(view), Len(t))

Placed == Control /\ SizeInv /\ ViewInv /\ CopyInv /\ WriteInv

PlaceInv == OnlyDeliveries => Placed

-----------------------------------------------------------------------------
(* What is kept *)

Safe == saved \cup savefile

\* The message that starts at p is whole.
WholeAt(f, p) ==
    LET m == f[p].msg
    IN  /\ p + Length[m] <= Len(f) + 1
        /\ \A k \in 1 .. Length[m] : f[p + k - 1] = [msg |-> m, part |-> k]

\* What starts in f was delivered, and is whole, and there once, or safe
\* elsewhere; and all that was delivered and is wanted starts in f, or is safe.
Sound(f, safe, all, not) ==
    /\ \A p \in DOMAIN f : IsFrom(f, p) => f[p].msg \in all /\ (WholeAt(f, p) \/ f[p].msg \in safe)
    /\ \A p, q \in DOMAIN f :
          IsFrom(f, p) /\ IsFrom(f, q) /\ p # q /\ f[p].msg = f[q].msg => f[p].msg \in safe
    /\ \A m \in all \ not : m \in safe \/ \E p \in DOMAIN f : IsFrom(f, p) /\ f[p].msg = m

\* What starts in f, up to n, and is not among the entries K of v is not
\* wanted, or safe.
Shown(f, n, v, K, safe) ==
    \A p \in DOMAIN f : p <= n /\ IsFrom(f, p) =>
        f[p].msg \in safe \/ \E i \in K : v[i].offset = p - 1

SoundInv ==
    /\ pc # "write" => Sound(file, Safe, delivered, unwanted)
    /\ pc = "write" => /\ Sound(Target, Safe, delivered, unwanted)
                       /\ Sound(file, Safe \cup Recoverable(tmp), delivered, unwanted)

ShownInv ==
    /\ \A i \in Marked(view) : Id(view[i]) \in unwanted \cup Safe
    /\ pc \in AtRest /\ ~readonly => Shown(file, size, view, Live, unwanted \cup Safe)
    /\ pc = "write" => Shown(Target, Len(Target), NewView, Unmarked(view), unwanted \cup Safe)
    /\ pc = "commit" => Shown(file, Len(file), NewView, Unmarked(view), unwanted \cup Safe)

AllHeld == SoundInv /\ ShownInv

KeptInv == OnlyDeliveries /\ env.saveEmpty => AllHeld

-----------------------------------------------------------------------------
(* Facts about the operators *)

\* A set of numbers that is not empty has a smallest one.
LEMMA HasLeast ==
    ASSUME NEW S, S \subseteq Nat, S # {}
    PROVE  \E n \in S : \A k \in S : n <= k
<1> DEFINE T == {n \in Nat : \A k \in Nat : k <= n => k \notin S}
<1> SUFFICES ASSUME \A n \in S : \E k \in S : ~(n <= k) PROVE FALSE
    OBVIOUS
<1>1. 0 \in T
    <2>1. ASSUME 0 \in S PROVE FALSE
        <3>1. PICK k \in S : ~(0 <= k)
            BY <2>1
        <3>2. QED BY <3>1
    <2>2. QED BY <2>1
<1>2. ASSUME NEW n \in Nat, n \in T PROVE n + 1 \in T
    <2>1. ASSUME n + 1 \in S PROVE FALSE
        <3>1. PICK k \in S : ~(n + 1 <= k)
            BY <2>1
        <3>2. k \in Nat /\ k <= n
            BY <3>1
        <3>3. QED BY <1>2, <3>1, <3>2
    <2>2. ASSUME NEW k \in Nat, k <= n + 1 PROVE k \notin S
        <3>1. k <= n \/ k = n + 1
            BY <2>2
        <3>2. QED BY <1>2, <2>1, <3>1
    <2>3. QED BY <2>2
<1> HIDE DEF T
<1>3. Nat \subseteq T
    BY <1>1, <1>2, NatSetInduction
<1>4. \A n \in Nat : n \notin S
    BY <1>3 DEF T
<1>5. QED BY <1>4

\* A message is its blocks.
LEMMA TextIs ==
    ASSUME NEW m \in Message
    PROVE  /\ Text(m) \in Seq(Block) /\ Len(Text(m)) = Length[m]
           /\ Length[m] \in Nat /\ Length[m] > 0
           /\ \A k \in 1 .. Length[m] : Text(m)[k] = [msg |-> m, part |-> k]
<1>1. Length[m] \in Nat /\ Length[m] > 0
    BY MboxAssumption
<1> DEFINE n == Length[m]
<1>2. \A k \in 1 .. n : [msg |-> m, part |-> k] \in Block
    BY DEF Block
<1>3. Text(m) = [k \in 1 .. n |-> [msg |-> m, part |-> k]]
    BY DEF Text
<1> HIDE DEF n
<1>4. Text(m) \in Seq(Block) /\ Len(Text(m)) = n
    BY <1>1, <1>2, <1>3 DEF n
<1>5. QED BY <1>1, <1>3, <1>4 DEF n

\* What a read returns of what is there.
LEMMA ChunkIs ==
    ASSUME NEW S, NEW f \in Seq(S), NEW o \in Nat, NEW n \in Nat, o + n <= Len(f)
    PROVE  /\ Chunk(f, o, n) \in Seq(S) /\ Len(Chunk(f, o, n)) = n
           /\ \A k \in 1 .. n : Chunk(f, o, n)[k] = f[o + k]
<1>1. Chunk(f, o, n) = SubSeq(f, o + 1, o + n)
    BY DEF Chunk
<1>2. o + 1 \in Int /\ o + n \in Int /\ \A k \in o + 1 .. o + n : f[k] \in S
    OBVIOUS
<1>3. /\ SubSeq(f, o + 1, o + n) \in Seq(S)
      /\ Len(SubSeq(f, o + 1, o + n)) = IF o + 1 <= o + n THEN (o + n) - (o + 1) + 1 ELSE 0
      /\ \A k \in 1 .. (o + n) - (o + 1) + 1 : SubSeq(f, o + 1, o + n)[k] = f[(o + 1) + k - 1]
    BY <1>2, SubSeqProperties
<1>4. (o + n) - (o + 1) + 1 = n /\ (o + 1 <= o + n <=> n # 0)
    OBVIOUS
<1>5. \A k \in 1 .. n : (o + 1) + k - 1 = o + k
    OBVIOUS
<1>6. QED BY <1>1, <1>3, <1>4, <1>5

\* A read of a whole text returns it.
LEMMA ChunkHeld ==
    ASSUME NEW f \in Seq(Block), NEW o \in Nat, NEW text \in Seq(Block), Holds(f, o, text)
    PROVE  Chunk(f, o, Len(text)) = text
<1>1. Len(text) \in Nat /\ o + Len(text) <= Len(f)
    BY DEF Holds
<1>2. /\ Chunk(f, o, Len(text)) \in Seq(Block) /\ Len(Chunk(f, o, Len(text))) = Len(text)
      /\ \A k \in 1 .. Len(text) : Chunk(f, o, Len(text))[k] = f[o + k]
    BY <1>1, ChunkIs
<1>3. \A k \in 1 .. Len(text) : Chunk(f, o, Len(text))[k] = text[k]
    BY <1>2 DEF Holds
<1>4. QED BY <1>2, <1>3

\* What is whole can be recovered.
LEMMA WholeRecoverable ==
    ASSUME NEW f \in Seq(Block), NEW p \in DOMAIN f, WholeAt(f, p)
    PROVE  f[p].msg \in Recoverable(f)
<1> DEFINE m == f[p].msg
<1>0. f[p] \in Block /\ p \in Nat /\ p > 0
    OBVIOUS
<1>1. m \in Message /\ p - 1 \in Nat
    BY <1>0 DEF Block
<1>2. /\ Text(m) \in Seq(Block) /\ Len(Text(m)) = Length[m] /\ Length[m] \in Nat
      /\ \A k \in 1 .. Length[m] : Text(m)[k] = [msg |-> m, part |-> k]
    BY <1>1, TextIs
<1>3. /\ p + Length[m] <= Len(f) + 1
      /\ \A k \in 1 .. Length[m] : f[p + k - 1] = [msg |-> m, part |-> k]
    BY DEF WholeAt
<1> HIDE DEF m
<1>4. (p - 1) + Length[m] <= Len(f)
    BY <1>2, <1>3
<1>5. PICK o \in Nat : o = p - 1
    BY <1>1
<1>6. PICK n \in Nat : n = Length[m]
    BY <1>2
<1>7. PICK c : c = Chunk(f, o, n)
    OBVIOUS
<1>8. o + n <= Len(f)
    BY <1>4, <1>5, <1>6
<1>9. c \in Seq(Block) /\ Len(c) = n /\ \A k \in 1 .. n : c[k] = f[o + k]
    BY <1>7, <1>8, ChunkIs
<1>10. ASSUME NEW k \in 1 .. n PROVE c[k] = Text(m)[k]
    <2>1. o + k = p + k - 1
        BY <1>0, <1>5
    <2>2. c[k] = f[p + k - 1]
        BY <1>9, <2>1
    <2>3. QED BY <1>2, <1>3, <1>6, <2>2
<1>11. Text(m) \in Seq(Block) /\ Len(Text(m)) = n
    BY <1>2, <1>6
<1>12. c = Text(m)
    BY <1>9, <1>10, <1>11
<1>13. QED BY <1>1, <1>5, <1>6, <1>7, <1>12 DEF Recoverable, Intact, m

\* A text that is held stays so where the blocks under it do, and what follows
\* still starts with "From ".
LEMMA StillHeld ==
    ASSUME NEW f \in Seq(Block), NEW g \in Seq(Block), NEW o \in Nat, NEW text \in Seq(Block),
           NEW n \in Nat, Holds(f, o, text), o + Len(text) <= n, n <= Len(f), n <= Len(g),
           \A k \in 1 .. n : g[k] = f[k],
           n < Len(g) => g[n + 1].part = 1
    PROVE  Holds(g, o, text)
<1>1. PICK l \in Nat : l = Len(text)
    OBVIOUS
<1>2. l > 0 /\ \A k \in 1 .. l : f[o + k] = text[k] /\ (text[k].part = 1 <=> k = 1)
    BY <1>1 DEF Holds
<1>3. \A k \in 1 .. l : g[o + k] = text[k]
    <2>1. \A k \in 1 .. l : o + k \in 1 .. n
        BY <1>1
    <2>2. QED BY <1>2, <2>1
<1>4. ASSUME o + l < Len(g) PROVE g[o + l + 1].part = 1
    <2>1. CASE o + l = n
        BY <1>4, <2>1
    <2>2. CASE o + l # n
        <3>1. o + l + 1 \in 1 .. n /\ o + l < Len(f)
            BY <1>1, <2>2
        <3>2. f[o + l + 1].part = 1
            BY <1>1, <3>1 DEF Holds
        <3>3. QED BY <3>1, <3>2
    <2>3. QED BY <2>1, <2>2
<1>5. o + l <= Len(g)
    BY <1>1
<1>6. QED BY <1>1, <1>2, <1>3, <1>4, <1>5 DEF Holds

\* Texts do not overlap: only the first block of each starts with "From ".
LEMMA TextsApart ==
    ASSUME NEW f \in Seq(Block), NEW o \in Nat, NEW text \in Seq(Block), Holds(f, o, text),
           NEW p \in Nat, o < p, p < Len(f), IsFrom(f, p + 1)
    PROVE  o + Len(text) <= p
<1>1. PICK l \in Nat : l = Len(text)
    OBVIOUS
<1>2. \A k \in 1 .. l : f[o + k] = text[k] /\ (text[k].part = 1 <=> k = 1)
    BY <1>1 DEF Holds
<1>3. SUFFICES ASSUME o + l > p PROVE FALSE
    BY <1>1
<1>4. PICK k \in Nat : k = p + 1 - o
    OBVIOUS
<1>5. k \in 1 .. l /\ k # 1 /\ o + k = p + 1
    BY <1>3, <1>4
<1>6. f[p + 1].part # 1
    BY <1>2, <1>5
<1>7. QED BY <1>6 DEF IsFrom

\* A whole message lies within the text that starts with it ...
LEMMA WholeWithin ==
    ASSUME NEW f \in Seq(Block), NEW o \in Nat, NEW text \in Seq(Block), Holds(f, o, text),
           WholeAt(f, o + 1)
    PROVE  Length[text[1].msg] <= Len(text)
<1>1. PICK l \in Nat : l = Len(text)
    OBVIOUS
<1>2. /\ l > 0 /\ o + l <= Len(f) /\ f[o + 1] = text[1]
      /\ o + l < Len(f) => f[o + l + 1].part = 1
    BY <1>1 DEF Holds
<1>3. text[1] \in Block
    BY <1>1, <1>2
<1>4. PICK n \in Nat : n = Length[text[1].msg]
    BY <1>3, TextIs DEF Block
<1>5. /\ o + 1 + n <= Len(f) + 1
      /\ \A k \in 1 .. n : f[(o + 1) + k - 1] = [msg |-> text[1].msg, part |-> k]
    BY <1>2, <1>4 DEF WholeAt
<1>6. SUFFICES ASSUME n > l PROVE FALSE
    BY <1>1, <1>4
<1>7. l + 1 \in 1 .. n /\ (o + 1) + (l + 1) - 1 = o + l + 1
    BY <1>6
<1>8. f[o + l + 1] = [msg |-> text[1].msg, part |-> l + 1]
    BY <1>5, <1>7
<1>9. o + l < Len(f)
    BY <1>5, <1>6
<1>10. QED BY <1>2, <1>8, <1>9

\* ... and is whole wherever that text stands.
LEMMA WholeThere ==
    ASSUME NEW f \in Seq(Block), NEW g \in Seq(Block), NEW o \in Nat, NEW r \in Nat,
           NEW text \in Seq(Block), Holds(f, o, text), Holds(g, r, text), WholeAt(f, o + 1)
    PROVE  WholeAt(g, r + 1)
<1>1. PICK l \in Nat : l = Len(text)
    OBVIOUS
<1>2. l > 0 /\ \A k \in 1 .. l : f[o + k] = text[k]
    BY <1>1 DEF Holds
<1>3. r + l <= Len(g) /\ \A k \in 1 .. l : g[r + k] = text[k]
    BY <1>1 DEF Holds
<1>4. f[o + 1] = text[1] /\ g[r + 1] = text[1] /\ text[1] \in Block
    BY <1>1, <1>2, <1>3
<1>5. PICK m \in Message : m = text[1].msg
    BY <1>4 DEF Block
<1>6. PICK n \in Nat : n = Length[m]
    BY TextIs
<1>7. n <= l
    BY <1>1, <1>5, <1>6, WholeWithin
<1>8. \A k \in 1 .. n : f[(o + 1) + k - 1] = [msg |-> m, part |-> k]
    BY <1>4, <1>5, <1>6 DEF WholeAt
<1>9. ASSUME NEW k \in 1 .. n PROVE g[(r + 1) + k - 1] = [msg |-> m, part |-> k]
    <2>1. k \in 1 .. l /\ (o + 1) + k - 1 = o + k /\ (r + 1) + k - 1 = r + k
        BY <1>7
    <2>2. f[o + k] = [msg |-> m, part |-> k]
        BY <1>8, <2>1
    <2>3. f[o + k] = text[k] /\ g[r + k] = text[k]
        BY <1>2, <1>3, <2>1
    <2>4. g[r + k] = [msg |-> m, part |-> k]
        BY <2>2, <2>3
    <2>5. QED BY <2>1, <2>4
<1>10. (r + 1) + n <= Len(g) + 1
    BY <1>3, <1>7
<1>11. QED BY <1>4, <1>5, <1>6, <1>9, <1>10 DEF WholeAt

\* A whole message is whole in every file that is the same up to its end.
LEMMA StillWhole ==
    ASSUME NEW f \in Seq(Block), NEW g \in Seq(Block), NEW p \in DOMAIN f, WholeAt(f, p),
           NEW n \in Nat, p + Length[f[p].msg] <= n + 1, n <= Len(g),
           \A k \in p .. n : g[k] = f[k]
    PROVE  WholeAt(g, p)
<1>1. f[p] \in Block /\ p \in Nat /\ p > 0
    OBVIOUS
<1>2. PICK m \in Message : m = f[p].msg
    BY <1>1 DEF Block
<1>3. PICK l \in Nat : l = Length[m] /\ l > 0
    BY TextIs
<1>4. \A k \in 1 .. l : f[p + k - 1] = [msg |-> m, part |-> k]
    BY <1>2, <1>3 DEF WholeAt
<1>5. \A k \in 1 .. l : p + k - 1 \in p .. n
    BY <1>1, <1>2, <1>3
<1>6. p \in p .. n
    BY <1>1, <1>2, <1>3
<1>7. g[p] = f[p] /\ p + l <= Len(g) + 1
    BY <1>1, <1>2, <1>3, <1>6
<1>8. QED BY <1>2, <1>3, <1>4, <1>5, <1>7 DEF WholeAt

\* A whole message ends before the next "From ".
LEMMA WholeBefore ==
    ASSUME NEW f \in Seq(Block), NEW p \in DOMAIN f, WholeAt(f, p),
           NEW q \in DOMAIN f, p < q, IsFrom(f, q)
    PROVE  p + Length[f[p].msg] <= q
<1>1. f[p] \in Block /\ p \in Nat /\ p > 0 /\ q \in Nat
    OBVIOUS
<1>2. PICK m \in Message : m = f[p].msg
    BY <1>1 DEF Block
<1>3. PICK l \in Nat : l = Length[m]
    BY TextIs
<1>4. \A k \in 1 .. l : f[p + k - 1] = [msg |-> m, part |-> k]
    BY <1>2, <1>3 DEF WholeAt
<1>5. SUFFICES ASSUME p + l > q PROVE FALSE
    BY <1>1, <1>2, <1>3
<1>6. PICK k \in Nat : k = q - p + 1
    BY <1>1
<1>7. k \in 1 .. l /\ p + k - 1 = q /\ k # 1
    BY <1>1, <1>5, <1>6
<1>8. f[q] = [msg |-> m, part |-> k]
    BY <1>4, <1>7
<1>9. QED BY <1>7, <1>8 DEF IsFrom

\* What Parse() finds is where it says, unmarked, in the order of the file, and
\* is all that starts there.
LEMMA ParseFinds ==
    ASSUME NEW f \in Seq(Block), NEW o \in Nat
    PROVE  LET v == Parse(f, o)
           IN  /\ v \in Seq(Entry)
               /\ \A i \in DOMAIN v :
                     /\ ~v[i].deleted /\ ~v[i].changed
                     /\ v[i].offset >= o /\ v[i].offset < Len(f)
                     /\ Holds(f, v[i].offset, v[i].text)
               /\ \A i, j \in DOMAIN v : i < j => v[i].offset < v[j].offset
               /\ \A p \in DOMAIN f : p > o /\ IsFrom(f, p) =>
                     \E i \in DOMAIN v : v[i].offset = p - 1
<1> DEFINE starts  == {p \in DOMAIN f : p > o /\ IsFrom(f, p)}
           ends(p) == {q - 1 : q \in {r \in starts : r > p}} \cup {Len(f)}
           last(p) == CHOOSE q \in ends(p) : \A r \in ends(p) : q <= r
           entry(p) == [text    |-> SubSeq(f, p, last(p)),
                        offset  |-> p - 1,
                        deleted |-> FALSE,
                        changed |-> FALSE]
           all    == [p \in DOMAIN f |-> p]
           sorted == AtPlaces(all, starts)
<1>1. Parse(f, o) = [i \in DOMAIN sorted |-> entry(sorted[i])]
    BY DEF Parse
<1>2. all \in Seq(Nat) /\ Len(all) = Len(f) /\ DOMAIN f = 1 .. Len(f) /\ Len(f) \in Nat
    OBVIOUS
<1>3. starts \subseteq 1 .. Len(f)
    OBVIOUS
<1>4. ASSUME NEW p \in starts
      PROVE  /\ last(p) \in p .. Len(f)
             /\ \A r \in starts : r > p => last(p) < r
             /\ last(p) = Len(f) \/ last(p) + 1 \in starts
    <2>1. ends(p) \subseteq Nat /\ ends(p) # {}
        BY <1>2, <1>3
    <2>2. PICK q \in ends(p) : \A r \in ends(p) : q <= r
        BY <2>1, HasLeast
    <2>3. last(p) \in ends(p) /\ \A r \in ends(p) : last(p) <= r
        BY <2>2
    <2>4. Len(f) \in ends(p) /\ \A r \in starts : r > p => r - 1 \in ends(p)
        OBVIOUS
    <2>5. \A r \in ends(p) : r >= p
        BY <1>2, <1>3
    <2>6. last(p) \in Nat /\ last(p) <= Len(f) /\ last(p) >= p
        BY <2>1, <2>3, <2>4, <2>5
    <2>7. last(p) = Len(f) \/ \E r \in starts : last(p) = r - 1
        BY <2>3
    <2> HIDE DEF last, ends
    <2>8. \A r \in starts : r > p => last(p) < r
        BY <1>2, <1>3, <2>3, <2>4, <2>6
    <2>9. last(p) = Len(f) \/ last(p) + 1 \in starts
        BY <1>2, <1>3, <2>6, <2>7
    <2>10. QED BY <1>2, <2>6, <2>8, <2>9
<1> HIDE DEF last
<1>5. ASSUME NEW p \in starts
      PROVE  /\ entry(p) \in Entry /\ entry(p).offset = p - 1
             /\ ~entry(p).deleted /\ ~entry(p).changed
             /\ Holds(f, p - 1, entry(p).text)
    <2>1. p \in Nat /\ p > 0 /\ p <= Len(f)
        BY <1>2, <1>3
    <2>2. PICK q \in Nat : q = last(p) /\ p <= q /\ q <= Len(f)
        BY <1>2, <1>4, <2>1
    <2>3. PICK t : t = SubSeq(f, p, q)
        OBVIOUS
    <2>4. p \in Int /\ q \in Int /\ \A k \in p .. q : f[k] \in Block
        BY <2>1, <2>2
    <2>5. /\ t \in Seq(Block) /\ Len(t) = IF p <= q THEN q - p + 1 ELSE 0
          /\ \A k \in 1 .. q - p + 1 : t[k] = f[p + k - 1]
        BY <2>3, <2>4, SubSeqProperties
    <2>6. PICK l \in Nat : l = Len(t)
        BY <2>5
    <2>7. l = q - p + 1 /\ l > 0 /\ \A k \in 1 .. l : t[k] = f[p + k - 1]
        BY <2>1, <2>2, <2>5, <2>6
    <2>8. ASSUME NEW k \in 1 .. l
          PROVE  f[(p - 1) + k] = t[k] /\ (t[k].part = 1 <=> k = 1)
        <3>1. (p - 1) + k = p + k - 1 /\ p + k - 1 \in 1 .. Len(f)
            BY <2>1, <2>2, <2>7
        <3>2. t[k] = f[p + k - 1]
            BY <2>7
        <3>3. k = 1 => t[k].part = 1
            BY <2>1, <3>2 DEF IsFrom
        <3>4. ASSUME k # 1, t[k].part = 1 PROVE FALSE
            <4>1. p + k - 1 \in starts /\ p + k - 1 > p
                BY <1>2, <2>1, <3>1, <3>2, <3>4 DEF IsFrom
            <4>2. q < p + k - 1
                BY <1>4, <2>2, <4>1
            <4>3. QED BY <2>1, <2>2, <2>7, <4>2
        <3>5. QED BY <3>1, <3>2, <3>3, <3>4
    <2>9. (p - 1) + l = q
        BY <2>1, <2>2, <2>7
    <2>10. q < Len(f) => f[q + 1].part = 1
        BY <1>4, <2>2 DEF IsFrom
    <2>11. Holds(f, p - 1, t)
        BY <2>2, <2>6, <2>7, <2>8, <2>9, <2>10 DEF Holds
    <2>12. entry(p).text = t
        BY <2>2, <2>3
    <2>13. p - 1 \in Nat
        BY <2>1
    <2>14. t # <<>> /\ t \in Seq(Block)
        BY <2>5, <2>6, <2>7
    <2>15. QED BY <2>11, <2>12, <2>13, <2>14 DEF Entry
<1> HIDE DEF entry
<1>6. PICK e : Picks(all, starts, e, sorted, Len(f)) /\ sorted \in Seq(Nat)
    BY <1>2, AtPlacesPicks
<1>7. DOMAIN sorted = 1 .. Len(sorted) /\ Len(sorted) \in Nat
    BY <1>6
<1>8. \A i \in DOMAIN sorted : sorted[i] = e[i] /\ sorted[i] \in starts
    BY <1>2, <1>6, <1>7 DEF Picks
<1>9. \A i, j \in DOMAIN sorted : i < j => sorted[i] < sorted[j]
    BY <1>6, <1>7, <1>8 DEF Picks
<1>10. \A p \in starts : \E i \in DOMAIN sorted : sorted[i] = p
    BY <1>2, <1>3, <1>6, <1>7, <1>8 DEF Picks
<1> HIDE DEF sorted, all
<1>11. PICK v : v = [i \in DOMAIN sorted |-> entry(sorted[i])]
    OBVIOUS
<1>12. v \in Seq(Entry) /\ DOMAIN v = DOMAIN sorted
    BY <1>5, <1>7, <1>8, <1>11
<1>13. \A i \in DOMAIN v : v[i] = entry(sorted[i]) /\ sorted[i] \in starts
    BY <1>8, <1>11, <1>12
<1>14. ASSUME NEW i \in DOMAIN v
       PROVE  /\ ~v[i].deleted /\ ~v[i].changed
              /\ v[i].offset >= o /\ v[i].offset < Len(f)
              /\ Holds(f, v[i].offset, v[i].text)
    <2>1. PICK p \in starts : p = sorted[i]
        BY <1>13
    <2>2. v[i] = entry(p) /\ v[i].offset = p - 1
        BY <1>5, <1>13, <2>1
    <2>3. p \in Nat /\ p > o /\ p <= Len(f)
        BY <1>2, <1>3
    <2>4. QED BY <1>2, <1>5, <2>2, <2>3
<1>15. ASSUME NEW i \in DOMAIN v, NEW j \in DOMAIN v, i < j PROVE v[i].offset < v[j].offset
    <2>1. v[i].offset = sorted[i] - 1 /\ v[j].offset = sorted[j] - 1
        BY <1>5, <1>13
    <2>2. sorted[i] < sorted[j] /\ sorted[i] \in Nat /\ sorted[j] \in Nat
        BY <1>2, <1>3, <1>9, <1>12, <1>13, <1>15
    <2>3. QED BY <2>1, <2>2
<1>16. ASSUME NEW p \in DOMAIN f, p > o, IsFrom(f, p) PROVE \E i \in DOMAIN v : v[i].offset = p - 1
    <2>1. PICK i \in DOMAIN sorted : sorted[i] = p
        BY <1>10, <1>16
    <2>2. QED BY <1>5, <1>12, <1>13, <2>1
<1>17. QED BY <1>1, <1>11, <1>12, <1>14, <1>15, <1>16

\* What update_tables() leaves: the entries that are not marked, in their order.
LEMMA TablesLeave ==
    ASSUME NEW v \in Seq(Entry), UpdateTables(v)
    PROVE  /\ view' \in Seq(Entry) /\ changed' = FALSE
           /\ \E e : /\ e \in [DOMAIN view' -> Unmarked(v)]
                     /\ \A i \in DOMAIN view' : /\ view'[i].text = v[e[i]].text
                                                /\ view'[i].offset = v[e[i]].offset
                                                /\ ~view'[i].deleted /\ ~view'[i].changed
                     /\ \A i, j \in DOMAIN view' : i < j => e[i] < e[j]
                     /\ \A k \in Unmarked(v) : \E i \in DOMAIN view' : e[i] = k
<1> DEFINE K == DOMAIN v \ Marked(v)
           kept == AtPlaces(v, K)
<1>1. view' = [i \in DOMAIN kept |-> [kept[i] EXCEPT !.changed = FALSE]] /\ changed' = FALSE
    BY DEF UpdateTables
<1>2. PICK e : Picks(v, K, e, kept, Len(v)) /\ kept \in Seq(Entry)
    BY AtPlacesPicks
<1>3. DOMAIN kept = 1 .. Len(kept) /\ Len(kept) \in Nat /\ DOMAIN v = 1 .. Len(v)
    BY <1>2
<1>4. PICK w : w = view'
    OBVIOUS
<1> HIDE DEF kept
<1>5. DOMAIN w = DOMAIN kept
    BY <1>1, <1>4
<1>6. ASSUME NEW i \in DOMAIN kept
      PROVE  /\ e[i] \in K /\ kept[i] = v[e[i]] /\ w[i] \in Entry /\ ~v[e[i]].deleted
             /\ w[i].text = v[e[i]].text /\ w[i].offset = v[e[i]].offset
             /\ ~w[i].deleted /\ ~w[i].changed
    <2>1. e[i] \in K /\ kept[i] = v[e[i]]
        BY <1>2, <1>3 DEF Picks
    <2>2. kept[i] \in Entry /\ ~v[e[i]].deleted
        BY <1>2, <2>1 DEF Marked
    <2>3. w[i] = [kept[i] EXCEPT !.changed = FALSE]
        BY <1>1, <1>4
    <2>4. QED BY <2>1, <2>2, <2>3 DEF Entry
<1>7. w \in Seq(Entry)
    <2>1. w = [i \in 1 .. Len(kept) |-> w[i]]
        BY <1>1, <1>3, <1>4
    <2>2. QED BY <1>3, <1>6, <2>1
<1>8. e \in [DOMAIN w -> K]
    BY <1>2, <1>3, <1>5, <1>6 DEF Picks
<1>9. \A i, j \in DOMAIN w : i < j => e[i] < e[j]
    BY <1>2, <1>3, <1>5 DEF Picks
<1>10. \A k \in K : \E i \in DOMAIN w : e[i] = k
    BY <1>2, <1>3, <1>5 DEF Picks
<1>11. \A i \in DOMAIN w : /\ w[i].text = v[e[i]].text /\ w[i].offset = v[e[i]].offset
                           /\ ~w[i].deleted /\ ~w[i].changed
    BY <1>5, <1>6
<1>12. K = Unmarked(v) /\ changed' = FALSE
    BY <1>1 DEF Unmarked
<1> HIDE DEF K
<1>13. \E d : /\ d \in [DOMAIN w -> K]
              /\ \A i \in DOMAIN w : /\ w[i].text = v[d[i]].text /\ w[i].offset = v[d[i]].offset
                                     /\ ~w[i].deleted /\ ~w[i].changed
              /\ \A i, j \in DOMAIN w : i < j => d[i] < d[j]
              /\ \A k \in K : \E i \in DOMAIN w : d[i] = k
    BY <1>8, <1>9, <1>10, <1>11
<1>14. QED BY <1>4, <1>7, <1>12, <1>13

\* The first entry that is to be rewritten or dropped.
LEMMA FirstIs ==
    ASSUME view \in Seq(Entry), Touched # {}
    PROVE  /\ FirstTouched \in DOMAIN view /\ FirstTouched \in Nat /\ FirstTouched > 0
           /\ Offset = view[FirstTouched].offset /\ Offset \in Nat
           /\ view[FirstTouched].deleted \/ view[FirstTouched].changed
           /\ \A i \in DOMAIN view : i < FirstTouched => ~view[i].deleted /\ ~view[i].changed
<1>1. Touched \subseteq Nat /\ Touched \subseteq DOMAIN view
    BY DEF Touched
<1>2. PICK i \in Touched : \A j \in Touched : i <= j
    BY <1>1, HasLeast
<1>3. FirstTouched \in Touched /\ \A j \in Touched : FirstTouched <= j
    BY <1>2 DEF FirstTouched
<1>4. FirstTouched \in DOMAIN view /\ FirstTouched \in Nat /\ FirstTouched > 0
    BY <1>1, <1>3
<1>5. view[FirstTouched] \in Entry
    BY <1>4
<1>6. Offset \in Nat /\ Offset = view[FirstTouched].offset
    BY <1>5 DEF Offset, Entry
<1>7. view[FirstTouched].deleted \/ view[FirstTouched].changed
    BY <1>3 DEF Touched
<1>8. \A j \in DOMAIN view : j < FirstTouched => j \notin Touched
    BY <1>1, <1>3, <1>4
<1>9. QED BY <1>4, <1>6, <1>7, <1>8 DEF Touched

\* Found() names old entries, or none: its loop, step by step.
Match(new, old, before, i) ==
    LET used == {before[k] : k \in 1 .. i - 1}
        same == {j \in DOMAIN old \ used : old[j].text = new[i].text}
        later == {j \in same : j >= i}
        pick(s) == CHOOSE j \in s : \A k \in s : j <= k
    IN  IF later # {} THEN pick(later) ELSE IF same # {} THEN pick(same) ELSE 0

FoundTo(new, old, g, n) ==
    [i \in 0 .. n |-> IF i = 0 THEN <<>> ELSE Append(g[i - 1], Match(new, old, g[i - 1], i))]

LEMMA FoundAreOld ==
    ASSUME NEW new \in Seq(Entry), NEW old \in Seq(Entry)
    PROVE  \A i \in DOMAIN new : Found(new, old)[i] \in {0} \cup DOMAIN old
<1> DEFINE n == Len(new)
           D == {k \in Nat : \E g : g = FoundTo(new, old, g, k)}
<1>1. n \in D
    <2>1. 0 \in D
        <3>1. [i \in 0 .. 0 |-> <<>>] = FoundTo(new, old, [i \in 0 .. 0 |-> <<>>], 0)
            BY DEF FoundTo
        <3>2. QED BY <3>1
    <2>2. ASSUME NEW k \in Nat, k \in D PROVE k + 1 \in D
        <3>1. PICK g : g = FoundTo(new, old, g, k)
            BY <2>2
        <3> DEFINE last == Append(g[k], Match(new, old, g[k], k + 1))
                   h == [i \in 0 .. k + 1 |-> IF i = k + 1 THEN last ELSE g[i]]
        <3>2. h = FoundTo(new, old, h, k + 1)
            <4>1. \A i \in 0 .. k : g[i] = FoundTo(new, old, g, k)[i]
                BY <3>1
            <4>2. \A i \in 0 .. k + 1 : h[i] = FoundTo(new, old, h, k + 1)[i]
                BY <4>1 DEF FoundTo
            <4>3. QED BY <4>2 DEF FoundTo
        <3>3. QED BY <3>2
    <2> HIDE DEF D
    <2>3. QED BY <2>1, <2>2, NatSetInduction
<1> DEFINE found == CHOOSE g : g = FoundTo(new, old, g, n)
<1>2. Found(new, old) = found[n]
    BY DEF Found, FoundTo, Match
<1>3. found = FoundTo(new, old, found, n)
    BY <1>1
<1> HIDE DEF found
<1>4. ASSUME NEW i \in 1 .. n, NEW before PROVE Match(new, old, before, i) \in {0} \cup DOMAIN old
    <2> DEFINE used == {before[k] : k \in 1 .. i - 1}
               same == {j \in DOMAIN old \ used : old[j].text = new[i].text}
               later == {j \in same : j >= i}
               pick(s) == CHOOSE j \in s : \A k \in s : j <= k
    <2>1. same \subseteq DOMAIN old /\ later \subseteq DOMAIN old /\ DOMAIN old \subseteq Nat
        OBVIOUS
    <2>2. ASSUME NEW s, s \subseteq DOMAIN old, s # {} PROVE pick(s) \in DOMAIN old
        <3>1. \E j \in s : \A k \in s : j <= k
            BY <2>1, <2>2, HasLeast
        <3>2. QED BY <2>2, <3>1
    <2>3. Match(new, old, before, i) = IF later # {} THEN pick(later) ELSE IF same # {} THEN pick(same) ELSE 0
        BY DEF Match
    <2> HIDE DEF pick, same, later
    <2>4. QED BY <2>1, <2>2, <2>3
<1> DEFINE T == {k \in Nat : k <= n => found[k] \in Seq({0} \cup DOMAIN old) /\ Len(found[k]) = k}
<1>5. n \in T
    <2>1. 0 \in T
        BY <1>3 DEF FoundTo
    <2>2. ASSUME NEW k \in Nat, k \in T PROVE k + 1 \in T
        <3>1. SUFFICES ASSUME k + 1 <= n
                       PROVE  found[k + 1] \in Seq({0} \cup DOMAIN old) /\ Len(found[k + 1]) = k + 1
            OBVIOUS
        <3>2. k + 1 \in 1 .. n /\ n \in Nat /\ (k + 1) - 1 = k /\ k + 1 \in 0 .. n
            BY <3>1
        <3>3. found[k + 1] = Append(found[k], Match(new, old, found[k], k + 1))
            <4>1. found[k + 1] = FoundTo(new, old, found, n)[k + 1]
                BY <1>3
            <4> HIDE DEF n
            <4>2. FoundTo(new, old, found, n)[k + 1] = Append(found[(k + 1) - 1], Match(new, old, found[(k + 1) - 1], k + 1))
                BY <3>2 DEF FoundTo
            <4>3. QED BY <3>2, <4>1, <4>2
        <3>4. found[k] \in Seq({0} \cup DOMAIN old) /\ Len(found[k]) = k
            BY <2>2, <3>1
        <3>5. Match(new, old, found[k], k + 1) \in {0} \cup DOMAIN old
            BY <1>4, <3>2
        <3>6. QED BY <3>3, <3>4, <3>5
    <2> HIDE DEF T
    <2>3. Nat \subseteq T
        BY <2>1, <2>2, NatSetInduction
    <2>4. QED BY <2>3
<1>6. found[n] \in Seq({0} \cup DOMAIN old) /\ Len(found[n]) = n
    BY <1>5
<1>7. QED BY <1>2, <1>6

LEMMA WithOldFlagsTypes ==
    ASSUME NEW new \in Seq(Entry), NEW old \in Seq(Entry)
    PROVE  WithOldFlags(new, old) \in Seq(Entry)
<1> DEFINE found == Found(new, old)
           entry(i) == IF found[i] = 0 THEN new[i]
                       ELSE [new[i] EXCEPT !.deleted = old[found[i]].deleted,
                                           !.changed = old[found[i]].changed]
<1>1. WithOldFlags(new, old) = [i \in DOMAIN new |-> entry(i)]
    BY DEF WithOldFlags
<1>2. ASSUME NEW i \in DOMAIN new PROVE entry(i) \in Entry
    <2>1. found[i] = 0 \/ found[i] \in DOMAIN old
        BY FoundAreOld
    <2>2. new[i] \in Entry /\ (found[i] # 0 => old[found[i]] \in Entry)
        BY <2>1
    <2>3. QED BY <2>2 DEF Entry
<1> HIDE DEF entry
<1>3. QED BY <1>1, <1>2

-----------------------------------------------------------------------------
(* Types *)

LEMMA SeqTypes ==
    ASSUME TypeOK
    PROVE  /\ file \in Seq(Block) /\ tmp \in Seq(Block) /\ view \in Seq(Entry) /\ newOffset \in Seq(Nat)
           /\ size \in Nat /\ next \in Nat /\ Len(file) \in Nat /\ Len(tmp) \in Nat /\ Len(view) \in Nat
           /\ Len(newOffset) \in Nat
           /\ DOMAIN view = 1 .. Len(view) /\ DOMAIN file = 1 .. Len(file) /\ DOMAIN tmp = 1 .. Len(tmp)
           /\ \A i \in DOMAIN view :
                 /\ view[i] \in Entry /\ view[i].text \in Seq(Block) /\ view[i].offset \in Nat
                 /\ Len(view[i].text) \in Nat /\ Len(view[i].text) > 0 /\ Id(view[i]) \in Message
<1>1. /\ file \in Seq(Block) /\ tmp \in Seq(Block) /\ view \in Seq(Entry) /\ newOffset \in Seq(Nat)
      /\ size \in Nat /\ next \in Nat
    BY DEF TypeOK, Entry
<1>2. /\ Len(file) \in Nat /\ Len(tmp) \in Nat /\ Len(view) \in Nat /\ Len(newOffset) \in Nat
      /\ DOMAIN view = 1 .. Len(view) /\ DOMAIN file = 1 .. Len(file) /\ DOMAIN tmp = 1 .. Len(tmp)
    BY <1>1
<1>3. ASSUME NEW i \in DOMAIN view
      PROVE  /\ view[i] \in Entry /\ view[i].text \in Seq(Block) /\ view[i].offset \in Nat
             /\ Len(view[i].text) \in Nat /\ Len(view[i].text) > 0 /\ Id(view[i]) \in Message
    <2>1. view[i] \in Entry
        BY <1>1
    <2>2. view[i].text \in Seq(Block) /\ view[i].text # <<>> /\ view[i].offset \in Nat
        BY <2>1 DEF Entry
    <2>3. view[i].text[1] \in Block
        BY <2>2
    <2>4. Id(view[i]) \in Message
        BY <2>3 DEF Id, Block
    <2>5. QED BY <2>1, <2>2, <2>4
<1>4. QED BY <1>1, <1>2, <1>3

\* The view of a step that changes only marks, or offsets.
Reflagged(v, w) ==
    /\ DOMAIN w = DOMAIN v
    /\ \A i \in DOMAIN v : w[i].text = v[i].text /\ w[i].offset = v[i].offset

LEMMA UserViews ==
    ASSUME TypeOK
    PROVE  /\ \A i, d : Mark(i, d) /\ d \in BOOLEAN =>
                 /\ view' \in Seq(Entry) /\ Reflagged(view, view')
                 /\ \A k \in DOMAIN view :
                       /\ view'[k].deleted = IF k = i THEN d ELSE view[k].deleted
                       /\ view'[k].changed = view[k].changed
           /\ \A i : Flag(i) =>
                 /\ view' \in Seq(Entry) /\ Reflagged(view, view') /\ AnyChanged(view')
                 /\ \A k \in DOMAIN view : view'[k].deleted = view[k].deleted
           /\ \A o, q : Begin(o, q) =>
                 /\ view' \in Seq(Entry) /\ Reflagged(view, view')
                 /\ \A k \in DOMAIN view :
                       /\ view'[k].deleted = (q /\ view[k].deleted)
                       /\ view'[k].changed = view[k].changed
<1>1. view \in Seq(Entry) /\ \A i \in DOMAIN view : view[i] \in Entry
    BY SeqTypes
<1>2. ASSUME NEW i, NEW d \in BOOLEAN, Mark(i, d)
      PROVE  /\ view' \in Seq(Entry) /\ Reflagged(view, view')
             /\ \A k \in DOMAIN view :
                   /\ view'[k].deleted = IF k = i THEN d ELSE view[k].deleted
                   /\ view'[k].changed = view[k].changed
    <2>1. view' = [view EXCEPT ![i].deleted = d] /\ i \in DOMAIN view
        BY <1>2 DEF Mark
    <2>2. PICK w : w = view'
        OBVIOUS
    <2>3. \A k \in DOMAIN view : w[k] = IF k = i THEN [view[i] EXCEPT !.deleted = d] ELSE view[k]
        BY <1>1, <2>1, <2>2
    <2>4. [view[i] EXCEPT !.deleted = d] \in Entry
        BY <1>1, <2>1 DEF Entry
    <2>5. w \in Seq(Entry) /\ DOMAIN w = DOMAIN view
        BY <1>1, <2>1, <2>2, <2>4
    <2>6. QED BY <1>1, <2>1, <2>2, <2>3, <2>5 DEF Entry, Reflagged
<1>3. ASSUME NEW i, Flag(i)
      PROVE  /\ view' \in Seq(Entry) /\ Reflagged(view, view') /\ AnyChanged(view')
             /\ \A k \in DOMAIN view : view'[k].deleted = view[k].deleted
    <2>1. view' = [view EXCEPT ![i].changed = TRUE] /\ i \in DOMAIN view
        BY <1>3 DEF Flag
    <2>2. PICK w : w = view'
        OBVIOUS
    <2>3. \A k \in DOMAIN view : w[k] = IF k = i THEN [view[i] EXCEPT !.changed = TRUE] ELSE view[k]
        BY <1>1, <2>1, <2>2
    <2>4. [view[i] EXCEPT !.changed = TRUE] \in Entry
        BY <1>1, <2>1 DEF Entry
    <2>5. w \in Seq(Entry) /\ DOMAIN w = DOMAIN view
        BY <1>1, <2>1, <2>2, <2>4
    <2>6. \A k \in DOMAIN view : w[k].text = view[k].text /\ w[k].offset = view[k].offset
                                 /\ w[k].deleted = view[k].deleted
        BY <1>1, <2>3 DEF Entry
    <2>7. w[i].changed = TRUE
        BY <1>1, <2>1, <2>3 DEF Entry
    <2>8. QED BY <2>1, <2>2, <2>5, <2>6, <2>7 DEF Reflagged, AnyChanged
<1>4. ASSUME NEW o, NEW q, Begin(o, q)
      PROVE  /\ view' \in Seq(Entry) /\ Reflagged(view, view')
             /\ \A k \in DOMAIN view :
                   /\ view'[k].deleted = (q /\ view[k].deleted)
                   /\ view'[k].changed = view[k].changed
    <2>1. CASE q
        BY <1>1, <1>4, <2>1 DEF Begin, Reflagged, Entry
    <2>2. CASE ~q
        <3>1. PICK w : w = view'
            OBVIOUS
        <3>2. w = [i \in DOMAIN view |-> [view[i] EXCEPT !.deleted = FALSE]]
            BY <1>4, <2>2, <3>1 DEF Begin
        <3>3. \A k \in DOMAIN view : w[k] \in Entry /\ w[k] = [view[k] EXCEPT !.deleted = FALSE]
            BY <1>1, <3>2 DEF Entry
        <3>4. w \in Seq(Entry) /\ DOMAIN w = DOMAIN view
            BY <1>1, <3>2, <3>3
        <3>5. \A k \in DOMAIN view : /\ w[k].text = view[k].text /\ w[k].offset = view[k].offset
                                     /\ w[k].changed = view[k].changed /\ w[k].deleted = FALSE
            BY <1>1, <3>3 DEF Entry
        <3>6. QED BY <2>2, <3>1, <3>4, <3>5 DEF Reflagged
    <2>3. QED BY <2>1, <2>2
<1>5. QED BY <1>2, <1>3, <1>4

\* What a whole sequence is cut to.
LEMMA CutIs ==
    ASSUME NEW S, NEW s \in Seq(S), NEW n \in Nat, n <= Len(s)
    PROVE  /\ SubSeq(s, 1, n) \in Seq(S) /\ Len(SubSeq(s, 1, n)) = n
           /\ \A k \in 1 .. n : SubSeq(s, 1, n)[k] = s[k]
<1>1. 1 \in Int /\ n \in Int /\ \A k \in 1 .. n : s[k] \in S
    OBVIOUS
<1>2. /\ SubSeq(s, 1, n) \in Seq(S) /\ Len(SubSeq(s, 1, n)) = IF 1 <= n THEN n - 1 + 1 ELSE 0
      /\ \A k \in 1 .. n - 1 + 1 : SubSeq(s, 1, n)[k] = s[1 + k - 1]
    BY <1>1, SubSeqProperties
<1>3. n - 1 + 1 = n /\ \A k \in 1 .. n : 1 + k - 1 = k
    OBVIOUS
<1>4. QED BY <1>2, <1>3

\* Reading beyond the end returns less.
LEMMA ChunkTypes ==
    ASSUME NEW f \in Seq(Block), NEW o \in Nat, NEW n \in Nat
    PROVE  Chunk(f, o, n) \in Seq(Block)
<1>1. PICK e \in Nat : e = (IF o + n <= Len(f) THEN o + n ELSE Len(f)) /\ e <= Len(f)
    OBVIOUS
<1>2. o + 1 \in Int /\ e \in Int /\ \A k \in o + 1 .. e : f[k] \in Block
    BY <1>1
<1>3. SubSeq(f, o + 1, e) \in Seq(Block)
    BY <1>2, SubSeqProperties
<1>4. QED BY <1>1, <1>3 DEF Chunk

\* Steps that touch neither the file nor what a sync keeps, nor the view.
LEMMA SimpleKeepBase ==
    ASSUME FileLock, Base, UNCHANGED env,
           \/ Open \/ CheckSame \/ CheckReopen \/ Lock \/ CopyFails
    PROVE  Base'
<1>1. PICK n : n = Len(file) /\ n \in Nat
    BY SeqTypes DEF Base
<1>2. TypeOK'
    BY <1>1 DEF Base, TypeOK, LockInv, Open, CheckSame, CheckReopen, Lock, CopyFails, TakeLock, Unlock,
           fileVars, viewVars, syncVars, histVars, Pcs, Checking
<1>3. ChangeInv'
    BY DEF Base, ChangeInv, Open, CheckSame, CheckReopen, Lock, CopyFails, fileVars, viewVars, syncVars, histVars,
           AnyChanged, Touched, Checking
<1>4. LockInv'
    BY DEF Base, LockInv, Open, CheckSame, CheckReopen, Lock, CopyFails, TakeLock, Unlock, Checking,
           fileVars, viewVars, syncVars, histVars
<1>5. Bounds'
    BY DEF Base, Bounds, Open, CheckSame, CheckReopen, Lock, CopyFails, Checking, Syncing, Touched, FirstTouched,
           fileVars, viewVars, syncVars, histVars
<1>6. QED BY <1>2, <1>3, <1>4, <1>5 DEF Base

\* The mailbox is closed, by whatever step.
LEMMA ForgetKeepsBase ==
    ASSUME Base, UNCHANGED env, Forget, file' \in Seq(Block),
           delivered' \subseteq Message, removed' \subseteq Message, unwanted' \subseteq Message,
           savefile' \subseteq Message, saved' \subseteq Message
    PROVE  Base'
<1>1. TypeOK'
    <2>1. /\ pc' = "closed" /\ op' = "none" /\ lock' = "none" /\ view' = <<>> /\ changed' = FALSE
          /\ readonly' = FALSE /\ size' = 0 /\ tmp' = <<>> /\ next' = 0 /\ newOffset' = <<>>
        BY DEF Forget, Unlock
    <2>2. env' \in Environments
        BY DEF Base, TypeOK
    <2>3. {delivered', removed', unwanted', savefile', saved'} \subseteq SUBSET Message
        OBVIOUS
    <2>4. {changed', readonly'} \subseteq BOOLEAN
        BY <2>1
    <2>5. QED BY <2>1, <2>2, <2>3, <2>4 DEF TypeOK, Pcs
<1>2. ChangeInv'
    BY DEF Forget, ChangeInv
<1>3. LockInv'
    BY DEF Forget, Unlock, LockInv
<1>4. Bounds'
    BY DEF Forget, Bounds, Syncing
<1>5. QED BY <1>1, <1>2, <1>3, <1>4 DEF Base

LEMMA EndsKeepBase ==
    ASSUME Base, UNCHANGED env,
           Crash \/ (\E purge : CloseUnchanged(purge)) \/ WriteFails \/ SyncUnlink \/ CloseDone
    PROVE  Base' /\ Forget
<1>1. /\ file \in Seq(Block) /\ delivered \subseteq Message /\ removed \subseteq Message
      /\ unwanted \subseteq Message /\ savefile \subseteq Message /\ saved \subseteq Message
    BY DEF Base, TypeOK
<1>2. Recoverable(tmp) \subseteq Message
    BY DEF Recoverable
<1>3. Forget
    BY DEF Crash, CloseUnchanged, WriteFails, SyncUnlink, CloseDone
<1>4. file' \in Seq(Block) /\ delivered' \subseteq Message /\ removed' \subseteq Message
    <2>1. file' = file \/ file' = <<>>
        BY DEF Crash, CloseUnchanged, WriteFails, SyncUnlink, CloseDone, fileVars
    <2>2. delivered' = delivered /\ removed' = removed
        BY DEF Crash, CloseUnchanged, WriteFails, SyncUnlink, CloseDone, fileVars
    <2>3. <<>> \in Seq(Block)
        OBVIOUS
    <2>4. QED BY <1>1, <2>1, <2>2, <2>3
<1>5. unwanted' \subseteq Message /\ savefile' \subseteq Message /\ saved' \subseteq Message
    BY <1>1, <1>2 DEF Crash, CloseUnchanged, WriteFails, SyncUnlink, CloseDone, histVars
<1>6. QED BY <1>3, <1>4, <1>5, ForgetKeepsBase

\* The others, who wait for the lock.
LEMMA OthersKeepBase ==
    ASSUME Base, UNCHANGED env, lock = "none", file' \in Seq(Block),
           delivered' \subseteq Message, removed' \subseteq Message,
           UNCHANGED <<lock, pc, op, viewVars, syncVars, histVars>>
    PROVE  Base'
<1>1. pc \notin {"check", "copy", "write", "commit"}
    BY DEF Base, LockInv
<1>2. UNCHANGED <<lock, pc, op, view, changed, readonly, size, tmp, next, newOffset, unwanted, savefile, saved>>
    BY DEF viewVars, syncVars, histVars
<1>3. TypeOK'
    BY <1>2 DEF Base, TypeOK
<1>4. ChangeInv'
    BY <1>2 DEF Base, ChangeInv, AnyChanged, Touched
<1>5. LockInv'
    BY <1>2 DEF Base, LockInv
<1>6. Bounds'
    BY <1>1, <1>2 DEF Base, Bounds, Syncing
<1>7. QED BY <1>3, <1>4, <1>5, <1>6 DEF Base

LEMMA DeliverKeepsBase ==
    ASSUME Base, UNCHANGED env, NEW m \in Message, Deliver(m)
    PROVE  Base'
<1>1. file \in Seq(Block) /\ Text(m) \in Seq(Block)
    BY SeqTypes, TextIs DEF Base
<1>2. file' \in Seq(Block)
    BY <1>1 DEF Deliver
<1>3. delivered' \subseteq Message /\ removed' \subseteq Message
    BY DEF Deliver, Base, TypeOK
<1>4. QED BY <1>2, <1>3, OthersKeepBase DEF Deliver

LEMMA ExpungeKeepsBase ==
    ASSUME Base, UNCHANGED env, NEW i \in DOMAIN Parse(file, 0), Expunge(Parse(file, 0)[i])
    PROVE  Base'
<1>1. file \in Seq(Block) /\ Len(file) \in Nat /\ 0 \in Nat
    BY SeqTypes DEF Base
<1>2. Parse(file, 0)[i] \in Entry /\ Holds(file, Parse(file, 0)[i].offset, Parse(file, 0)[i].text)
    BY <1>1, ParseFinds
<1>3. PICK e \in Entry : e = Parse(file, 0)[i]
    BY <1>2
<1>4. /\ e.offset \in Nat /\ e.text \in Seq(Block) /\ Len(e.text) \in Nat /\ Len(e.text) > 0
      /\ e.offset + Len(e.text) <= Len(file)
    BY <1>2, <1>3 DEF Entry, Holds
<1>5. SubSeq(file, 1, e.offset) \in Seq(Block)
    BY <1>1, <1>4, CutIs
<1>6. PICK a \in Nat : a = e.offset + Len(e.text) + 1 /\ a >= 1
    BY <1>4
<1>7. \A k \in a .. Len(file) : file[k] \in Block
    BY <1>1, <1>6
<1>8. SubSeq(file, a, Len(file)) \in Seq(Block)
    BY <1>1, <1>6, <1>7, SubSeqProperties
<1>9. file' = SubSeq(file, 1, e.offset) \o SubSeq(file, a, Len(file))
    BY <1>3, <1>6 DEF Expunge
<1>10. Id(e) \in Message
    <2>1. e.text[1] \in Block
        BY <1>4
    <2>2. QED BY <2>1 DEF Id, Block
<1>11. removed' = removed \cup {Id(e)} /\ delivered' = delivered /\ lock = "none"
    BY <1>3 DEF Expunge
<1>12. file' \in Seq(Block) /\ delivered' \subseteq Message /\ removed' \subseteq Message
    BY <1>5, <1>8, <1>9, <1>10, <1>11 DEF Base, TypeOK
<1>13. QED BY <1>11, <1>12, OthersKeepBase DEF Expunge

\* Steps that change the view, outside the loops of a sync.
LEMMA ViewTypes ==
    ASSUME Base, UNCHANGED <<env, tmp, next, newOffset, savefile, saved>>, UNCHANGED fileVars,
           view' \in Seq(Entry), changed' \in BOOLEAN, unwanted' \subseteq Message,
           changed' => AnyChanged(view'),
           pc' \in {"idle", "giveup", "synced"}, pc \notin Syncing,
           lock' \in {"none", lock}, readonly' = readonly, size' \in Nat,
           op' = IF pc' = "idle" THEN "none" ELSE op, pc' # "idle" => op # "none",
           lock' = "excl" => op' # "none", pc' # "giveup" => lock' = "none"
    PROVE  Base'
<1>1. TypeOK'
    <2>1. {delivered', removed', unwanted', savefile', saved'} \subseteq SUBSET Message
        BY DEF Base, TypeOK, fileVars
    <2>2. {changed', readonly'} \subseteq BOOLEAN
        BY DEF Base, TypeOK
    <2>3. /\ env' \in Environments /\ file' \in Seq(Block) /\ tmp' \in Seq(Block)
          /\ lock' \in {"none", "shared", "excl"} /\ op' \in {"none", "sync", "close"}
          /\ next' \in Nat /\ newOffset' \in Seq(Nat) /\ pc' \in Pcs
        BY DEF Base, TypeOK, Pcs, fileVars
    <2>4. pc' \in {"closed", "read", "idle"} => op' = "none"
        OBVIOUS
    <2>5. QED BY <2>1, <2>2, <2>3, <2>4 DEF TypeOK, Entry
<1>2. ChangeInv'
    BY DEF ChangeInv
<1>3. LockInv'
    BY DEF LockInv
<1>4. Bounds'
    BY DEF Base, Bounds, Syncing
<1>5. QED BY <1>1, <1>2, <1>3, <1>4 DEF Base

LEMMA LookKeepsBase ==
    ASSUME Base, UNCHANGED env, Read \/ CheckNewMail \/ Reread \/ SyncDone
    PROVE  Base'
<1>1. /\ file \in Seq(Block) /\ view \in Seq(Entry) /\ Len(file) \in Nat /\ size \in Nat
      /\ changed \in BOOLEAN /\ unwanted \subseteq Message
    BY SeqTypes DEF Base, TypeOK
<1>2. \A o \in Nat : Parse(file, o) \in Seq(Entry)
    BY <1>1, ParseFinds
<1>3. UNCHANGED <<tmp, next, newOffset, savefile, saved, unwanted, readonly>> /\ UNCHANGED fileVars
    BY DEF Read, CheckNewMail, Reread, SyncDone, viewVars, syncVars, histVars
<1>4. view' \in Seq(Entry) /\ changed' \in BOOLEAN /\ (changed' => AnyChanged(view'))
    <2>1. CASE Read
        <3>1. view' = Parse(file, 0) /\ 0 \in Nat
            BY <2>1 DEF Read
        <3>2. ~changed /\ changed' = changed
            BY <2>1 DEF Read, Base, ChangeInv
        <3>3. view' \in Seq(Entry)
            BY <1>2, <3>1
        <3>4. changed' = FALSE
            BY <1>1, <3>2
        <3>5. QED BY <3>3, <3>4
    <2>2. CASE CheckNewMail
        <3>1. view' = view \o Parse(file, size) /\ changed' = AnyChanged(view')
            BY <2>2 DEF CheckNewMail, Recount
        <3>2. PICK more : more = Parse(file, size) /\ more \in Seq(Entry)
            BY <1>1, <1>2
        <3>3. view' \in Seq(Entry)
            BY <1>1, <3>1, <3>2
        <3>4. AnyChanged(view') \in BOOLEAN
            BY DEF AnyChanged
        <3>5. changed' \in BOOLEAN /\ (changed' => AnyChanged(view'))
            BY <3>1, <3>4, Zenon
        <3>6. QED BY <3>3, <3>5
    <2>3. CASE Reread
        <3>1. PICK new \in Seq(Entry) : UpdateTables(IF readonly THEN new ELSE WithOldFlags(new, view))
            BY <1>2, <2>3 DEF Reread
        <3>2. PICK v \in Seq(Entry) : UpdateTables(v)
            BY <1>1, <3>1, WithOldFlagsTypes
        <3>3. QED BY <3>2, TablesLeave
    <2>4. CASE SyncDone
        <3>1. UpdateTables(view)
            BY <2>4 DEF SyncDone
        <3>2. QED BY <1>1, <3>1, TablesLeave
    <2>5. QED BY <2>1, <2>2, <2>3, <2>4
<1>5. /\ pc' \in {"idle", "giveup", "synced"} /\ pc \notin Syncing
      /\ op' = (IF pc' = "idle" THEN "none" ELSE op) /\ (pc' # "idle" => op # "none")
    <2>1. CASE Read
        BY <2>1 DEF Read, Base, TypeOK, Syncing
    <2>2. CASE CheckNewMail
        BY <2>2 DEF CheckNewMail, Checking, Back, Base, TypeOK, LockInv, Syncing
    <2>3. CASE Reread
        <3>1. op' = op /\ pc \in {"resync", "reread"} /\ pc' = IF pc = "resync" THEN "giveup" ELSE "idle"
            BY <2>3 DEF Reread
        <3>2. pc = "resync" => op # "none"
            BY DEF Base, LockInv
        <3>3. pc = "reread" => op = "none"
            BY DEF Base, LockInv
        <3>4. QED BY <3>1, <3>2, <3>3 DEF Syncing
    <2>4. CASE SyncDone
        BY <2>4 DEF SyncDone, Syncing
    <2>5. QED BY <2>1, <2>2, <2>3, <2>4
<1>6. /\ lock' \in {"none", lock} /\ (lock' = "excl" => op' # "none") /\ size' \in Nat
      /\ pc' # "giveup" => lock' = "none"
    <2>1. size' = size \/ size' = Len(file)
        BY DEF Read, CheckNewMail, Reread, SyncDone
    <2>2. CASE Read
        BY <1>1, <2>1, <2>2 DEF Read, Unlock
    <2>3. CASE CheckNewMail
        BY <1>1, <1>5, <2>1, <2>3 DEF CheckNewMail, Checking, Back, Base, TypeOK, LockInv
    <2>4. CASE Reread
        BY <1>1, <1>5, <2>1, <2>4 DEF Reread, Base, TypeOK, LockInv
    <2>5. CASE SyncDone
        <3>1. lock' = "none"
            BY <2>5 DEF SyncDone, Base, LockInv
        <3>2. QED BY <1>1, <2>1, <3>1
    <2>6. QED BY <2>2, <2>3, <2>4, <2>5
<1>7. QED BY <1>1, <1>3, <1>4, <1>5, <1>6, ViewTypes

\* What the user does to the view.
LEMMA UserKeepsBase ==
    ASSUME Base, UNCHANGED env, NEW i, NEW d \in BOOLEAN, NEW o \in {"sync", "close"}, NEW q \in BOOLEAN,
           Mark(i, d) \/ Flag(i) \/ Begin(o, q)
    PROVE  Base'
<1>1. /\ file \in Seq(Block) /\ view \in Seq(Entry) /\ size \in Nat /\ pc = "idle" /\ lock = "none"
      /\ changed \in BOOLEAN /\ readonly \in BOOLEAN /\ unwanted \subseteq Message /\ op = "none"
      /\ (changed => AnyChanged(view))
    BY SeqTypes DEF Base, TypeOK, LockInv, ChangeInv, Mark, Flag, Begin
<1>2. \A k \in DOMAIN view : Id(view[k]) \in Message
    BY SeqTypes DEF Base
<1>3. /\ UNCHANGED <<env, file, delivered, removed, lock, readonly, size, tmp, next, newOffset, savefile, saved>>
      /\ unwanted' \subseteq Message
    <2>1. UNCHANGED <<env, file, delivered, removed, lock, readonly, size, tmp, next, newOffset, savefile, saved>>
        BY DEF Mark, Flag, Begin, fileVars, syncVars, histVars
    <2>2. CASE Mark(i, d)
        <3>1. unwanted' \subseteq unwanted \cup {Id(view[i])} /\ i \in DOMAIN view
            BY <2>2 DEF Mark
        <3>2. unwanted' \subseteq Message
            BY <1>1, <1>2, <3>1
        <3>3. QED BY <2>1, <3>2
    <2>3. CASE Flag(i)
        <3>1. unwanted' = unwanted
            BY <2>3 DEF Flag, histVars
        <3>2. QED BY <1>1, <2>1, <3>1
    <2>4. CASE Begin(o, q)
        <3>1. unwanted' \subseteq unwanted
            BY <2>4 DEF Begin
        <3>2. QED BY <1>1, <2>1, <3>1
    <2>5. QED BY <2>1, <2>2, <2>3, <2>4
<1>4. view' \in Seq(Entry) /\ changed' \in BOOLEAN /\ (changed' => AnyChanged(view'))
    <2>1. CASE Mark(i, d)
        <3>1. view' \in Seq(Entry) /\ Reflagged(view, view') /\ \A k \in DOMAIN view : view'[k].changed = view[k].changed
            BY <2>1, UserViews DEF Base
        <3>2. AnyChanged(view) => AnyChanged(view')
            BY <3>1 DEF AnyChanged, Reflagged
        <3>3. changed' = changed
            BY <2>1 DEF Mark
        <3>4. QED BY <1>1, <3>1, <3>2, <3>3
    <2>2. CASE Flag(i)
        <3>1. view' \in Seq(Entry) /\ AnyChanged(view')
            BY <2>2, UserViews DEF Base
        <3>2. changed' = TRUE
            BY <2>2 DEF Flag
        <3>3. QED BY <3>1, <3>2
    <2>3. CASE Begin(o, q)
        <3>1. view' \in Seq(Entry) /\ Reflagged(view, view') /\ \A k \in DOMAIN view : view'[k].changed = view[k].changed
            BY <2>3, UserViews DEF Base
        <3>2. AnyChanged(view) => AnyChanged(view')
            BY <3>1 DEF AnyChanged, Reflagged
        <3>3. changed' = changed
            BY <2>3 DEF Begin
        <3>4. QED BY <1>1, <3>1, <3>2, <3>3
    <2>4. QED BY <2>1, <2>2, <2>3
<1>5. \/ pc' = "idle" /\ op' = "none"
      \/ pc' = "lock" /\ op' = o /\ Touched' # {}
    <2>1. CASE Mark(i, d) \/ Flag(i)
        BY <1>1, <2>1 DEF Mark, Flag
    <2>2. CASE Begin(o, q)
        <3>1. pc' = "lock" /\ op' = o /\ (changed \/ (q /\ Marked(view) # {}))
            BY <2>2 DEF Begin
        <3>2. PICK w : w = view'
            OBVIOUS
        <3>3. DOMAIN w = DOMAIN view /\ \A k \in DOMAIN view : w[k].changed = view[k].changed
                                                          /\ w[k].deleted = (q /\ view[k].deleted)
            BY <2>2, <3>2, UserViews DEF Base, Reflagged
        <3>4. \E k \in DOMAIN w : w[k].deleted \/ w[k].changed
            <4>1. CASE changed
                BY <1>1, <3>3, <4>1 DEF AnyChanged
            <4>2. CASE q /\ Marked(view) # {}
                BY <3>3, <4>2 DEF Marked
            <4>3. QED BY <3>1, <4>1, <4>2
        <3>5. Touched' # {}
            BY <3>2, <3>4 DEF Touched
        <3>6. QED BY <3>1, <3>5
    <2>3. QED BY <2>1, <2>2
<1>6. TypeOK'
    <2>1. {delivered', removed', unwanted', savefile', saved'} \subseteq SUBSET Message
        BY <1>3 DEF Base, TypeOK
    <2>2. {changed', readonly'} \subseteq BOOLEAN
        BY <1>1, <1>3, <1>4
    <2>3. QED BY <1>1, <1>3, <1>4, <1>5, <2>1, <2>2 DEF Base, TypeOK, Entry, Pcs
<1>7. ChangeInv'
    BY <1>4, <1>5 DEF ChangeInv
<1>8. LockInv'
    BY <1>1, <1>3, <1>5 DEF LockInv
<1>9. Bounds'
    BY <1>1, <1>3, <1>5 DEF Base, Bounds, Syncing
<1>10. QED BY <1>6, <1>7, <1>8, <1>9 DEF Base

\* The message that Copy looks at.
Index == IF next = 0 THEN FirstTouched ELSE next

\* One more message is copied, or left out; the copy is complete.
LEMMA CopyKeepsBase ==
    ASSUME FileLock, Base, UNCHANGED env, Copy \/ Copied
    PROVE  /\ Base'
           /\ Copied => next # 0
           /\ Copy => /\ Index \in DOMAIN view /\ next' = Index + 1 /\ Index >= FirstTouched
                      /\ newOffset' = Append(newOffset, IF view[Index].deleted THEN 0 ELSE NewOffset)
                      /\ tmp' = IF view[Index].deleted THEN tmp
                                ELSE tmp \o Chunk(file, view[Index].offset, Len(view[Index].text))
                      /\ Len(newOffset) = Index - FirstTouched
                      /\ next = 0 => tmp = <<>>
<1>1. pc = "copy" /\ Touched # {} /\ lock = "excl" /\ op # "none"
    BY DEF Base, ChangeInv, LockInv, Copy, Copied
<1>2. /\ file \in Seq(Block) /\ view \in Seq(Entry) /\ tmp \in Seq(Block) /\ newOffset \in Seq(Nat)
      /\ next \in Nat /\ Len(newOffset) \in Nat /\ Len(tmp) \in Nat /\ Len(view) \in Nat /\ DOMAIN view = 1 .. Len(view)
      /\ \A k \in DOMAIN view : /\ view[k].text \in Seq(Block) /\ view[k].offset \in Nat /\ Len(view[k].text) \in Nat
                                /\ view[k] \in Entry
    BY SeqTypes DEF Base
<1>3. FirstTouched \in DOMAIN view /\ FirstTouched \in Nat /\ FirstTouched > 0 /\ Offset \in Nat
    BY <1>1, <1>2, FirstIs
<1>4. /\ UNCHANGED <<env, file, delivered, removed, op, view, changed, readonly, size, unwanted, savefile, saved>>
      /\ lock' = lock
    BY DEF Copy, Copied, CloseOther, FileLock, fileVars, viewVars, histVars
<1>5. Touched' = Touched /\ FirstTouched' = FirstTouched /\ Len(view') = Len(view)
    BY <1>4 DEF Touched, FirstTouched
<1>6. /\ next = 0 => tmp = <<>> /\ newOffset = <<>>
      /\ next # 0 => FirstTouched < next /\ next <= Len(view) + 1 /\ Len(newOffset) = next - FirstTouched
    BY <1>1 DEF Base, Bounds
<1>7. ASSUME Copy
      PROVE  /\ Index \in DOMAIN view /\ next' = Index + 1 /\ Index >= FirstTouched
             /\ newOffset' = Append(newOffset, IF view[Index].deleted THEN 0 ELSE NewOffset)
             /\ tmp' = IF view[Index].deleted THEN tmp
                       ELSE tmp \o Chunk(file, view[Index].offset, Len(view[Index].text))
             /\ Len(newOffset) = Index - FirstTouched
             /\ next = 0 => tmp = <<>>
             /\ tmp' \in Seq(Block) /\ next' \in Nat /\ newOffset' \in Seq(Nat) /\ pc' = "copy"
             /\ Bounds'
    <2>1. Index \in DOMAIN view /\ next' = Index + 1 /\ pc' = "copy"
        BY <1>7 DEF Copy, Index
    <2>2. Index \in Nat /\ Index >= FirstTouched /\ Len(newOffset) = Index - FirstTouched /\ Index <= Len(view)
        BY <1>2, <1>3, <1>6, <2>1 DEF Index
    <2>3. NewOffset \in Nat
        BY <1>2, <1>3 DEF NewOffset
    <2>4. PICK i \in DOMAIN view : i = Index
        BY <2>1
    <2>5. PICK c \in Seq(Block) : c = Chunk(file, view[i].offset, Len(view[i].text))
        BY <1>2, ChunkTypes
    <2>6. /\ newOffset' = Append(newOffset, IF view[i].deleted THEN 0 ELSE NewOffset)
          /\ tmp' = IF view[i].deleted THEN tmp ELSE tmp \o c
        BY <1>7, <2>4, <2>5 DEF Copy, Index
    <2>7. tmp' \in Seq(Block)
        BY <1>2, <2>5, <2>6
    <2>8. newOffset' \in Seq(Nat) /\ Len(newOffset') = Len(newOffset) + 1
        BY <1>2, <2>3, <2>6
    <2>9. Bounds'
        BY <1>2, <1>3, <1>4, <1>5, <2>1, <2>2, <2>8 DEF Bounds, Syncing
    <2>10. QED BY <1>6, <2>1, <2>2, <2>4, <2>5, <2>6, <2>7, <2>8, <2>9
<1>8. ASSUME Copied
      PROVE  next # 0 /\ tmp' = tmp /\ next' = 0 /\ newOffset' = newOffset /\ pc' = "write" /\ Bounds'
    <2>1. next = Len(view) + 1 /\ pc' = "write" /\ next' = 0 /\ tmp' = tmp /\ newOffset' = newOffset
        BY <1>8 DEF Copied
    <2>2. next # 0
        BY <1>2, <2>1
    <2>3. Len(newOffset') = Len(view') + 1 - FirstTouched' /\ Touched' # {}
        BY <1>1, <1>2, <1>3, <1>5, <1>6, <2>1, <2>2
    <2>4. 0 <= Len(tmp')
        BY <1>2, <2>1
    <2>5. Bounds'
        BY <2>1, <2>3, <2>4 DEF Bounds, Syncing
    <2>6. QED BY <2>1, <2>2, <2>5
<1>9. tmp' \in Seq(Block) /\ next' \in Nat /\ newOffset' \in Seq(Nat) /\ pc' \in {"copy", "write"} /\ Bounds'
    BY <1>2, <1>7, <1>8
<1>10. TypeOK'
    <2>1. {delivered', removed', unwanted', savefile', saved'} \subseteq SUBSET Message
        BY <1>4 DEF Base, TypeOK
    <2>2. {changed', readonly'} \subseteq BOOLEAN
        BY <1>4 DEF Base, TypeOK
    <2>3. QED BY <1>2, <1>4, <1>9, <1>1, <2>1, <2>2 DEF Base, TypeOK, Entry, Pcs
<1>11. ChangeInv'
    <2>1. (changed => AnyChanged(view)) /\ AnyChanged(view)' = AnyChanged(view)
        BY <1>4 DEF Base, ChangeInv, AnyChanged
    <2>2. QED BY <1>1, <1>4, <1>5, <1>9, <2>1 DEF ChangeInv, AnyChanged
<1>12. LockInv'
    BY <1>1, <1>4, <1>9 DEF LockInv
<1>13. Base'
    BY <1>9, <1>10, <1>11, <1>12 DEF Base
<1>14. QED BY <1>7, <1>8, <1>13

\* One block is written back.
LEMMA WriteBackKeepsBase ==
    ASSUME Base, UNCHANGED env, WriteBack
    PROVE  /\ Base'
           /\ Touched # {} /\ next < Len(tmp) /\ Offset + next <= Len(file)
           /\ Len(file') = IF Offset + next < Len(file) THEN Len(file) ELSE Len(file) + 1
           /\ file'[Offset + next + 1] = tmp[next + 1]
           /\ \A k \in DOMAIN file : k # Offset + next + 1 => file'[k] = file[k]
<1>1. pc = "write" /\ Touched # {} /\ lock = "excl" /\ op # "none" /\ next < Len(tmp)
    BY DEF Base, Bounds, LockInv, WriteBack
<1>2. /\ file \in Seq(Block) /\ view \in Seq(Entry) /\ tmp \in Seq(Block) /\ newOffset \in Seq(Nat)
      /\ next \in Nat /\ Len(newOffset) \in Nat /\ Len(tmp) \in Nat /\ Len(view) \in Nat /\ Len(file) \in Nat
    BY SeqTypes DEF Base
<1>3. Offset \in Nat
    BY <1>1, <1>2, FirstIs
<1>4. Offset + next <= Len(file)
    BY <1>1, <1>2, <1>3 DEF Base, Bounds, WriteBack, IsFrom
<1>5. /\ UNCHANGED <<env, delivered, removed, lock, op, view, changed, readonly, size, unwanted, savefile, saved>>
      /\ UNCHANGED <<tmp, newOffset, pc>> /\ next' = next + 1
    BY DEF WriteBack, viewVars, histVars
<1>6. PICK p \in Nat : p = Offset + next + 1
    BY <1>2, <1>3
<1>7. PICK b \in Block : b = tmp[next + 1]
    BY <1>1, <1>2
<1>8. file' = IF p <= Len(file) THEN [file EXCEPT ![p] = b] ELSE Append(file, b)
    BY <1>6, <1>7 DEF WriteBack
<1>9. /\ file' \in Seq(Block)
      /\ Len(file') = IF p <= Len(file) THEN Len(file) ELSE Len(file) + 1
      /\ file'[p] = b
      /\ \A k \in DOMAIN file : k # p => file'[k] = file[k]
    <2>1. CASE p <= Len(file)
        BY <1>2, <1>3, <1>6, <1>7, <1>8, <2>1
    <2>2. CASE p > Len(file)
        <3>1. p = Len(file) + 1 /\ file' = Append(file, b)
            BY <1>2, <1>3, <1>4, <1>6, <1>8, <2>2
        <3>2. QED BY <1>2, <1>7, <2>2, <3>1
    <2>3. QED BY <1>2, <1>6, <2>1, <2>2
<1>10. Touched' = Touched /\ FirstTouched' = FirstTouched /\ Len(view') = Len(view) /\ Offset' = Offset
    BY <1>5 DEF Touched, FirstTouched, Offset
<1>11. Bounds'
    <2>1. next' <= Len(tmp') /\ Offset' + next' <= Len(file')
        BY <1>1, <1>2, <1>3, <1>4, <1>5, <1>6, <1>9, <1>10
    <2>2. pc' = "write" /\ Touched' # {} /\ Len(newOffset') = Len(view') + 1 - FirstTouched'
        BY <1>1, <1>5, <1>10 DEF Base, Bounds
    <2>3. QED BY <2>1, <2>2 DEF Bounds, Syncing
<1>12. TypeOK'
    <2>1. {delivered', removed', unwanted', savefile', saved'} \subseteq SUBSET Message
        BY <1>5 DEF Base, TypeOK
    <2>2. {changed', readonly'} \subseteq BOOLEAN
        BY <1>5 DEF Base, TypeOK
    <2>3. QED BY <1>1, <1>2, <1>5, <1>9, <2>1, <2>2 DEF Base, TypeOK
<1>13. ChangeInv'
    BY <1>1, <1>5 DEF Base, ChangeInv, AnyChanged
<1>14. LockInv'
    BY <1>1, <1>5 DEF LockInv
<1>15. Base'
    BY <1>11, <1>12, <1>13, <1>14 DEF Base
<1>16. Offset + next < Len(file) <=> p <= Len(file)
    BY <1>2, <1>3, <1>6
<1>17. QED BY <1>1, <1>4, <1>6, <1>7, <1>9, <1>15, <1>16

\* The file is cut to what was written.
LEMMA TruncateKeepsBase ==
    ASSUME Base, UNCHANGED env, Truncate
    PROVE  /\ Base'
           /\ Touched # {} /\ next = Len(tmp) /\ Offset + Len(tmp) <= Len(file)
           /\ file' = SubSeq(file, 1, Offset + Len(tmp))
           /\ Len(file') = Offset + Len(tmp) /\ \A k \in 1 .. Offset + Len(tmp) : file'[k] = file[k]
<1>1. pc = "write" /\ Touched # {} /\ lock = "excl" /\ op # "none" /\ next = Len(tmp)
    BY DEF Base, Bounds, LockInv, Truncate
<1>2. /\ file \in Seq(Block) /\ view \in Seq(Entry) /\ tmp \in Seq(Block) /\ newOffset \in Seq(Nat)
      /\ next \in Nat /\ Len(newOffset) \in Nat /\ Len(tmp) \in Nat /\ Len(view) \in Nat /\ Len(file) \in Nat
    BY SeqTypes DEF Base
<1>3. Offset \in Nat
    BY <1>1, <1>2, FirstIs
<1>4. Offset + Len(tmp) <= Len(file)
    BY <1>1, <1>2, <1>3 DEF Base, Bounds, Truncate, IsFrom
<1>5. /\ UNCHANGED <<env, delivered, removed, lock, op, view, changed, readonly, unwanted, savefile, saved>>
      /\ UNCHANGED <<tmp, newOffset, next>> /\ pc' = "commit" /\ size' = Offset + Len(tmp)
    BY DEF Truncate, syncVars, histVars
<1>6. PICK n \in Nat : n = Offset + Len(tmp)
    BY <1>2, <1>3
<1>7. file' = SubSeq(file, 1, n)
    BY <1>6 DEF Truncate, Truncated
<1>8. file' \in Seq(Block) /\ Len(file') = n /\ \A k \in 1 .. n : file'[k] = file[k]
    BY <1>2, <1>4, <1>6, <1>7, CutIs
<1>9. Touched' = Touched /\ FirstTouched' = FirstTouched /\ Len(view') = Len(view)
    BY <1>5 DEF Touched, FirstTouched
<1>10. Bounds'
    <2>1. Touched' # {} /\ Len(newOffset') = Len(view') + 1 - FirstTouched'
        BY <1>1, <1>5, <1>9 DEF Base, Bounds
    <2>2. QED BY <1>5, <2>1 DEF Bounds, Syncing
<1>11. TypeOK'
    <2>1. {delivered', removed', unwanted', savefile', saved'} \subseteq SUBSET Message
        BY <1>5 DEF Base, TypeOK
    <2>2. {changed', readonly'} \subseteq BOOLEAN
        BY <1>5 DEF Base, TypeOK
    <2>3. QED BY <1>1, <1>2, <1>5, <1>6, <1>8, <2>1, <2>2 DEF Base, TypeOK, Pcs
<1>12. ChangeInv'
    BY <1>1, <1>5 DEF Base, ChangeInv, AnyChanged
<1>13. LockInv'
    BY <1>1, <1>5 DEF LockInv
<1>14. Base'
    BY <1>10, <1>11, <1>12, <1>13 DEF Base
<1>15. QED BY <1>1, <1>4, <1>6, <1>7, <1>8, <1>14

\* The view with the new offsets.
LEMMA NewViewIs ==
    ASSUME TypeOK, Touched # {}, Len(newOffset) = Len(view) + 1 - FirstTouched
    PROVE  /\ NewView \in Seq(Entry) /\ DOMAIN NewView = DOMAIN view
           /\ \A i \in DOMAIN view :
                 /\ NewView[i].text = view[i].text /\ NewView[i].deleted = view[i].deleted
                 /\ NewView[i].changed = view[i].changed
                 /\ NewView[i].offset = IF i >= FirstTouched /\ ~view[i].deleted THEN Place(newOffset, i)
                                        ELSE view[i].offset
                 /\ i >= FirstTouched => Place(newOffset, i) \in Nat
<1>1. Touched # {} /\ Len(newOffset) = Len(view) + 1 - FirstTouched
    OBVIOUS
<1>2. /\ view \in Seq(Entry) /\ newOffset \in Seq(Nat) /\ Len(view) \in Nat /\ DOMAIN view = 1 .. Len(view)
      /\ \A k \in DOMAIN view : view[k] \in Entry
    BY SeqTypes
<1>3. FirstTouched \in DOMAIN view /\ FirstTouched \in Nat
    BY <1>1, <1>2, FirstIs
<1>4. ASSUME NEW i \in DOMAIN view, i >= FirstTouched PROVE Place(newOffset, i) \in Nat
    <2>1. i - FirstTouched + 1 \in 1 .. Len(newOffset)
        BY <1>1, <1>2, <1>3, <1>4
    <2>2. newOffset[i - FirstTouched + 1] \in Nat
        BY <1>2, <2>1
    <2>3. QED BY <2>2 DEF Place
<1> DEFINE entry(i) == IF i >= FirstTouched /\ ~view[i].deleted THEN [view[i] EXCEPT !.offset = Place(newOffset, i)]
                       ELSE view[i]
<1>5. ASSUME NEW i \in DOMAIN view
      PROVE  /\ entry(i) \in Entry
             /\ entry(i).text = view[i].text /\ entry(i).deleted = view[i].deleted
             /\ entry(i).changed = view[i].changed
             /\ entry(i).offset = IF i >= FirstTouched /\ ~view[i].deleted THEN Place(newOffset, i) ELSE view[i].offset
    <2>1. view[i] \in Entry
        BY <1>2
    <2>2. CASE i >= FirstTouched /\ ~view[i].deleted
        <3>1. PICK o \in Nat : o = Place(newOffset, i)
            BY <1>4, <2>2
        <3>2. entry(i) = [view[i] EXCEPT !.offset = o]
            BY <2>2, <3>1
        <3>3. QED BY <2>1, <2>2, <3>1, <3>2 DEF Entry
    <2>3. CASE ~(i >= FirstTouched /\ ~view[i].deleted)
        <3>1. entry(i) = view[i]
            BY <2>3
        <3>2. QED BY <2>1, <2>3, <3>1
    <2>4. QED BY <2>2, <2>3
<1>6. NewView = [i \in DOMAIN view |-> entry(i)]
    BY DEF NewView
<1> HIDE DEF entry
<1>7. NewView \in Seq(Entry) /\ DOMAIN NewView = DOMAIN view
    BY <1>2, <1>5, <1>6
<1>8. \A i \in DOMAIN view : NewView[i] = entry(i)
    BY <1>6
<1>9. QED BY <1>1, <1>4, <1>5, <1>7, <1>8

LEMMA CommitKeepsBase ==
    ASSUME Base, UNCHANGED env, Commit
    PROVE  Base' /\ view' = NewView
<1>1. pc = "commit" /\ lock = "excl" /\ op # "none"
    BY DEF Base, LockInv, Commit
<1>2. /\ view' = NewView /\ tmp' = <<>> /\ next' = 0 /\ newOffset' = <<>> /\ pc' = "synced" /\ lock' = "none"
      /\ UNCHANGED <<env, file, delivered, removed, op, changed, readonly, size, unwanted, savefile, saved>>
    BY DEF Commit, NewView, Place, Unlock, fileVars, histVars
<1>3. /\ NewView \in Seq(Entry) /\ DOMAIN NewView = DOMAIN view
      /\ \A i \in DOMAIN view : NewView[i].changed = view[i].changed
    BY <1>1, NewViewIs DEF Base, Bounds
<1>4. AnyChanged(view) => AnyChanged(NewView)
    BY <1>3 DEF AnyChanged
<1>5. ChangeInv'
    <2>1. changed => AnyChanged(view)
        BY DEF Base, ChangeInv
    <2>2. changed' => AnyChanged(NewView)
        BY <1>2, <1>4, <2>1
    <2>3. changed' => AnyChanged(view')
        BY <1>2, <2>2
    <2>4. QED BY <1>2, <2>3 DEF ChangeInv
<1>6. TypeOK'
    <2>1. {delivered', removed', unwanted', savefile', saved'} \subseteq SUBSET Message
        BY <1>2 DEF Base, TypeOK
    <2>2. {changed', readonly'} \subseteq BOOLEAN
        BY <1>2 DEF Base, TypeOK
    <2>3. QED BY <1>1, <1>2, <1>3, <2>1, <2>2 DEF Base, TypeOK, Entry, Pcs
<1>7. LockInv'
    BY <1>1, <1>2 DEF LockInv
<1>8. Bounds'
    BY <1>2 DEF Bounds, Syncing
<1>9. QED BY <1>2, <1>5, <1>6, <1>7, <1>8 DEF Base

LEMMA BailKeepsBase ==
    ASSUME Base, UNCHANGED env, Bail
    PROVE  Base'
<1>1. pc \in {"bail", "giveup"} /\ op # "none"
    BY DEF Base, LockInv, Bail
<1>2. /\ tmp' = <<>> /\ next' = 0 /\ newOffset' = <<>> /\ lock' = "none"
      /\ (pc' = "synced" /\ op' = op) \/ (pc' = "idle" /\ op' = "none")
      /\ UNCHANGED <<env, file, delivered, removed, readonly, size, unwanted, savefile, saved>>
    BY DEF Bail, Unlock, fileVars, histVars
<1>3. view' \in Seq(Entry) /\ changed' = FALSE
    <2>1. UpdateTables(view) /\ view \in Seq(Entry)
        BY SeqTypes DEF Bail, Base
    <2>2. QED BY <2>1, TablesLeave
<1>4. TypeOK'
    <2>1. {delivered', removed', unwanted', savefile', saved'} \subseteq SUBSET Message
        BY <1>2 DEF Base, TypeOK
    <2>2. {changed', readonly'} \subseteq BOOLEAN
        BY <1>2, <1>3 DEF Base, TypeOK
    <2>3. QED BY <1>1, <1>2, <1>3, <2>1, <2>2 DEF Base, TypeOK, Entry, Pcs
<1>5. ChangeInv'
    BY <1>2, <1>3 DEF ChangeInv
<1>6. LockInv'
    BY <1>1, <1>2 DEF LockInv
<1>7. Bounds'
    BY <1>2 DEF Bounds, Syncing
<1>8. QED BY <1>4, <1>5, <1>6, <1>7 DEF Base

-----------------------------------------------------------------------------
(* A sync finds what it is called for *)

\* The steps, sorted by what they do to the view.
SimpleStep == Open \/ CheckSame \/ CheckReopen \/ Lock \/ CopyFails
LookStep   == Read \/ CheckNewMail \/ Reread \/ SyncDone
EndStep    == Crash \/ (\E purge : CloseUnchanged(purge)) \/ WriteFails \/ SyncUnlink \/ CloseDone

LEMMA Steps ==
    ASSUME Next
    PROVE  \/ SimpleStep \/ LookStep \/ EndStep
           \/ \E m \in Message : Deliver(m)
           \/ \E i \in DOMAIN Parse(file, 0) : Expunge(Parse(file, 0)[i])
           \/ \E i : \E d \in BOOLEAN : Mark(i, d)
           \/ \E i : Flag(i)
           \/ \E o \in {"sync", "close"}, q \in BOOLEAN : Begin(o, q)
           \/ Copy \/ Copied \/ WriteBack \/ Truncate \/ Commit \/ Bail
<1>1. CASE OtherStep
    BY <1>1 DEF OtherStep, EndStep
<1>2. CASE OpenStep
    BY <1>2 DEF OpenStep, SimpleStep, LookStep
<1>3. CASE CheckStep
    BY <1>3 DEF CheckStep, SimpleStep, LookStep
<1>4. CASE UserStep
    BY <1>4 DEF UserStep, EndStep
<1>5. CASE SyncStep
    BY <1>5 DEF SyncStep, SimpleStep, LookStep, EndStep
<1>6. QED BY <1>1, <1>2, <1>3, <1>4, <1>5 DEF Next

LEMMA BaseStep ==
    ASSUME FileLock, Base, [Next]_vars
    PROVE  Base'
<1>1. CASE UNCHANGED vars
    BY <1>1 DEF vars, fileVars, viewVars, syncVars, histVars, Base, TypeOK, ChangeInv, LockInv, Bounds,
           AnyChanged, Touched, FirstTouched, Offset
<1>2. CASE Next
    <2>1. UNCHANGED env
        BY <1>2 DEF Next
    <2>2. CASE SimpleStep
        BY <2>1, <2>2, SimpleKeepBase DEF SimpleStep
    <2>3. CASE LookStep
        BY <2>1, <2>3, LookKeepsBase DEF LookStep
    <2>4. CASE EndStep
        BY <2>1, <2>4, EndsKeepBase DEF EndStep
    <2>5. ASSUME NEW m \in Message, Deliver(m) PROVE Base'
        BY <2>1, <2>5, DeliverKeepsBase
    <2>6. ASSUME NEW i \in DOMAIN Parse(file, 0), Expunge(Parse(file, 0)[i]) PROVE Base'
        BY <2>1, <2>6, ExpungeKeepsBase
    <2>7. ASSUME NEW i, NEW d \in BOOLEAN, Mark(i, d) PROVE Base'
        BY <2>1, <2>7, UserKeepsBase
    <2>8. ASSUME NEW i, Flag(i) PROVE Base'
        BY <2>1, <2>8, UserKeepsBase
    <2>9. ASSUME NEW o \in {"sync", "close"}, NEW q \in BOOLEAN, Begin(o, q) PROVE Base'
        BY <2>1, <2>9, UserKeepsBase
    <2>10. CASE Copy \/ Copied
        BY <2>1, <2>10, CopyKeepsBase
    <2>11. CASE WriteBack
        BY <2>1, <2>11, WriteBackKeepsBase
    <2>12. CASE Truncate
        BY <2>1, <2>12, TruncateKeepsBase
    <2>13. CASE Commit
        BY <2>1, <2>13, CommitKeepsBase
    <2>14. CASE Bail
        BY <2>1, <2>14, BailKeepsBase
    <2>15. QED BY <1>2, <2>2, <2>3, <2>4, <2>5, <2>6, <2>7, <2>8, <2>9, <2>10, <2>11, <2>12, <2>13, <2>14, Steps
<1>3. QED BY <1>1, <1>2

LEMMA BaseInit ==
    ASSUME Init
    PROVE  Base
<1>1. TypeOK
    <2>1. {delivered, removed, unwanted, savefile, saved} \subseteq SUBSET Message /\ {changed, readonly} \subseteq BOOLEAN
        BY DEF Init
    <2>2. QED BY <2>1 DEF Init, TypeOK, Pcs
<1>2. ChangeInv /\ LockInv /\ Bounds
    BY DEF Init, ChangeInv, LockInv, Bounds, Syncing
<1>3. QED BY <1>1, <1>2 DEF Base

\* When mbox_mbox_sync() comes to copy, an entry is marked or changed: the
\* error "no messages were found to be changed or deleted" never shows.  It is
\* m->changed that would promise too much; that a check found nothing new
\* keeps the view as it was when the sync began.
THEOREM SyncHasWork ==
    ASSUME FileLock
    PROVE  Spec => []SyncFindsChange
<1>1. Init => Base
    BY BaseInit
<1>2. Base /\ [Next]_vars => Base'
    BY BaseStep
<1>3. Base => SyncFindsChange
    BY DEF Base, ChangeInv, SyncFindsChange
<1>4. QED BY <1>1, <1>2, <1>3, PTL DEF Spec

-----------------------------------------------------------------------------
(* The messages stay where the index says *)

\* Where the elements of two sequences are in the two, one behind the other.
LEMMA Joined ==
    ASSUME NEW S, NEW s \in Seq(S), NEW t \in Seq(S)
    PROVE  /\ s \o t \in Seq(S) /\ Len(s \o t) = Len(s) + Len(t)
           /\ Len(s) \in Nat /\ Len(t) \in Nat
           /\ \A k \in 1 .. Len(s) : (s \o t)[k] = s[k]
           /\ \A k \in 1 .. Len(t) : (s \o t)[Len(s) + k] = t[k]
<1>1. PICK g : g = s \o t
    OBVIOUS
<1>2. /\ g \in Seq(S) /\ Len(g) = Len(s) + Len(t)
      /\ \A i \in 1 .. Len(s) + Len(t) : g[i] = IF i <= Len(s) THEN s[i] ELSE t[i - Len(s)]
    BY <1>1, ConcatProperties
<1>3. Len(s) \in Nat /\ Len(t) \in Nat
    OBVIOUS
<1>4. ASSUME NEW k \in 1 .. Len(t) PROVE g[Len(s) + k] = t[k]
    <2>1. Len(s) + k \in 1 .. Len(s) + Len(t) /\ ~(Len(s) + k <= Len(s)) /\ (Len(s) + k) - Len(s) = k
        BY <1>3
    <2>2. QED BY <1>2, <2>1
<1>5. \A k \in 1 .. Len(s) : g[k] = s[k]
    BY <1>2, <1>3
<1>6. QED BY <1>1, <1>2, <1>3, <1>4, <1>5

\* What is in the copy is as far behind the blocks before it.
LEMMA Shifted ==
    ASSUME NEW f \in Seq(Block), NEW t \in Seq(Block), NEW o \in Nat, o <= Len(f)
    PROVE  LET g == SubSeq(f, 1, o) \o t
           IN  /\ g \in Seq(Block) /\ Len(g) = o + Len(t)
               /\ \A k \in 1 .. o : g[k] = f[k]
               /\ \A k \in DOMAIN t : g[o + k] = t[k]
               /\ \A r \in Nat, text \in Seq(Block) : Holds(t, r, text) => Holds(g, o + r, text)
<1>1. PICK a : a = SubSeq(f, 1, o)
    OBVIOUS
<1>2. a \in Seq(Block) /\ Len(a) = o /\ \A k \in 1 .. o : a[k] = f[k]
    BY <1>1, CutIs
<1>3. PICK g : g = a \o t
    OBVIOUS
<1>4. /\ g \in Seq(Block) /\ Len(g) = o + Len(t) /\ Len(t) \in Nat
      /\ \A k \in 1 .. o : g[k] = a[k]
      /\ \A k \in 1 .. Len(t) : g[o + k] = t[k]
    <2>1. /\ g \in Seq(Block) /\ Len(g) = Len(a) + Len(t) /\ Len(t) \in Nat
          /\ \A k \in 1 .. Len(a) : g[k] = a[k]
          /\ \A k \in 1 .. Len(t) : g[Len(a) + k] = t[k]
        <3>1. a \in Seq(Block) /\ t \in Seq(Block)
            BY <1>2
        <3>2. QED BY ONLY <1>3, <3>1, Joined
    <2>2. QED BY <1>2, <2>1
<1>5. ASSUME NEW r \in Nat, NEW text \in Seq(Block), Holds(t, r, text) PROVE Holds(g, o + r, text)
    <2>1. PICK l \in Nat : l = Len(text)
        OBVIOUS
    <2>2. /\ l > 0 /\ r + l <= Len(t)
          /\ \A k \in 1 .. l : t[r + k] = text[k] /\ (text[k].part = 1 <=> k = 1)
          /\ r + l < Len(t) => t[r + l + 1].part = 1
        BY <1>5, <2>1 DEF Holds
    <2>3. ASSUME NEW k \in 1 .. l PROVE g[(o + r) + k] = text[k]
        <3>1. r + k \in 1 .. Len(t) /\ (o + r) + k = o + (r + k)
            BY <1>4, <2>2
        <3>2. g[o + (r + k)] = t[r + k]
            BY <1>4, <3>1
        <3>3. QED BY <2>2, <3>1, <3>2
    <2>4. ASSUME (o + r) + l < Len(g) PROVE g[(o + r) + l + 1].part = 1
        <3>1. r + l < Len(t) /\ r + l + 1 \in 1 .. Len(t) /\ (o + r) + l + 1 = o + (r + l + 1)
            BY <1>4, <2>2, <2>4
        <3>2. g[o + (r + l + 1)] = t[r + l + 1]
            BY <1>4, <3>1
        <3>3. QED BY <2>2, <3>1, <3>2
    <2>5. (o + r) + l <= Len(g)
        BY <1>4, <2>2
    <2>6. QED BY <2>1, <2>2, <2>3, <2>4, <2>5 DEF Holds
<1>6. QED BY <1>1, <1>2, <1>3, <1>4, <1>5

\* Dropping the marked entries leaves the others where they are.
LEMMA TablesKeepPlaces ==
    ASSUME NEW v \in Seq(Entry), UpdateTables(v), NEW f, NEW n, InPlace(f, v, Unmarked(v))
    PROVE  /\ InPlace(f, view', DOMAIN view')
           /\ InOrder(v, Unmarked(v), n) => InOrder(view', DOMAIN view', n)
           /\ Marked(view') = {}
<1>1. PICK w : w = view'
    OBVIOUS
<1>2. PICK e : /\ e \in [DOMAIN w -> Unmarked(v)]
               /\ \A i \in DOMAIN w : /\ w[i].text = v[e[i]].text /\ w[i].offset = v[e[i]].offset
                                      /\ ~w[i].deleted /\ ~w[i].changed
               /\ \A i, j \in DOMAIN w : i < j => e[i] < e[j]
    BY <1>1, TablesLeave
<1>3. \A i \in DOMAIN w : e[i] \in Unmarked(v)
    BY <1>2
<1>4. InPlace(f, w, DOMAIN w)
    BY <1>2, <1>3 DEF InPlace
<1>5. InOrder(v, Unmarked(v), n) => InOrder(w, DOMAIN w, n)
    BY <1>2, <1>3 DEF InOrder
<1>6. Marked(w) = {}
    BY <1>2 DEF Marked
<1>7. QED BY <1>1, <1>4, <1>5, <1>6

\* Mail that comes is behind what is there.
LEMMA DeliverIs ==
    ASSUME Base, NEW m \in Message, Deliver(m)
    PROVE  /\ file' \in Seq(Block) /\ Len(file') = Len(file) + Length[m] /\ Length[m] > 0
           /\ \A k \in 1 .. Len(file) : file'[k] = file[k]
           /\ \A k \in 1 .. Length[m] : file'[Len(file) + k] = [msg |-> m, part |-> k]
           /\ lock = "none" /\ delivered' = delivered \cup {m} /\ m \notin delivered
           /\ UNCHANGED <<removed, lock, pc, op, view, changed, readonly, size, tmp, next, newOffset,
                          unwanted, savefile, saved>>
<1>1. file \in Seq(Block) /\ Len(file) \in Nat
    BY SeqTypes DEF Base
<1>2. PICK t : t = Text(m)
    OBVIOUS
<1>3. /\ t \in Seq(Block) /\ Len(t) = Length[m] /\ Length[m] \in Nat /\ Length[m] > 0
      /\ \A k \in 1 .. Length[m] : t[k] = [msg |-> m, part |-> k]
    BY <1>2, TextIs
<1>4. PICK g : g = file'
    OBVIOUS
<1>5. g = file \o t
    BY <1>2, <1>4 DEF Deliver
<1>6. /\ g \in Seq(Block) /\ Len(g) = Len(file) + Len(t)
      /\ \A k \in 1 .. Len(file) : g[k] = file[k]
      /\ \A k \in 1 .. Len(t) : g[Len(file) + k] = t[k]
    BY <1>1, <1>3, <1>5, Joined
<1>7. /\ lock = "none" /\ delivered' = delivered \cup {m} /\ m \notin delivered
      /\ UNCHANGED <<removed, lock, pc, op, view, changed, readonly, size, tmp, next, newOffset,
                     unwanted, savefile, saved>>
    BY DEF Deliver, viewVars, syncVars, histVars
<1>8. QED BY <1>3, <1>4, <1>6, <1>7

LEMMA DeliverPlaced ==
    ASSUME Base, Placed, NEW m \in Message, Deliver(m)
    PROVE  Placed'
<1>1. /\ file \in Seq(Block) /\ Len(file) \in Nat /\ size \in Nat /\ view \in Seq(Entry)
      /\ \A i \in DOMAIN view : view[i].text \in Seq(Block) /\ view[i].offset \in Nat
    BY SeqTypes DEF Base
<1>2. /\ file' \in Seq(Block) /\ Len(file') = Len(file) + Length[m] /\ Length[m] > 0 /\ Length[m] \in Nat
      /\ \A k \in 1 .. Len(file) : file'[k] = file[k]
      /\ \A k \in 1 .. Length[m] : file'[Len(file) + k] = [msg |-> m, part |-> k]
      /\ lock = "none"
      /\ UNCHANGED <<lock, pc, view, readonly, size, tmp, next, newOffset>>
    BY DeliverIs, TextIs
<1>3. pc \notin {"check", "copy", "write", "commit"}
    BY <1>2 DEF Base, LockInv
<1>4. file'[Len(file) + 1].part = 1
    <2>1. file'[Len(file) + 1] = [msg |-> m, part |-> 1]
        BY <1>2
    <2>2. QED BY <2>1
<1>5. Control'
    BY <1>2 DEF Placed, Control
<1>6. SizeInv'
    <2>1. pc = "read" => readonly
        BY <1>2 DEF Placed, Control
    <2>2. ASSUME pc \in AtRest \cup {"read"} PROVE size <= Len(file') /\ (size < Len(file') => IsFrom(file', size + 1))
        <3>1. size <= Len(file) /\ (size < Len(file) => IsFrom(file, size + 1))
            BY <2>2 DEF Placed, SizeInv
        <3>2. CASE size = Len(file)
            BY <1>1, <1>2, <1>4, <3>2 DEF IsFrom
        <3>3. CASE size # Len(file)
            <4>1. size + 1 \in 1 .. Len(file) /\ IsFrom(file, size + 1)
                BY <1>1, <3>1, <3>3
            <4>2. file'[size + 1].part = 1 /\ size + 1 \in DOMAIN file'
                BY <1>1, <1>2, <4>1 DEF IsFrom
            <4>3. QED BY <1>1, <1>2, <4>1, <4>2 DEF IsFrom
        <3>4. QED BY <3>2, <3>3
    <2>3. QED BY <1>2, <1>3, <2>1, <2>2 DEF SizeInv
<1>7. ViewInv'
    <2>1. ASSUME NEW i \in DOMAIN view, Holds(file, view[i].offset, view[i].text)
          PROVE  Holds(file', view[i].offset, view[i].text)
        <3>1. PICK o \in Nat : o = view[i].offset
            BY <1>1
        <3>2. PICK t \in Seq(Block) : t = view[i].text
            BY <1>1
        <3>3. Holds(file, o, t) /\ o + Len(t) <= Len(file)
            BY <2>1, <3>1, <3>2 DEF Holds
        <3>4. PICK g \in Seq(Block) : g = file'
            BY <1>2
        <3>5. Len(file) <= Len(g) /\ g[Len(file) + 1].part = 1 /\ \A k \in 1 .. Len(file) : g[k] = file[k]
            BY <1>1, <1>2, <1>4, <3>4
        <3>6. Holds(g, o, t)
            BY <1>1, <3>3, <3>5, StillHeld
        <3>7. QED BY <3>1, <3>2, <3>4, <3>6
    <2>2. Live' = Live /\ Live \subseteq DOMAIN view
        BY <1>2 DEF Live, Unmarked, Marked
    <2>3. pc \in AtRest => InPlace(file, view, Live)
        BY DEF Placed, ViewInv
    <2>4. pc \in AtRest => InPlace(file', view', Live')
        BY <1>2, <2>1, <2>2, <2>3 DEF InPlace
    <2>5. pc \in AtRest /\ ~readonly => InOrder(view', Live', size')
        BY <1>2, <2>2 DEF Placed, ViewInv
    <2>6. QED BY <1>2, <2>4, <2>5 DEF ViewInv
<1>8. CopyInv'
    BY <1>2, <1>3 DEF CopyInv
<1>9. WriteInv'
    BY <1>2, <1>3 DEF WriteInv
<1>10. QED BY <1>5, <1>6, <1>7, <1>8, <1>9 DEF Placed

\* Steps that leave the file, and lead to where the view is as it was.
LEMMA SimplePlaced ==
    ASSUME Base, Placed, SimpleStep
    PROVE  Placed'
<1>1. /\ file \in Seq(Block) /\ Len(file) \in Nat /\ size \in Nat
    BY SeqTypes DEF Base
<1>2. ~CheckReopen
    <2>1. SUFFICES ASSUME CheckReopen PROVE FALSE
        OBVIOUS
    <2>2. pc \in AtRest /\ Len(file) # size /\ (Len(file) > size => ~IsFrom(file, size + 1))
        BY <2>1 DEF CheckReopen, Checking, AtRest
    <2>3. size <= Len(file) /\ (size < Len(file) => IsFrom(file, size + 1))
        BY <2>2 DEF Placed, SizeInv
    <2>4. QED BY <1>1, <2>2, <2>3
<1>3. CASE Open
    <2>1. /\ pc = "closed" /\ pc' = "read" /\ file' = file /\ view' = view /\ size' = Len(file)
          /\ readonly' \/ lock' = "shared"
        BY <1>3 DEF Open, TakeLock, fileVars
    <2>2. Control' /\ SizeInv'
        BY <1>1, <2>1 DEF Placed, Control, SizeInv, AtRest
    <2>3. ViewInv' /\ CopyInv' /\ WriteInv'
        BY <2>1 DEF ViewInv, CopyInv, WriteInv, AtRest
    <2>4. QED BY <2>2, <2>3 DEF Placed
<1>4. CASE CheckSame \/ Lock \/ CopyFails
    <2>1. /\ pc \in AtRest \ {"idle", "synced"} /\ pc' \in AtRest \ {"idle", "synced"}
          /\ UNCHANGED <<file, view, readonly, size>>
          /\ pc' = "copy" => pc = "check" /\ Len(file) = size
          /\ UNCHANGED <<tmp, next, newOffset>>
        BY <1>4 DEF CheckSame, Lock, CopyFails, AtRest, fileVars, viewVars, syncVars
    <2>2. Control' /\ SizeInv'
        BY <2>1 DEF Placed, Control, SizeInv, AtRest
    <2>3. Live' = Live
        BY <2>1 DEF Live
    <2>4. ViewInv'
        BY <2>1, <2>3 DEF Placed, ViewInv
    <2>5. pc = "check" => next = 0
        BY DEF Base, Bounds, Syncing
    <2>6. CopyInv' /\ WriteInv'
        BY <2>1, <2>5 DEF CopyInv, WriteInv, AtRest
    <2>7. QED BY <2>2, <2>4, <2>6 DEF Placed
<1>5. QED BY <1>2, <1>3, <1>4 DEF SimpleStep

\* The file is read, or what has come since; or a sync is done.
LEMMA LookPlaced ==
    ASSUME Base, Placed, LookStep
    PROVE  Placed'
<1>1. /\ file \in Seq(Block) /\ Len(file) \in Nat /\ size \in Nat /\ view \in Seq(Entry)
      /\ \A i \in DOMAIN view : view[i].text \in Seq(Block) /\ view[i].offset \in Nat
      /\ DOMAIN view = 1 .. Len(view) /\ Len(view) \in Nat
    BY SeqTypes DEF Base
<1>2. ~Reread
    BY DEF Placed, Control, Reread
<1>3. /\ pc \in {"read", "idle", "check", "synced"} /\ pc' \in {"idle", "giveup"} /\ file' = file /\ readonly' = readonly
      /\ pc # "synced" \/ pc' = "idle"
      /\ pc \notin {"read", "idle"} => ~readonly
      /\ pc' = "giveup" => pc = "check"
    BY <1>2 DEF LookStep, Read, CheckNewMail, SyncDone, Checking, Back, fileVars, Placed, Control
<1>4. Control' /\ CopyInv' /\ WriteInv'
    BY <1>3 DEF Control, CopyInv, WriteInv
<1>5. CASE Read
    <2>1. pc = "read" /\ pc' = "idle" /\ size' = size /\ view' = Parse(file, 0)
        BY <1>5 DEF Read
    <2>2. SizeInv'
        BY <1>3, <2>1 DEF Placed, SizeInv, AtRest
    <2>3. PICK w : w = Parse(file, 0)
        OBVIOUS
    <2>4. \A i \in DOMAIN w : w[i].offset < Len(file) /\ Holds(file, w[i].offset, w[i].text)
        BY <1>1, <2>3, ParseFinds
    <2>5. \A i, j \in DOMAIN w : i < j => w[i].offset < w[j].offset
        BY <1>1, <2>3, ParseFinds
    <2>6. InPlace(file, w, DOMAIN w) /\ InOrder(w, DOMAIN w, Len(file))
        BY <2>4, <2>5 DEF InPlace, InOrder
    <2>7. ~readonly => size = Len(file)
        BY <2>1 DEF Placed, SizeInv
    <2>8. Live' = DOMAIN view'
        BY <2>1 DEF Live
    <2>9. ViewInv'
        BY <1>3, <2>1, <2>3, <2>6, <2>7, <2>8 DEF ViewInv
    <2>10. QED BY <1>4, <2>2, <2>9 DEF Placed
<1>6. CASE CheckNewMail
    <2>1. /\ pc \in {"idle", "check"} /\ pc' \in {"idle", "giveup"} /\ size' = Len(file)
          /\ Len(file) > size /\ view' = view \o Parse(file, size)
        BY <1>6 DEF CheckNewMail, Checking, Back
    <2>2. SizeInv'
        BY <1>1, <1>3, <2>1 DEF SizeInv, AtRest
    <2>3. PICK new : new = Parse(file, size)
        OBVIOUS
    <2>4. /\ new \in Seq(Entry)
          /\ \A i \in DOMAIN new : /\ new[i].offset >= size /\ new[i].offset < Len(file)
                                   /\ Holds(file, new[i].offset, new[i].text)
        BY <1>1, <2>3, ParseFinds
    <2>5. \A i, j \in DOMAIN new : i < j => new[i].offset < new[j].offset
        BY <1>1, <2>3, ParseFinds
    <2>6. ASSUME NEW i \in DOMAIN new PROVE new[i] \in Entry /\ new[i].offset \in Nat
        <3>1. new[i] \in Entry
            BY <2>4
        <3>2. QED BY <3>1 DEF Entry
    <2>7. PICK w : w = view \o new
        OBVIOUS
    <2>8. /\ w \in Seq(Entry) /\ Len(w) = Len(view) + Len(new) /\ Len(new) \in Nat
          /\ \A k \in 1 .. Len(view) : w[k] = view[k]
          /\ \A k \in 1 .. Len(new) : w[Len(view) + k] = new[k]
        BY <1>1, <2>4, <2>7, Joined
    <2>9. DOMAIN w = 1 .. Len(view) + Len(new) /\ DOMAIN new = 1 .. Len(new)
        BY <2>4, <2>8
    <2>10. ASSUME NEW i \in DOMAIN w
           PROVE  \/ i \in DOMAIN view /\ w[i] = view[i]
                  \/ i > Len(view) /\ i - Len(view) \in DOMAIN new /\ w[i] = new[i - Len(view)]
        <3>1. CASE i <= Len(view)
            BY <1>1, <2>8, <2>9, <3>1
        <3>2. CASE i > Len(view)
            <4>1. PICK k \in 1 .. Len(new) : k = i - Len(view)
                BY <1>1, <2>8, <2>9, <3>2
            <4>2. Len(view) + k = i
                BY <1>1, <2>9, <4>1
            <4>3. w[i] = new[k]
                BY <2>8, <4>2
            <4>4. QED BY <2>9, <3>2, <4>1, <4>3
        <3>3. QED BY <1>1, <2>9, <3>1, <3>2
    <2>11. pc \in AtRest /\ Live = DOMAIN view
        BY <2>1 DEF AtRest, Live
    <2>12. InPlace(file, view, DOMAIN view) /\ (~readonly => InOrder(view, DOMAIN view, size))
        BY <2>11 DEF Placed, ViewInv
    <2>13. InPlace(file, w, DOMAIN w)
        BY <2>4, <2>10, <2>12 DEF InPlace
    <2>14. ASSUME ~readonly PROVE InOrder(w, DOMAIN w, Len(file))
        <3>1. ASSUME NEW i \in DOMAIN w PROVE w[i].offset < Len(file)
            <4>1. CASE i \in DOMAIN view /\ w[i] = view[i]
                <5>1. view[i].offset < size /\ view[i].offset \in Nat
                    BY <1>1, <2>12, <2>14, <4>1 DEF InOrder
                <5>2. QED BY <1>1, <2>1, <4>1, <5>1
            <4>2. CASE i - Len(view) \in DOMAIN new /\ w[i] = new[i - Len(view)]
                BY <2>4, <4>2
            <4>3. QED BY <2>10, <4>1, <4>2
        <3>2. ASSUME NEW i \in DOMAIN w, NEW j \in DOMAIN w, i < j PROVE w[i].offset < w[j].offset
            <4>1. CASE j \in DOMAIN view /\ w[j] = view[j]
                <5>1. i \in DOMAIN view /\ i <= Len(view)
                    BY <1>1, <2>9, <3>2, <4>1
                <5>2. w[i] = view[i]
                    BY <2>8, <5>1, <1>1
                <5>3. QED BY <2>12, <2>14, <3>2, <4>1, <5>1, <5>2 DEF InOrder
            <4>2. CASE j - Len(view) \in DOMAIN new /\ w[j] = new[j - Len(view)]
                <5>1. PICK q \in DOMAIN new : q = j - Len(view) /\ w[j] = new[q]
                    BY <4>2
                <5>2. CASE i \in DOMAIN view /\ w[i] = view[i]
                    <6>1. view[i].offset < size /\ view[i].offset \in Nat
                        BY <1>1, <2>12, <2>14, <5>2 DEF InOrder
                    <6>2. new[q].offset >= size /\ new[q].offset \in Nat
                        BY <2>4, <2>6
                    <6>3. QED BY <1>1, <5>1, <5>2, <6>1, <6>2
                <5>3. CASE i > Len(view) /\ i - Len(view) \in DOMAIN new /\ w[i] = new[i - Len(view)]
                    <6>1. PICK p \in DOMAIN new : p = i - Len(view) /\ w[i] = new[p]
                        BY <5>3
                    <6>2. p < q
                        BY <1>1, <2>9, <3>2, <5>1, <6>1
                    <6>3. QED BY <2>5, <5>1, <6>1, <6>2
                <5>4. QED BY <2>10, <5>2, <5>3
            <4>3. QED BY <2>10, <4>1, <4>2
        <3>3. QED BY <3>1, <3>2 DEF InOrder
    <2>15. Live' = DOMAIN view'
        BY <2>1 DEF Live
    <2>16. ViewInv'
        BY <1>3, <2>1, <2>3, <2>7, <2>13, <2>14, <2>15 DEF ViewInv
    <2>17. QED BY <1>4, <2>2, <2>16 DEF Placed
<1>7. CASE SyncDone
    <2>1. pc = "synced" /\ pc' = "idle" /\ size' = size /\ UpdateTables(view)
        BY <1>7 DEF SyncDone
    <2>2. SizeInv'
        BY <1>3, <2>1 DEF Placed, SizeInv, AtRest
    <2>3. Live = Unmarked(view) /\ Live' = DOMAIN view' /\ pc \in AtRest
        BY <2>1 DEF Live, AtRest
    <2>4. InPlace(file, view, Unmarked(view)) /\ (~readonly => InOrder(view, Unmarked(view), size))
        BY <2>3 DEF Placed, ViewInv
    <2>5. InPlace(file, view', DOMAIN view') /\ (~readonly => InOrder(view', DOMAIN view', size))
        BY <1>1, <2>1, <2>4, TablesKeepPlaces
    <2>6. ViewInv'
        BY <1>3, <2>1, <2>3, <2>5 DEF ViewInv
    <2>7. QED BY <1>4, <2>2, <2>6 DEF Placed
<1>8. QED BY <1>2, <1>5, <1>6, <1>7 DEF LookStep

\* Nothing is open.
LEMMA ForgetPlaced ==
    ASSUME Forget
    PROVE  Placed'
<1>1. pc' = "closed" /\ view' = <<>> /\ readonly' = FALSE
    BY DEF Forget
<1>2. Control' /\ SizeInv' /\ ViewInv' /\ CopyInv' /\ WriteInv'
    BY <1>1 DEF Control, SizeInv, ViewInv, CopyInv, WriteInv, AtRest
<1>3. QED BY <1>2 DEF Placed

\* Marks and flags do not move messages.
LEMMA UserPlaced ==
    ASSUME Base, Placed, NEW i, NEW d \in BOOLEAN, NEW o \in {"sync", "close"}, NEW q \in BOOLEAN,
           Mark(i, d) \/ Flag(i) \/ Begin(o, q)
    PROVE  Placed'
<1>1. pc = "idle" /\ ~readonly /\ pc' \in {"idle", "lock"} /\ UNCHANGED <<file, readonly, size>>
    BY DEF Mark, Flag, Begin, fileVars
<1>2. Reflagged(view, view')
    BY UserViews DEF Base
<1>3. Control' /\ SizeInv' /\ CopyInv' /\ WriteInv'
    BY <1>1 DEF Placed, Control, SizeInv, CopyInv, WriteInv, AtRest
<1>4. Live = DOMAIN view /\ Live' = DOMAIN view' /\ pc \in AtRest
    BY <1>1 DEF Live, AtRest
<1>5. InPlace(file, view, DOMAIN view) /\ InOrder(view, DOMAIN view, size)
    BY <1>1, <1>4 DEF Placed, ViewInv
<1>6. PICK w : w = view'
    OBVIOUS
<1>7. InPlace(file, w, DOMAIN w) /\ InOrder(w, DOMAIN w, size)
    BY <1>2, <1>5, <1>6 DEF Reflagged, InPlace, InOrder
<1>8. ViewInv'
    BY <1>1, <1>4, <1>6, <1>7 DEF ViewInv
<1>9. QED BY <1>3, <1>8 DEF Placed

LEMMA BailPlaced ==
    ASSUME Base, Placed, Bail
    PROVE  Placed'
<1>1. /\ pc \in {"bail", "giveup"} /\ pc' \in {"synced", "idle"} /\ UNCHANGED <<file, readonly, size>>
      /\ UpdateTables(view)
    BY DEF Bail, fileVars
<1>2. Control' /\ SizeInv' /\ CopyInv' /\ WriteInv'
    BY <1>1 DEF Placed, Control, SizeInv, CopyInv, WriteInv, AtRest
<1>3. view \in Seq(Entry) /\ Live = DOMAIN view /\ pc \in AtRest /\ ~readonly
    BY <1>1, SeqTypes DEF Live, AtRest, Base, Placed, Control
<1>4. InPlace(file, view, DOMAIN view) /\ InOrder(view, DOMAIN view, size)
    BY <1>3 DEF Placed, ViewInv
<1>5. InPlace(file, view, Unmarked(view)) /\ InOrder(view, Unmarked(view), size)
    BY <1>4 DEF InPlace, InOrder, Unmarked
<1>6. InPlace(file, view', DOMAIN view') /\ InOrder(view', DOMAIN view', size) /\ Marked(view') = {}
    BY <1>1, <1>3, <1>5, TablesKeepPlaces
<1>7. Live' = DOMAIN view'
    <2>1. Unmarked(view') = DOMAIN view'
        BY <1>6 DEF Unmarked
    <2>2. Unmarked(view)' = Unmarked(view')
        BY DEF Unmarked, Marked
    <2>3. QED BY <2>1, <2>2 DEF Live
<1>8. ViewInv'
    BY <1>1, <1>6, <1>7 DEF ViewInv
<1>9. QED BY <1>2, <1>8 DEF Placed

\* What stands before the first touched entry, and where that one stands.
LEMMA Before ==
    ASSUME Base, Placed, pc = "copy"
    PROVE  /\ Offset < Len(file) /\ IsFrom(file, Offset + 1) /\ size = Len(file)
           /\ InPlace(file, view, DOMAIN view) /\ InOrder(view, DOMAIN view, size)
           /\ \A i \in DOMAIN view : i < FirstTouched =>
                 view[i].offset < Offset /\ view[i].offset + Len(view[i].text) <= Offset
<1>1. /\ file \in Seq(Block) /\ Len(file) \in Nat /\ size \in Nat /\ view \in Seq(Entry)
      /\ \A i \in DOMAIN view : view[i].text \in Seq(Block) /\ view[i].offset \in Nat
    BY SeqTypes DEF Base
<1>2. Touched # {}
    BY DEF Base, ChangeInv
<1>3. /\ FirstTouched \in DOMAIN view /\ FirstTouched \in Nat /\ Offset = view[FirstTouched].offset
      /\ Offset \in Nat
    BY <1>1, <1>2, FirstIs
<1>4. ~readonly /\ pc \in AtRest /\ Live = DOMAIN view /\ size = Len(file)
    BY DEF Placed, Control, SizeInv, AtRest, Live
<1>5. InPlace(file, view, DOMAIN view) /\ InOrder(view, DOMAIN view, size)
    BY <1>4 DEF Placed, ViewInv
<1>6. Offset < Len(file) /\ IsFrom(file, Offset + 1)
    <2>1. PICK t \in Seq(Block) : t = view[FirstTouched].text
        BY <1>1, <1>3
    <2>2. Holds(file, Offset, t)
        BY <1>3, <1>5, <2>1 DEF InPlace
    <2>3. 1 \in 1 .. Len(t) /\ Offset + Len(t) <= Len(file)
        BY <2>2 DEF Holds
    <2>4. file[Offset + 1].part = 1
        BY <2>2, <2>3 DEF Holds
    <2>5. QED BY <1>1, <1>3, <2>3, <2>4 DEF IsFrom
<1>7. ASSUME NEW i \in DOMAIN view, i < FirstTouched
      PROVE  view[i].offset < Offset /\ view[i].offset + Len(view[i].text) <= Offset
    <2>1. view[i].offset < Offset
        BY <1>3, <1>5, <1>7 DEF InOrder
    <2>2. PICK o \in Nat : o = view[i].offset
        BY <1>1
    <2>3. PICK t \in Seq(Block) : t = view[i].text
        BY <1>1
    <2>4. Holds(file, o, t)
        BY <1>5, <2>2, <2>3 DEF InPlace
    <2>5. o + Len(t) <= Offset
        BY <1>1, <1>3, <1>6, <2>1, <2>2, <2>4, TextsApart
    <2>6. QED BY <2>1, <2>2, <2>3, <2>5
<1>8. QED BY <1>4, <1>5, <1>6, <1>7

LEMMA CopyPlaced ==
    ASSUME FileLock, Base, Placed, UNCHANGED env, Copy
    PROVE  Placed'
<1>1. /\ file \in Seq(Block) /\ Len(file) \in Nat /\ view \in Seq(Entry) /\ tmp \in Seq(Block)
      /\ newOffset \in Seq(Nat) /\ next \in Nat /\ Len(tmp) \in Nat /\ Len(newOffset) \in Nat
      /\ \A i \in DOMAIN view : view[i].text \in Seq(Block) /\ view[i].offset \in Nat
      /\ DOMAIN view = 1 .. Len(view) /\ Len(view) \in Nat
    BY SeqTypes DEF Base
<1>2. /\ pc = "copy" /\ pc' = "copy" /\ UNCHANGED <<file, view, changed, readonly, size>> /\ Touched # {}
    BY DEF Copy, fileVars, viewVars
<1>3. FirstTouched \in DOMAIN view /\ FirstTouched \in Nat /\ Offset \in Nat
    BY <1>1, <1>2, FirstIs
<1>4. InPlace(file, view, DOMAIN view)
    BY <1>2, Before
<1>5. /\ Index \in DOMAIN view /\ next' = Index + 1 /\ Index >= FirstTouched
      /\ newOffset' = Append(newOffset, IF view[Index].deleted THEN 0 ELSE NewOffset)
      /\ tmp' = IF view[Index].deleted THEN tmp
                ELSE tmp \o Chunk(file, view[Index].offset, Len(view[Index].text))
      /\ Len(newOffset) = Index - FirstTouched
      /\ next = 0 => tmp = <<>>
    BY CopyKeepsBase
<1>6. PICK i \in DOMAIN view : i = Index
    BY <1>5
<1>7. Len(newOffset) = i - FirstTouched /\ i \in Nat /\ i >= FirstTouched /\ i <= Len(view)
    BY <1>1, <1>5, <1>6
<1>8. CopyOf(tmp, newOffset, i)
    <2>1. CASE next = 0
        <3>1. i = FirstTouched /\ tmp = <<>>
            BY <1>5, <1>6, <2>1 DEF Index
        <3>2. Done(i) = {}
            BY <1>3, <3>1 DEF Done
        <3>3. DOMAIN tmp = {}
            BY <3>1
        <3>4. QED BY <3>1, <3>2, <3>3 DEF CopyOf
    <2>2. CASE next # 0
        BY <1>2, <1>6, <2>2 DEF Placed, CopyInv, Index
    <2>3. QED BY <2>1, <2>2
<1>9. PICK text \in Seq(Block) : text = view[i].text
    BY <1>1
<1>10. PICK o \in Nat : o = view[i].offset
    BY <1>1
<1>11. Holds(file, o, text) /\ Chunk(file, o, Len(text)) = text
    BY <1>1, <1>4, <1>9, <1>10, ChunkHeld DEF InPlace
<1>12. PICK u : u = tmp'
    OBVIOUS
<1>13. PICK new : new = newOffset'
    OBVIOUS
<1>14. u = IF view[i].deleted THEN tmp ELSE tmp \o text
    BY <1>5, <1>6, <1>9, <1>10, <1>11, <1>12
<1>15. NewOffset = Offset + Len(tmp) /\ NewOffset \in Nat
    BY <1>1, <1>3 DEF NewOffset
<1>16. \A k \in FirstTouched .. i - 1 : Place(new, k) = Place(newOffset, k)
    <2>1. ASSUME NEW k \in FirstTouched .. i - 1 PROVE Place(new, k) = Place(newOffset, k)
        <3>1. k - FirstTouched + 1 \in 1 .. Len(newOffset)
            BY <1>3, <1>7
        <3>2. PICK q \in 1 .. Len(newOffset) : q = k - FirstTouched + 1
            BY <3>1
        <3>3. new[q] = newOffset[q]
            BY <1>1, <1>5, <1>13, <1>15, <3>2
        <3>4. QED BY <3>2, <3>3 DEF Place
    <2>2. QED BY <2>1
<1>17. ~view[i].deleted => Place(new, i) = Offset + Len(tmp)
    <2>1. i - FirstTouched + 1 = Len(newOffset) + 1
        BY <1>1, <1>3, <1>5, <1>6
    <2>2. ~view[i].deleted => new = Append(newOffset, Offset + Len(tmp))
        BY <1>5, <1>6, <1>13, <1>15
    <2>3. ~view[i].deleted => new[Len(newOffset) + 1] = Offset + Len(tmp)
        BY <1>1, <1>15, <2>2
    <2>4. QED BY <2>1, <2>3 DEF Place
<1>18. \A k \in Done(i) : k \in FirstTouched .. i - 1 /\ k \in DOMAIN view /\ k < i
    BY <1>1, <1>3, <1>6 DEF Done
<1>19. Done(i + 1) = IF view[i].deleted THEN Done(i) ELSE Done(i) \cup {i}
    <2>1. FirstTouched .. (i + 1) - 1 = (FirstTouched .. i - 1) \cup {i}
        BY <1>1, <1>3, <1>5, <1>6
    <2>2. QED BY <2>1 DEF Done
<1>20. CopyOf(u, new, i + 1)
    <2>1. CASE view[i].deleted
        <3>1. u = tmp /\ Done(i + 1) = Done(i)
            BY <1>14, <1>19, <2>1
        <3>2. \A k \in Done(i) : Place(new, k) = Place(newOffset, k)
            BY <1>16, <1>18
        <3>3. QED BY <1>8, <3>1, <3>2 DEF CopyOf
    <2>2. CASE ~view[i].deleted
        <3>1. u = tmp \o text /\ Done(i + 1) = Done(i) \cup {i} /\ Place(new, i) = Offset + Len(tmp)
            BY <1>14, <1>17, <1>19, <2>2
        <3>2. /\ u \in Seq(Block) /\ Len(u) = Len(tmp) + Len(text) /\ Len(text) \in Nat
              /\ \A k \in 1 .. Len(tmp) : u[k] = tmp[k]
              /\ \A k \in 1 .. Len(text) : u[Len(tmp) + k] = text[k]
            BY <1>1, <3>1, Joined
        <3>3. Len(text) > 0 /\ \A k \in 1 .. Len(text) : (text[k].part = 1 <=> k = 1)
            BY <1>11 DEF Holds
        <3>4. Holds(u, Len(tmp), text)
            BY <1>1, <3>2, <3>3 DEF Holds
        <3>5. u[Len(tmp) + 1].part = 1
            BY <3>2, <3>3
        <3>6. ASSUME NEW k \in Done(i)
              PROVE  /\ Place(new, k) >= Offset /\ Place(new, k) < Offset + Len(tmp)
                     /\ Holds(u, Place(new, k) - Offset, view[k].text)
            <4>1. /\ Place(newOffset, k) >= Offset /\ Holds(tmp, Place(newOffset, k) - Offset, view[k].text)
                  /\ Place(new, k) = Place(newOffset, k)
                BY <1>8, <1>16, <1>18 DEF CopyOf
            <4>2. Place(newOffset, k) \in Nat
                <5>1. k - FirstTouched + 1 \in 1 .. Len(newOffset)
                    BY <1>3, <1>18, <1>7
                <5>2. PICK q \in 1 .. Len(newOffset) : q = k - FirstTouched + 1
                    BY <5>1
                <5>3. newOffset[q] \in Nat
                    BY <1>1, <5>2
                <5>4. QED BY <5>2, <5>3 DEF Place
            <4>3. PICK r \in Nat : r = Place(newOffset, k) - Offset
                BY <1>3, <4>1, <4>2
            <4>4. PICK t \in Seq(Block) : t = view[k].text
                BY <1>1, <1>18
            <4>5. Holds(tmp, r, t) /\ r + Len(t) <= Len(tmp) /\ Len(t) > 0
                BY <4>1, <4>3, <4>4 DEF Holds
            <4>6. Holds(u, r, t)
                <5>1. PICK n \in Nat : n = Len(tmp)
                    BY <1>1
                <5>2. n <= Len(u) /\ u[n + 1].part = 1 /\ \A m \in 1 .. n : u[m] = tmp[m]
                    BY <3>2, <3>5, <5>1
                <5>3. tmp \in Seq(Block) /\ u \in Seq(Block) /\ r + Len(t) <= n /\ n <= Len(tmp)
                    BY <1>1, <3>2, <4>5, <5>1
                <5>4. QED BY <4>5, <5>2, <5>3, StillHeld
            <4>7. QED BY <1>1, <1>3, <4>1, <4>2, <4>3, <4>4, <4>5, <4>6
        <3>7. \A k \in Done(i + 1) : Place(new, k) >= Offset /\ Holds(u, Place(new, k) - Offset, view[k].text)
            BY <1>1, <1>3, <1>9, <3>1, <3>4, <3>6
        <3>8. \A j, k \in Done(i + 1) : j < k => Place(new, j) < Place(new, k)
            <4>1. SUFFICES ASSUME NEW j \in Done(i + 1), NEW k \in Done(i + 1), j < k
                           PROVE  Place(new, j) < Place(new, k)
                OBVIOUS
            <4>2. CASE k = i
                <5>1. j \in Done(i)
                    BY <1>1, <3>1, <4>1, <4>2
                <5>2. QED BY <3>1, <3>6, <4>2, <5>1
            <4>3. CASE k # i
                <5>1. k \in Done(i) /\ k < i
                    BY <1>18, <3>1, <4>3
                <5>2. j \in Done(i)
                    BY <1>1, <1>18, <3>1, <4>1, <5>1
                <5>3. Place(newOffset, j) < Place(newOffset, k)
                    BY <1>8, <4>1, <5>1, <5>2 DEF CopyOf
                <5>4. QED BY <1>16, <1>18, <5>1, <5>2, <5>3
            <4>4. QED BY <4>2, <4>3
        <3>9. ASSUME NEW p \in DOMAIN u, IsFrom(u, p) PROVE \E k \in Done(i + 1) : Place(new, k) = Offset + p - 1
            <4>1. p \in 1 .. Len(tmp) + Len(text)
                BY <3>2
            <4>2. CASE p <= Len(tmp)
                <5>1. p \in DOMAIN tmp /\ IsFrom(tmp, p)
                    BY <1>1, <3>2, <3>9, <4>1, <4>2 DEF IsFrom
                <5>2. PICK k \in Done(i) : Place(newOffset, k) = Offset + p - 1
                    BY <1>8, <5>1 DEF CopyOf
                <5>3. QED BY <1>16, <1>18, <3>1, <5>2
            <4>3. CASE p > Len(tmp)
                <5>1. PICK k \in 1 .. Len(text) : p = Len(tmp) + k
                    <6>1. p - Len(tmp) \in 1 .. Len(text) /\ p = Len(tmp) + (p - Len(tmp))
                        BY <1>1, <3>2, <4>1, <4>3
                    <6>2. QED BY <6>1
                <5>2. text[k].part = 1
                    BY <3>2, <3>9, <5>1 DEF IsFrom
                <5>3. k = 1
                    BY <3>3, <5>2
                <5>4. QED BY <1>1, <1>3, <3>1, <5>1, <5>3
            <4>4. QED BY <1>1, <4>1, <4>2, <4>3
        <3>10. IsFrom(u, 1)
            <4>1. 1 \in DOMAIN u
                BY <1>1, <3>2, <3>3
            <4>2. CASE tmp = <<>>
                BY <3>5, <4>1, <4>2 DEF IsFrom
            <4>3. CASE tmp # <<>>
                <5>1. IsFrom(tmp, 1)
                    BY <1>8, <4>3 DEF CopyOf
                <5>2. 1 \in 1 .. Len(tmp) /\ tmp[1].part = 1
                    BY <1>1, <5>1 DEF IsFrom
                <5>3. u[1] = tmp[1]
                    BY <3>2, <5>2
                <5>4. QED BY <4>1, <5>2, <5>3 DEF IsFrom
            <4>4. QED BY <4>2, <4>3
        <3>11. QED BY <3>7, <3>8, <3>9, <3>10 DEF CopyOf
    <2>3. QED BY <2>1, <2>2
<1>21. CopyInv'
    <2>1. Touched' = Touched /\ FirstTouched' = FirstTouched /\ Offset' = Offset
        BY <1>2 DEF Touched, FirstTouched, Offset
    <2>2. CopyOf(tmp, newOffset, next)' = CopyOf(tmp', newOffset', next')
        BY <1>2, <2>1 DEF CopyOf, Done, Place
    <2>3. QED BY <1>5, <1>6, <1>12, <1>13, <1>20, <2>2 DEF CopyInv
<1>22. Control' /\ SizeInv' /\ WriteInv'
    BY <1>2 DEF Placed, Control, SizeInv, WriteInv, AtRest
<1>23. ViewInv'
    <2>1. Live' = Live
        BY <1>2 DEF Live
    <2>2. QED BY <1>2, <2>1 DEF Placed, ViewInv
<1>24. QED BY <1>21, <1>22, <1>23 DEF Placed

\* The copy behind the messages before it is what the file is to be.
LEMMA CopiedPlaced ==
    ASSUME FileLock, Base, Placed, UNCHANGED env, Copied
    PROVE  /\ Placed'
           /\ InPlace(Target, NewView, Unmarked(view)) /\ InOrder(NewView, Unmarked(view), Len(Target))
           /\ CopyOf(tmp, newOffset, Len(view) + 1)
<1>1. /\ file \in Seq(Block) /\ Len(file) \in Nat /\ view \in Seq(Entry) /\ tmp \in Seq(Block)
      /\ newOffset \in Seq(Nat) /\ next \in Nat /\ Len(tmp) \in Nat /\ Len(newOffset) \in Nat
      /\ \A i \in DOMAIN view : view[i].text \in Seq(Block) /\ view[i].offset \in Nat
      /\ DOMAIN view = 1 .. Len(view) /\ Len(view) \in Nat
    BY SeqTypes DEF Base
<1>2. /\ pc = "copy" /\ pc' = "write" /\ next = Len(view) + 1 /\ next' = 0 /\ next # 0
      /\ UNCHANGED <<file, view, changed, readonly, size, tmp, newOffset>>
    BY CopyKeepsBase DEF Copied, fileVars, viewVars
<1>3. Touched # {} /\ Len(newOffset) = Len(view) + 1 - FirstTouched
    <2>1. Touched # {}
        BY <1>2 DEF Base, ChangeInv
    <2>2. FirstTouched \in Nat
        BY <1>1, <2>1, FirstIs
    <2>3. Len(newOffset) = next - FirstTouched
        BY <1>2 DEF Base, Bounds
    <2>4. QED BY <1>1, <1>2, <2>1, <2>2, <2>3
<1>4. FirstTouched \in DOMAIN view /\ FirstTouched \in Nat /\ Offset \in Nat
    BY <1>1, <1>3, FirstIs
<1>5. /\ Offset < Len(file) /\ IsFrom(file, Offset + 1) /\ size = Len(file)
      /\ InPlace(file, view, DOMAIN view) /\ InOrder(view, DOMAIN view, size)
      /\ \A i \in DOMAIN view : i < FirstTouched =>
             view[i].offset < Offset /\ view[i].offset + Len(view[i].text) <= Offset
    BY <1>2, Before
<1>6. CopyOf(tmp, newOffset, Len(view) + 1)
    BY <1>2 DEF Placed, CopyInv
<1>7. /\ \A i \in DOMAIN view :
            /\ NewView[i].text = view[i].text
            /\ NewView[i].offset = IF i >= FirstTouched /\ ~view[i].deleted THEN Place(newOffset, i)
                                   ELSE view[i].offset
            /\ i >= FirstTouched => Place(newOffset, i) \in Nat
    BY <1>3, NewViewIs DEF Base
<1>8. PICK g : g = Target
    OBVIOUS
<1>9. /\ g \in Seq(Block) /\ Len(g) = Offset + Len(tmp) /\ Len(g) \in Nat
      /\ \A k \in 1 .. Offset : g[k] = file[k]
      /\ \A k \in DOMAIN tmp : g[Offset + k] = tmp[k]
      /\ \A r \in Nat, text \in Seq(Block) : Holds(tmp, r, text) => Holds(g, Offset + r, text)
    BY <1>1, <1>4, <1>5, <1>8, Shifted DEF Target
<1>10. Offset < Len(g) => g[Offset + 1].part = 1
    <2>1. SUFFICES ASSUME Offset < Len(g) PROVE g[Offset + 1].part = 1
        OBVIOUS
    <2>2. tmp # <<>>
        BY <1>4, <1>9, <2>1
    <2>3. 1 \in DOMAIN tmp /\ tmp[1].part = 1
        BY <1>6, <2>2 DEF CopyOf, IsFrom
    <2>4. QED BY <1>9, <2>3
<1>11. ASSUME NEW i \in Unmarked(view)
       PROVE  /\ i \in DOMAIN view /\ ~view[i].deleted
              /\ Holds(g, NewView[i].offset, NewView[i].text) /\ NewView[i].offset < Len(g)
              /\ i < FirstTouched => NewView[i].offset = view[i].offset /\ view[i].offset < Offset
              /\ i >= FirstTouched => /\ i \in Done(Len(view) + 1) /\ NewView[i].offset = Place(newOffset, i)
                                      /\ NewView[i].offset >= Offset
    <2>1. i \in DOMAIN view /\ ~view[i].deleted
        BY DEF Unmarked, Marked
    <2>2. PICK t \in Seq(Block) : t = view[i].text /\ NewView[i].text = t
        BY <1>1, <1>7, <2>1
    <2>3. CASE i < FirstTouched
        <3>1. PICK o \in Nat : o = view[i].offset /\ NewView[i].offset = o
            <4>1. view[i].offset \in Nat
                BY <1>1, <2>1
            <4>2. ~(i >= FirstTouched)
                BY <1>1, <1>4, <2>1, <2>3
            <4>3. NewView[i].offset = view[i].offset
                BY <1>7, <2>1, <4>2
            <4>4. QED BY <4>1, <4>3
        <3>2. Holds(file, o, t) /\ o < Offset /\ o + Len(t) <= Offset
            BY <1>5, <2>1, <2>2, <2>3, <3>1 DEF InPlace
        <3>3. PICK n \in Nat : n = Offset
            BY <1>4
        <3>4. n <= Len(file) /\ n <= Len(g) /\ (n < Len(g) => g[n + 1].part = 1) /\ \A k \in 1 .. n : g[k] = file[k]
            BY <1>1, <1>5, <1>9, <1>10, <3>3
        <3>5. Holds(g, o, t)
            BY <1>1, <1>9, <3>2, <3>3, <3>4, StillHeld
        <3>6. o < Len(g)
            BY <1>9, <3>2, <3>3, <3>4
        <3>7. QED BY <1>1, <1>4, <2>1, <2>2, <2>3, <3>1, <3>2, <3>5, <3>6
    <2>4. CASE i >= FirstTouched
        <3>1. i \in Done(Len(view) + 1)
            BY <1>1, <1>4, <2>1, <2>4 DEF Done
        <3>2. PICK p \in Nat : p = Place(newOffset, i) /\ NewView[i].offset = p
            BY <1>7, <2>1, <2>4
        <3>3. p >= Offset /\ Holds(tmp, p - Offset, t)
            BY <1>6, <2>2, <3>1, <3>2 DEF CopyOf
        <3>4. PICK r \in Nat : r = p - Offset
            BY <1>4, <3>2, <3>3
        <3>5. Holds(tmp, r, t) /\ r + Len(t) <= Len(tmp) /\ Len(t) > 0
            BY <3>3, <3>4 DEF Holds
        <3>6. Holds(g, Offset + r, t) /\ Offset + r = p
            BY <1>4, <1>9, <3>4, <3>5
        <3>7. p < Len(g)
            BY <1>1, <1>4, <1>9, <3>4, <3>5
        <3>8. QED BY <1>1, <1>4, <2>1, <2>2, <2>4, <3>1, <3>2, <3>3, <3>6, <3>7
    <2>5. QED BY <1>1, <1>4, <2>1, <2>3, <2>4
<1>12. InPlace(g, NewView, Unmarked(view))
    BY <1>11 DEF InPlace
<1>13. InOrder(NewView, Unmarked(view), Len(g))
    <2>1. SUFFICES ASSUME NEW i \in Unmarked(view), NEW j \in Unmarked(view), i < j
                   PROVE  NewView[i].offset < NewView[j].offset
        BY <1>11 DEF InOrder
    <2>2. i \in DOMAIN view /\ j \in DOMAIN view
        BY <1>11
    <2>3. CASE j < FirstTouched
        <3>1. i < FirstTouched
            BY <1>1, <1>4, <2>1, <2>2, <2>3
        <3>2. view[i].offset < view[j].offset
            BY <1>5, <2>1, <2>2 DEF InOrder
        <3>3. QED BY <1>11, <2>3, <3>1, <3>2
    <2>4. CASE i < FirstTouched /\ j >= FirstTouched
        <3>1. NewView[i].offset = view[i].offset /\ view[i].offset < Offset /\ view[i].offset \in Nat
            BY <1>1, <1>11, <2>2, <2>4
        <3>2. NewView[j].offset >= Offset /\ NewView[j].offset = Place(newOffset, j) /\ Place(newOffset, j) \in Nat
            BY <1>7, <1>11, <2>2, <2>4
        <3>3. QED BY <1>4, <3>1, <3>2
    <2>5. CASE i >= FirstTouched
        <3>1. j >= FirstTouched
            BY <1>1, <1>4, <2>1, <2>2, <2>5
        <3>2. i \in Done(Len(view) + 1) /\ j \in Done(Len(view) + 1)
            BY <1>11, <2>5, <3>1
        <3>3. Place(newOffset, i) < Place(newOffset, j)
            BY <1>6, <2>1, <3>2 DEF CopyOf
        <3>4. QED BY <1>11, <2>5, <3>1, <3>3
    <2>6. QED BY <1>1, <1>4, <2>2, <2>3, <2>4, <2>5
<1>14. Touched' = Touched /\ FirstTouched' = FirstTouched /\ Offset' = Offset
    BY <1>2 DEF Touched, FirstTouched, Offset
<1>15. Target' = Target /\ NewView' = NewView /\ Unmarked(view)' = Unmarked(view)
    BY <1>2, <1>14 DEF Target, NewView, Place, Unmarked, Marked
<1>16. WriteInv'
    <2>1. Offset' <= Len(file') /\ (next' = 0 => IsFrom(file', Offset' + 1))
        BY <1>1, <1>2, <1>4, <1>5, <1>14
    <2>2. \A k \in 1 .. next' : file'[Offset' + k] = tmp'[k]
        BY <1>2
    <2>3. tmp' # <<>> => IsFrom(tmp', 1)
        BY <1>2, <1>6 DEF CopyOf
    <2>4. InPlace(Target, NewView, Unmarked(view))' /\ InOrder(NewView, Unmarked(view), Len(Target))'
        BY <1>8, <1>12, <1>13, <1>15 DEF InPlace, InOrder
    <2>5. QED BY <1>2, <2>1, <2>2, <2>3, <2>4 DEF WriteInv
<1>17. Control' /\ SizeInv' /\ ViewInv' /\ CopyInv'
    BY <1>2 DEF Placed, Control, SizeInv, ViewInv, CopyInv, AtRest
<1>18. QED BY <1>6, <1>8, <1>12, <1>13, <1>16, <1>17 DEF Placed

\* A block is written: what the file is to be does not change.
LEMMA WriteBackPlaced ==
    ASSUME Base, Placed, UNCHANGED env, WriteBack
    PROVE  Placed' /\ Target' = Target
<1>1. /\ file \in Seq(Block) /\ Len(file) \in Nat /\ view \in Seq(Entry) /\ tmp \in Seq(Block)
      /\ next \in Nat /\ Len(tmp) \in Nat
    BY SeqTypes DEF Base
<1>2. /\ pc = "write" /\ pc' = "write" /\ next' = next + 1
      /\ UNCHANGED <<view, changed, readonly, size, tmp, newOffset>>
    BY DEF WriteBack, viewVars
<1>3. /\ Base' /\ Touched # {} /\ next < Len(tmp) /\ Offset + next <= Len(file)
      /\ Len(file') = IF Offset + next < Len(file) THEN Len(file) ELSE Len(file) + 1
      /\ file'[Offset + next + 1] = tmp[next + 1]
      /\ \A k \in DOMAIN file : k # Offset + next + 1 => file'[k] = file[k]
    BY WriteBackKeepsBase
<1>4. Offset \in Nat
    BY <1>1, <1>3, FirstIs
<1>5. Touched' = Touched /\ FirstTouched' = FirstTouched /\ Offset' = Offset
    BY <1>2 DEF Touched, FirstTouched, Offset
<1>6. PICK f \in Seq(Block) : f = file'
    BY <1>3 DEF Base, TypeOK
<1>7. /\ Offset <= Len(file) /\ Offset <= Len(f) /\ Len(f) \in Nat
      /\ \A k \in 1 .. Offset : f[k] = file[k]
    <2>1. Offset <= Len(file) /\ Offset <= Len(f) /\ Len(f) \in Nat
        BY <1>1, <1>3, <1>4, <1>6
    <2>2. ASSUME NEW k \in 1 .. Offset PROVE f[k] = file[k]
        <3>1. k \in DOMAIN file /\ k # Offset + next + 1
            BY <1>1, <1>4, <2>1
        <3>2. QED BY <1>3, <1>6, <3>1
    <2>3. QED BY <2>1, <2>2
<1>8. SubSeq(f, 1, Offset) = SubSeq(file, 1, Offset)
    <2>1. /\ SubSeq(f, 1, Offset) \in Seq(Block) /\ Len(SubSeq(f, 1, Offset)) = Offset
          /\ \A k \in 1 .. Offset : SubSeq(f, 1, Offset)[k] = f[k]
        BY <1>4, <1>7, CutIs
    <2>2. /\ SubSeq(file, 1, Offset) \in Seq(Block) /\ Len(SubSeq(file, 1, Offset)) = Offset
          /\ \A k \in 1 .. Offset : SubSeq(file, 1, Offset)[k] = file[k]
        BY <1>1, <1>4, <1>7, CutIs
    <2>3. QED BY <1>4, <1>7, <2>1, <2>2
<1>9. Target' = Target /\ NewView' = NewView /\ Unmarked(view)' = Unmarked(view)
    <2>1. NewView' = NewView /\ Unmarked(view)' = Unmarked(view)
        BY <1>2, <1>5 DEF NewView, Place, Unmarked, Marked
    <2>2. Target' = SubSeq(f, 1, Offset) \o tmp
        BY <1>2, <1>5, <1>6 DEF Target
    <2>3. QED BY <1>8, <2>1, <2>2 DEF Target
<1>10. /\ \A k \in 1 .. next : file[Offset + k] = tmp[k]
       /\ tmp # <<>> => IsFrom(tmp, 1)
       /\ InPlace(Target, NewView, Unmarked(view)) /\ InOrder(NewView, Unmarked(view), Len(Target))
    BY <1>2 DEF Placed, WriteInv
<1>11. \A k \in 1 .. next' : f[Offset + k] = tmp[k]
    <2>1. ASSUME NEW k \in 1 .. next + 1 PROVE f[Offset + k] = tmp[k]
        <3>1. CASE k = next + 1
            <4>1. Offset + k = Offset + next + 1
                BY <1>1, <1>4, <3>1
            <4>2. QED BY <1>3, <1>6, <3>1, <4>1
        <3>2. CASE k # next + 1
            <4>1. k \in 1 .. next /\ Offset + k \in DOMAIN file /\ Offset + k # Offset + next + 1
                BY <1>1, <1>3, <1>4, <3>2
            <4>2. QED BY <1>3, <1>6, <1>10, <4>1
        <3>3. QED BY <3>1, <3>2
    <2>2. QED BY <1>2, <2>1
<1>12. WriteInv'
    <2>1. Offset' <= Len(file') /\ next' # 0
        BY <1>1, <1>2, <1>5, <1>6, <1>7
    <2>2. \A k \in 1 .. next' : file'[Offset' + k] = tmp'[k]
        BY <1>2, <1>5, <1>6, <1>11
    <2>3. tmp' # <<>> => IsFrom(tmp', 1)
        BY <1>2, <1>10
    <2>4. InPlace(Target, NewView, Unmarked(view))' /\ InOrder(NewView, Unmarked(view), Len(Target))'
        BY <1>9, <1>10 DEF InPlace, InOrder
    <2>5. QED BY <1>2, <2>1, <2>2, <2>3, <2>4 DEF WriteInv
<1>13. Control' /\ SizeInv' /\ ViewInv' /\ CopyInv'
    BY <1>2 DEF Placed, Control, SizeInv, ViewInv, CopyInv, AtRest
<1>14. QED BY <1>9, <1>12, <1>13 DEF Placed

\* All is written, and the rest is cut off: the file is what it was to be.
LEMMA TruncatePlaced ==
    ASSUME Base, Placed, UNCHANGED env, Truncate
    PROVE  Placed' /\ file' = Target
<1>1. /\ file \in Seq(Block) /\ Len(file) \in Nat /\ view \in Seq(Entry) /\ tmp \in Seq(Block)
      /\ next \in Nat /\ Len(tmp) \in Nat
    BY SeqTypes DEF Base
<1>2. /\ pc = "write" /\ pc' = "commit" /\ UNCHANGED <<view, changed, readonly, tmp, newOffset>>
      /\ size' = Offset + Len(tmp)
    BY DEF Truncate, syncVars
<1>3. /\ Base' /\ Touched # {} /\ next = Len(tmp) /\ Offset + Len(tmp) <= Len(file)
      /\ Len(file') = Offset + Len(tmp) /\ \A k \in 1 .. Offset + Len(tmp) : file'[k] = file[k]
    BY TruncateKeepsBase
<1>4. Offset \in Nat
    BY <1>1, <1>3, FirstIs
<1>5. PICK f \in Seq(Block) : f = file'
    BY <1>3 DEF Base, TypeOK
<1>6. /\ \A k \in 1 .. next : file[Offset + k] = tmp[k]
      /\ InPlace(Target, NewView, Unmarked(view)) /\ InOrder(NewView, Unmarked(view), Len(Target))
    BY <1>2 DEF Placed, WriteInv
<1>7. PICK g : g = Target
    OBVIOUS
<1>8. /\ g \in Seq(Block) /\ Len(g) = Offset + Len(tmp)
      /\ \A k \in 1 .. Offset : g[k] = file[k]
      /\ \A k \in DOMAIN tmp : g[Offset + k] = tmp[k]
    BY <1>1, <1>3, <1>4, <1>7, Shifted DEF Target
<1>9. ASSUME NEW k \in 1 .. Len(g) PROVE f[k] = g[k]
    <2>1. f[k] = file[k]
        BY <1>3, <1>5, <1>8
    <2>2. CASE k <= Offset
        BY <1>4, <1>8, <2>1, <2>2
    <2>3. CASE k > Offset
        <3>1. PICK q \in 1 .. Len(tmp) : k = Offset + q
            <4>1. k - Offset \in 1 .. Len(tmp) /\ k = Offset + (k - Offset)
                BY <1>1, <1>4, <1>8, <2>3
            <4>2. QED BY <4>1
        <3>2. file[Offset + q] = tmp[q] /\ g[Offset + q] = tmp[q]
            <4>1. q \in 1 .. next /\ q \in DOMAIN tmp
                BY <1>1, <1>3
            <4>2. QED BY <1>6, <1>8, <4>1
        <3>3. QED BY <2>1, <3>1, <3>2
    <2>4. QED BY <1>4, <2>2, <2>3
<1>10. f = g
    BY <1>3, <1>5, <1>8, <1>9
<1>11. Touched' = Touched /\ FirstTouched' = FirstTouched /\ Offset' = Offset
    BY <1>2 DEF Touched, FirstTouched, Offset
<1>12. NewView' = NewView /\ Unmarked(view)' = Unmarked(view)
    BY <1>2, <1>11 DEF NewView, Place, Unmarked, Marked
<1>13. WriteInv'
    <2>1. InPlace(file', NewView', Unmarked(view)') /\ InOrder(NewView', Unmarked(view)', Len(file'))
        BY <1>5, <1>6, <1>7, <1>10, <1>12
    <2>2. QED BY <1>2, <2>1 DEF WriteInv, InPlace, InOrder
<1>14. SizeInv'
    BY <1>2, <1>3 DEF SizeInv, AtRest
<1>15. Control' /\ ViewInv' /\ CopyInv'
    BY <1>2 DEF Placed, Control, ViewInv, CopyInv, AtRest
<1>16. QED BY <1>5, <1>7, <1>10, <1>13, <1>14, <1>15 DEF Placed

\* The index takes the places of the copy.
LEMMA CommitPlaced ==
    ASSUME Base, Placed, UNCHANGED env, Commit
    PROVE  Placed'
<1>1. /\ pc = "commit" /\ pc' = "synced" /\ UNCHANGED <<file, changed, readonly, size>> /\ view' = NewView
    BY CommitKeepsBase DEF Commit, fileVars
<1>2. size = Len(file) /\ Len(file) \in Nat
    BY <1>1, SeqTypes DEF Placed, SizeInv, Base
<1>3. InPlace(file, NewView, Unmarked(view)) /\ InOrder(NewView, Unmarked(view), Len(file))
    BY <1>1 DEF Placed, WriteInv
<1>4. Touched # {} /\ Len(newOffset) = Len(view) + 1 - FirstTouched
    BY <1>1 DEF Base, Bounds
<1>5. DOMAIN NewView = DOMAIN view /\ \A i \in DOMAIN view : NewView[i].deleted = view[i].deleted
    BY <1>4, NewViewIs DEF Base
<1>6. Unmarked(NewView) = Unmarked(view)
    BY <1>5 DEF Unmarked, Marked
<1>7. Live' = Unmarked(view)
    <2>1. Live' = Unmarked(view')
        BY <1>1 DEF Live, Unmarked, Marked
    <2>2. QED BY <1>1, <1>6, <2>1
<1>8. ViewInv'
    BY <1>1, <1>2, <1>3, <1>7 DEF ViewInv
<1>9. SizeInv'
    BY <1>1, <1>2 DEF SizeInv, AtRest
<1>10. Control' /\ CopyInv' /\ WriteInv'
    BY <1>1 DEF Placed, Control, CopyInv, WriteInv
<1>11. QED BY <1>8, <1>9, <1>10 DEF Placed

LEMMA PlacedStep ==
    ASSUME FileLock, Base, PlaceInv, [Next]_vars
    PROVE  PlaceInv'
<1>1. CASE UNCHANGED vars
    <2>1. /\ UNCHANGED <<env, file, lock, pc, view, changed, readonly, size, tmp, next, newOffset>>
        BY <1>1 DEF vars, fileVars, viewVars, syncVars
    <2>2. Touched' = Touched /\ FirstTouched' = FirstTouched /\ Offset' = Offset /\ Live' = Live
        BY <2>1 DEF Touched, FirstTouched, Offset, Live
    <2>3. Target' = Target /\ NewView' = NewView /\ Unmarked(view)' = Unmarked(view)
        BY <2>1, <2>2 DEF Target, NewView, Place, Unmarked, Marked
    <2>4. CopyOf(tmp, newOffset, next)' = CopyOf(tmp, newOffset, next)
        BY <2>1, <2>2 DEF CopyOf, Done, Place
    <2>5. Control' = Control /\ SizeInv' = SizeInv /\ CopyInv' = CopyInv
        BY <2>1, <2>4 DEF Control, SizeInv, CopyInv
    <2>6. ViewInv' = ViewInv /\ WriteInv' = WriteInv
        BY <2>1, <2>2, <2>3 DEF ViewInv, WriteInv, InPlace, InOrder
    <2>7. QED BY <2>1, <2>5, <2>6 DEF PlaceInv, Placed, OnlyDeliveries
<1>2. CASE Next
    <2>1. UNCHANGED env
        BY <1>2 DEF Next
    <2>2. SUFFICES ASSUME ~env.rewrite PROVE Placed'
        BY <2>1 DEF PlaceInv, OnlyDeliveries
    <2>3. Placed
        BY <2>2 DEF PlaceInv, OnlyDeliveries
    <2>4. CASE SimpleStep
        BY <2>3, <2>4, SimplePlaced
    <2>5. CASE LookStep
        BY <2>3, <2>5, LookPlaced
    <2>6. CASE EndStep
        <3>1. Forget
            BY <2>6 DEF EndStep, Crash, CloseUnchanged, WriteFails, SyncUnlink, CloseDone
        <3>2. QED BY <3>1, ForgetPlaced
    <2>7. ASSUME NEW m \in Message, Deliver(m) PROVE Placed'
        BY <2>3, <2>7, DeliverPlaced
    <2>8. ASSUME NEW i \in DOMAIN Parse(file, 0), Expunge(Parse(file, 0)[i]) PROVE Placed'
        BY <2>2, <2>8 DEF Expunge
    <2>9. ASSUME NEW i, NEW d \in BOOLEAN, Mark(i, d) PROVE Placed'
        BY <2>3, <2>9, UserPlaced
    <2>10. ASSUME NEW i, Flag(i) PROVE Placed'
        BY <2>3, <2>10, UserPlaced
    <2>11. ASSUME NEW o \in {"sync", "close"}, NEW q \in BOOLEAN, Begin(o, q) PROVE Placed'
        BY <2>3, <2>11, UserPlaced
    <2>12. CASE Copy
        BY <2>1, <2>3, <2>12, CopyPlaced
    <2>13. CASE Copied
        BY <2>1, <2>3, <2>13, CopiedPlaced
    <2>14. CASE WriteBack
        BY <2>1, <2>3, <2>14, WriteBackPlaced
    <2>15. CASE Truncate
        BY <2>1, <2>3, <2>15, TruncatePlaced
    <2>16. CASE Commit
        BY <2>1, <2>3, <2>16, CommitPlaced
    <2>17. CASE Bail
        BY <2>3, <2>17, BailPlaced
    <2>18. QED BY <1>2, <2>4, <2>5, <2>6, <2>7, <2>8, <2>9, <2>10, <2>11, <2>12, <2>13, <2>14, <2>15, <2>16,
                  <2>17, Steps
<1>3. QED BY <1>1, <1>2

LEMMA PlacedInit ==
    ASSUME Init
    PROVE  PlaceInv
<1>1. pc = "closed" /\ view = <<>> /\ readonly = FALSE
    BY DEF Init
<1>2. Control /\ SizeInv /\ ViewInv /\ CopyInv /\ WriteInv
    BY <1>1 DEF Control, SizeInv, ViewInv, CopyInv, WriteInv, AtRest
<1>3. QED BY <1>2 DEF PlaceInv, Placed

LEMMA PlacesShow ==
    ASSUME Base, PlaceInv
    PROVE  ViewMatchesFile
<1>1. SUFFICES ASSUME OnlyDeliveries, pc = "idle", NEW i \in DOMAIN view
               PROVE  Chunk(file, view[i].offset, Len(view[i].text)) = view[i].text
    BY DEF ViewMatchesFile
<1>2. PICK t \in Seq(Block) : t = view[i].text
    BY SeqTypes DEF Base
<1>3. PICK o \in Nat : o = view[i].offset
    BY SeqTypes DEF Base
<1>4. Holds(file, o, t)
    BY <1>1, <1>2, <1>3 DEF PlaceInv, Placed, ViewInv, AtRest, Live, InPlace
<1>5. QED BY <1>2, <1>3, <1>4, ChunkHeld, SeqTypes DEF Base

\* The offsets that mbox_mbox_sync() and mbox_mbox_check() leave in the index
\* are those of the messages in the file, whatever mail comes between the
\* check, the copy, the write-back and the next look, and wherever a sync gives
\* up: a message is read, and the next sync starts, where it begins.
THEOREM ViewIsOfFile ==
    ASSUME FileLock
    PROVE  Spec => []ViewMatchesFile
<1>1. Init => Base /\ PlaceInv
    BY BaseInit, PlacedInit
<1>2. Base /\ PlaceInv /\ [Next]_vars => (Base /\ PlaceInv)'
    BY BaseStep, PlacedStep
<1>3. Base /\ PlaceInv => ViewMatchesFile
    BY PlacesShow
<1>4. QED BY <1>1, <1>2, <1>3, PTL DEF Spec

-----------------------------------------------------------------------------
(* No mail is lost *)

LEMMA SoundGrows ==
    ASSUME NEW f, NEW safe, NEW all, NEW not, Sound(f, safe, all, not),
           NEW safer, safe \subseteq safer, NEW less, not \subseteq less
    PROVE  Sound(f, safer, all, less)
BY DEF Sound

LEMMA ShownGrows ==
    ASSUME NEW f, NEW n, NEW v, NEW K, NEW safe, Shown(f, n, v, K, safe), NEW safer, safe \subseteq safer
    PROVE  Shown(f, n, v, K, safer)
BY DEF Shown

\* An entry that is where it says starts there.
LEMMA StartsThere ==
    ASSUME NEW f \in Seq(Block), NEW o \in Nat, NEW text \in Seq(Block), Holds(f, o, text)
    PROVE  /\ o + 1 \in DOMAIN f /\ o < Len(f) /\ IsFrom(f, o + 1) /\ f[o + 1].msg = text[1].msg
           /\ text[1] \in Block /\ text[1].msg \in Message
<1>1. PICK l \in Nat : l = Len(text)
    OBVIOUS
<1>2. l > 0 /\ o + l <= Len(f) /\ \A k \in 1 .. l : f[o + k] = text[k] /\ (text[k].part = 1 <=> k = 1)
    BY <1>1 DEF Holds
<1>3. 1 \in 1 .. l
    BY <1>2
<1>4. f[o + 1] = text[1] /\ text[1].part = 1 /\ text[1] \in Block
    BY <1>1, <1>2, <1>3
<1>5. o + 1 \in DOMAIN f /\ o < Len(f)
    BY <1>2
<1>6. QED BY <1>4, <1>5 DEF IsFrom, Block

\* The same, of the view.
LEMMA EntriesStart ==
    ASSUME Base, NEW K, K \subseteq DOMAIN view, InPlace(file, view, K)
    PROVE  \A i \in K : LET p == view[i].offset + 1
                        IN  /\ p \in DOMAIN file /\ IsFrom(file, p) /\ file[p].msg = Id(view[i])
                            /\ view[i].offset \in Nat
<1>1. SUFFICES ASSUME NEW i \in K
               PROVE  /\ view[i].offset + 1 \in DOMAIN file /\ IsFrom(file, view[i].offset + 1)
                      /\ file[view[i].offset + 1].msg = Id(view[i]) /\ view[i].offset \in Nat
    OBVIOUS
<1>2. file \in Seq(Block) /\ i \in DOMAIN view
    BY SeqTypes DEF Base
<1>3. PICK o \in Nat : o = view[i].offset
    BY <1>2, SeqTypes DEF Base
<1>4. PICK t \in Seq(Block) : t = view[i].text
    BY <1>2, SeqTypes DEF Base
<1>5. Holds(file, o, t)
    BY <1>3, <1>4 DEF InPlace
<1>6. o + 1 \in DOMAIN file /\ IsFrom(file, o + 1) /\ file[o + 1].msg = t[1].msg
    BY <1>2, <1>5, StartsThere
<1>7. QED BY <1>3, <1>4, <1>6 DEF Id

\* Who takes marks back wants messages that are there.
LEMMA Unmarking ==
    ASSUME Base, InPlace(file, view, DOMAIN view), Sound(file, Safe, delivered, unwanted),
           NEW R, R \subseteq DOMAIN view, NEW un, un = unwanted \ {Id(view[i]) : i \in R}
    PROVE  /\ Sound(file, Safe, delivered, un)
           /\ Shown(file, size, view, DOMAIN view, unwanted \cup Safe) =>
                 Shown(file, size, view, DOMAIN view, un \cup Safe)
<1>1. \A i \in DOMAIN view : LET p == view[i].offset + 1
                             IN  /\ p \in DOMAIN file /\ IsFrom(file, p) /\ file[p].msg = Id(view[i])
                                 /\ view[i].offset \in Nat
    BY EntriesStart
<1>2. ASSUME NEW m \in delivered \ un PROVE m \in Safe \/ \E p \in DOMAIN file : IsFrom(file, p) /\ file[p].msg = m
    <2>1. CASE m \in delivered \ unwanted
        BY <2>1 DEF Sound
    <2>2. CASE m \notin delivered \ unwanted
        <3>1. PICK i \in R : m = Id(view[i])
            BY <1>2, <2>2
        <3>2. QED BY <1>1, <3>1
    <2>3. QED BY <2>1, <2>2
<1>3. Sound(file, Safe, delivered, un)
    BY <1>2 DEF Sound
<1>4. ASSUME Shown(file, size, view, DOMAIN view, unwanted \cup Safe), NEW p \in DOMAIN file, p <= size, IsFrom(file, p)
      PROVE  file[p].msg \in un \cup Safe \/ \E i \in DOMAIN view : view[i].offset = p - 1
    <2>1. file[p].msg \in unwanted \cup Safe \/ \E i \in DOMAIN view : view[i].offset = p - 1
        BY <1>4 DEF Shown
    <2>2. SUFFICES ASSUME file[p].msg \in unwanted \ un
                   PROVE  file[p].msg \in Safe \/ \E i \in DOMAIN view : view[i].offset = p - 1
        BY <2>1
    <2>3. PICK i \in R : file[p].msg = Id(view[i])
        BY <2>2
    <2>4. PICK q \in Nat : q = view[i].offset + 1
        BY <1>1
    <2>5. q \in DOMAIN file /\ IsFrom(file, q) /\ file[q].msg = file[p].msg
        BY <1>1, <2>3, <2>4
    <2>6. CASE q = p
        BY <1>1, <2>4, <2>6
    <2>7. CASE q # p
        BY <1>4, <2>5, <2>7 DEF Sound
    <2>8. QED BY <2>6, <2>7
<1>5. QED BY <1>3, <1>4 DEF Shown

LEMMA DeliverHeld ==
    ASSUME Base, Placed, AllHeld, NEW m \in Message, Deliver(m)
    PROVE  AllHeld'
<1>1. /\ file \in Seq(Block) /\ Len(file) \in Nat /\ size \in Nat /\ DOMAIN file = 1 .. Len(file)
      /\ Length[m] \in Nat
    BY SeqTypes, TextIs DEF Base
<1>2. /\ file' \in Seq(Block) /\ Len(file') = Len(file) + Length[m] /\ Length[m] > 0
      /\ \A k \in 1 .. Len(file) : file'[k] = file[k]
      /\ \A k \in 1 .. Length[m] : file'[Len(file) + k] = [msg |-> m, part |-> k]
      /\ lock = "none" /\ delivered' = delivered \cup {m} /\ m \notin delivered
      /\ UNCHANGED <<pc, view, readonly, size, tmp, next, newOffset, unwanted, savefile, saved>>
    BY DeliverIs
<1>3. pc \notin {"write", "commit"}
    BY <1>2 DEF Base, LockInv
<1>4. PICK f \in Seq(Block) : f = file'
    BY <1>2
<1>5. PICK n \in Nat : n = Len(file)
    BY <1>1
<1>6. DOMAIN f = 1 .. n + Length[m] /\ Len(f) = n + Length[m]
    BY <1>1, <1>2, <1>4, <1>5
<1>7. ASSUME NEW p \in DOMAIN f, IsFrom(f, p)
      PROVE  \/ p <= n /\ p \in DOMAIN file /\ f[p] = file[p] /\ IsFrom(file, p)
             \/ p = n + 1 /\ f[p].msg = m
    <2>1. CASE p <= n
        <3>1. p \in 1 .. Len(file)
            BY <1>5, <1>6, <2>1
        <3>2. f[p] = file[p]
            BY <1>2, <1>4, <3>1
        <3>3. QED BY <1>1, <1>7, <2>1, <3>1, <3>2 DEF IsFrom
    <2>2. CASE p > n
        <3>1. PICK k \in 1 .. Length[m] : p = n + k
            <4>1. p - n \in 1 .. Length[m] /\ p = n + (p - n)
                BY <1>1, <1>6, <2>2
            <4>2. QED BY <4>1
        <3>2. f[p] = [msg |-> m, part |-> k]
            BY <1>2, <1>4, <1>5, <3>1
        <3>3. f[p].part = k /\ f[p].msg = m
            BY <3>2
        <3>4. k = 1
            BY <1>7, <3>3 DEF IsFrom
        <3>5. QED BY <3>1, <3>3, <3>4
    <2>3. QED BY <1>6, <2>1, <2>2
<1>8. n + 1 \in DOMAIN f /\ f[n + 1].msg = m /\ IsFrom(f, n + 1) /\ WholeAt(f, n + 1)
    <2>1. n + 1 \in DOMAIN f /\ 1 \in 1 .. Length[m]
        BY <1>1, <1>2, <1>6
    <2>2. f[n + 1] = [msg |-> m, part |-> 1]
        BY <1>2, <1>4, <1>5, <2>1
    <2>3. f[n + 1].msg = m /\ f[n + 1].part = 1
        BY <2>2
    <2>4. ASSUME NEW k \in 1 .. Length[m] PROVE f[(n + 1) + k - 1] = [msg |-> m, part |-> k]
        <3>1. (n + 1) + k - 1 = n + k
            BY <1>1
        <3>2. QED BY <1>2, <1>4, <1>5, <3>1
    <2>5. (n + 1) + Length[m] <= Len(f) + 1
        BY <1>1, <1>6
    <2>6. WholeAt(f, n + 1)
        BY <2>3, <2>4, <2>5 DEF WholeAt
    <2>7. QED BY <2>1, <2>3, <2>6 DEF IsFrom
<1>9. Sound(file, Safe, delivered, unwanted)
    BY <1>3 DEF AllHeld, SoundInv
<1>10. ASSUME NEW p \in DOMAIN file, WholeAt(file, p) PROVE WholeAt(f, p)
    <2>1. p + Length[file[p].msg] <= n + 1
        BY <1>5, <1>10 DEF WholeAt
    <2>2. n <= Len(f)
        BY <1>1, <1>6
    <2>3. \A k \in p .. n : f[k] = file[k]
        BY <1>1, <1>2, <1>4, <1>5
    <2>4. QED BY <1>1, <1>10, <2>1, <2>2, <2>3, StillWhole
<1>11. Sound(f, Safe, delivered \cup {m}, unwanted)
    <2>1. ASSUME NEW p \in DOMAIN f, IsFrom(f, p)
          PROVE  f[p].msg \in delivered \cup {m} /\ (WholeAt(f, p) \/ f[p].msg \in Safe)
        <3>1. CASE p \in DOMAIN file /\ f[p] = file[p] /\ IsFrom(file, p)
            <4>1. file[p].msg \in delivered /\ (WholeAt(file, p) \/ file[p].msg \in Safe)
                BY <1>9, <3>1 DEF Sound
            <4>2. QED BY <1>10, <3>1, <4>1
        <3>2. CASE p = n + 1 /\ f[p].msg = m
            BY <1>8, <3>2
        <3>3. QED BY <1>7, <2>1, <3>1, <3>2
    <2>2. ASSUME NEW p \in DOMAIN f, NEW q \in DOMAIN f, IsFrom(f, p), IsFrom(f, q), p # q, f[p].msg = f[q].msg
          PROVE  f[p].msg \in Safe
        <3>1. CASE /\ p \in DOMAIN file /\ f[p] = file[p] /\ IsFrom(file, p)
                   /\ q \in DOMAIN file /\ f[q] = file[q] /\ IsFrom(file, q)
            BY <1>9, <2>2, <3>1 DEF Sound
        <3>2. CASE p = n + 1
            <4>1. q \in DOMAIN file /\ f[q] = file[q] /\ IsFrom(file, q) /\ f[p].msg = m
                BY <1>7, <2>2, <3>2
            <4>2. file[q].msg \in delivered
                BY <1>9, <4>1 DEF Sound
            <4>3. QED BY <1>2, <2>2, <4>1, <4>2
        <3>3. CASE q = n + 1
            <4>1. p \in DOMAIN file /\ f[p] = file[p] /\ IsFrom(file, p) /\ f[q].msg = m
                BY <1>7, <2>2, <3>3
            <4>2. file[p].msg \in delivered
                BY <1>9, <4>1 DEF Sound
            <4>3. QED BY <1>2, <2>2, <4>1, <4>2
        <3>4. QED BY <1>7, <2>2, <3>1, <3>2, <3>3
    <2>3. ASSUME NEW r \in (delivered \cup {m}) \ unwanted
          PROVE  r \in Safe \/ \E p \in DOMAIN f : IsFrom(f, p) /\ f[p].msg = r
        <3>1. CASE r = m
            BY <1>8, <3>1
        <3>2. CASE r # m
            <4>1. r \in Safe \/ \E p \in DOMAIN file : IsFrom(file, p) /\ file[p].msg = r
                BY <1>9, <2>3, <3>2 DEF Sound
            <4>2. ASSUME NEW p \in DOMAIN file, IsFrom(file, p) PROVE p \in DOMAIN f /\ f[p] = file[p] /\ IsFrom(f, p)
                <5>1. p \in DOMAIN f /\ f[p] = file[p]
                    BY <1>1, <1>2, <1>4, <1>5, <1>6
                <5>2. QED BY <4>2, <5>1 DEF IsFrom
            <4>3. QED BY <4>1, <4>2
        <3>3. QED BY <3>1, <3>2
    <2>4. QED BY <2>1, <2>2, <2>3 DEF Sound
<1>12. Safe' = Safe
    BY <1>2 DEF Safe
<1>13. SoundInv'
    BY <1>2, <1>3, <1>4, <1>11, <1>12 DEF SoundInv
<1>14. ShownInv'
    <2>1. \A i \in Marked(view) : Id(view[i]) \in unwanted \cup Safe
        BY DEF AllHeld, ShownInv
    <2>2. Marked(view)' = Marked(view) /\ Live' = Live
        BY <1>2 DEF Marked, Live, Unmarked
    <2>3. ASSUME pc \in AtRest, ~readonly PROVE Shown(f, size, view, Live, unwanted \cup Safe)
        <3>1. Shown(file, size, view, Live, unwanted \cup Safe)
            BY <2>3 DEF AllHeld, ShownInv
        <3>2. size <= n
            BY <1>5, <2>3 DEF Placed, SizeInv
        <3>3. ASSUME NEW p \in DOMAIN f, p <= size, IsFrom(f, p)
              PROVE  p \in DOMAIN file /\ f[p] = file[p] /\ IsFrom(file, p)
            <4>1. p # n + 1
                BY <1>1, <1>6, <3>2, <3>3
            <4>2. QED BY <1>7, <3>3, <4>1
        <3>4. QED BY <3>1, <3>3 DEF Shown
    <2>4. \A i \in Marked(view)' : Id(view'[i]) \in unwanted' \cup Safe'
        BY <1>2, <1>12, <2>1, <2>2 DEF Id
    <2>5. pc' \in AtRest /\ ~readonly' => Shown(file, size, view, Live, unwanted \cup Safe)'
        BY <1>2, <1>4, <1>12, <2>2, <2>3 DEF Shown
    <2>6. QED BY <1>2, <1>3, <2>4, <2>5 DEF ShownInv, Id
<1>15. QED BY <1>13, <1>14 DEF AllHeld

\* Steps that leave the file and what is wanted, and the marks.
LEMMA SimpleHeld ==
    ASSUME Base, Placed, AllHeld, SimpleStep \/ Copy
    PROVE  AllHeld'
<1>1. /\ UNCHANGED <<file, view, delivered, unwanted, savefile, saved>> /\ pc \notin {"write", "commit", "synced"}
      /\ pc' \notin {"write", "commit", "synced"}
    BY DEF SimpleStep, Open, CheckSame, CheckReopen, Lock, CopyFails, Copy, Checking, fileVars, viewVars, histVars
<1>2. Safe' = Safe /\ Marked(view)' = Marked(view)
    BY <1>1 DEF Safe, Marked
<1>3. pc' \in AtRest /\ ~readonly' => pc \in AtRest /\ ~readonly /\ size' = size
    <2>1. ~CheckReopen
        <3>1. SUFFICES ASSUME CheckReopen PROVE FALSE
            OBVIOUS
        <3>2. pc \in AtRest /\ Len(file) # size /\ (Len(file) > size => ~IsFrom(file, size + 1))
            BY <3>1 DEF CheckReopen, Checking, AtRest
        <3>3. size <= Len(file) /\ (size < Len(file) => IsFrom(file, size + 1))
            BY <3>2 DEF Placed, SizeInv
        <3>4. QED BY <3>2, <3>3, SeqTypes DEF Base
    <2>2. QED BY <2>1 DEF SimpleStep, Open, CheckSame, Lock, CopyFails, Copy, AtRest, viewVars
<1>4. Sound(file, Safe, delivered, unwanted)
    BY <1>1 DEF AllHeld, SoundInv
<1>5. SoundInv'
    BY <1>1, <1>2, <1>4 DEF SoundInv
<1>6. \A i \in Marked(view)' : Id(view'[i]) \in unwanted' \cup Safe'
    BY <1>1, <1>2 DEF AllHeld, ShownInv
<1>7. ASSUME pc' \in AtRest, ~readonly' PROVE Shown(file, size, view, Live, unwanted \cup Safe)'
    <2>1. Shown(file, size, view, Live, unwanted \cup Safe)
        BY <1>3, <1>7 DEF AllHeld, ShownInv
    <2>2. Live' = Live
        BY <1>1 DEF Live
    <2>3. QED BY <1>1, <1>2, <1>3, <1>7, <2>1, <2>2 DEF Shown
<1>8. ShownInv'
    BY <1>1, <1>6, <1>7 DEF ShownInv
<1>9. QED BY <1>5, <1>8 DEF AllHeld

\* Dropping the marked entries hides nothing that is wanted.
LEMMA TablesShow ==
    ASSUME Base, UpdateTables(view), NEW K, Unmarked(view) \subseteq K, K \subseteq DOMAIN view,
           InPlace(file, view, K), NEW safe, NEW n, Shown(file, n, view, K, safe),
           \A i \in Marked(view) : Id(view[i]) \in safe
    PROVE  Shown(file, n, view', DOMAIN view', safe) /\ Marked(view') = {}
<1>1. view \in Seq(Entry)
    BY SeqTypes DEF Base
<1>2. PICK w : w = view'
    OBVIOUS
<1>3. PICK e : /\ e \in [DOMAIN w -> Unmarked(view)]
               /\ \A i \in DOMAIN w : /\ w[i].text = view[e[i]].text /\ w[i].offset = view[e[i]].offset
                                      /\ ~w[i].deleted /\ ~w[i].changed
               /\ \A i, j \in DOMAIN w : i < j => e[i] < e[j]
               /\ \A k \in Unmarked(view) : \E i \in DOMAIN w : e[i] = k
    <2>1. PICK v \in Seq(Entry) : v = view
        BY <1>1
    <2>2. UpdateTables(v)
        BY <2>1
    <2>3. \E e : /\ e \in [DOMAIN view' -> Unmarked(v)]
                 /\ \A i \in DOMAIN view' : /\ view'[i].text = v[e[i]].text
                                            /\ view'[i].offset = v[e[i]].offset
                                            /\ ~view'[i].deleted /\ ~view'[i].changed
                 /\ \A i, j \in DOMAIN view' : i < j => e[i] < e[j]
                 /\ \A k \in Unmarked(v) : \E i \in DOMAIN view' : e[i] = k
        BY <2>2, TablesLeave
    <2>4. QED BY <1>2, <2>1, <2>3
<1>4. ASSUME NEW p \in DOMAIN file, p <= n, IsFrom(file, p)
      PROVE  file[p].msg \in safe \/ \E i \in DOMAIN w : w[i].offset = p - 1
    <2>1. SUFFICES ASSUME file[p].msg \notin safe PROVE \E i \in DOMAIN w : w[i].offset = p - 1
        OBVIOUS
    <2>2. PICK k \in K : view[k].offset = p - 1
        BY <1>4, <2>1 DEF Shown
    <2>3. view[k].offset + 1 = p
        BY <2>2, SeqTypes DEF Base
    <2>4. file[p].msg = Id(view[k])
        BY <2>3, EntriesStart
    <2>5. k \in Unmarked(view)
        BY <2>1, <2>4 DEF Unmarked
    <2>6. QED BY <1>3, <2>2, <2>5
<1>5. Marked(w) = {}
    BY <1>3 DEF Marked
<1>6. Shown(file, n, w, DOMAIN w, safe)
    BY <1>4 DEF Shown
<1>7. QED BY <1>2, <1>5, <1>6

LEMMA LookHeld ==
    ASSUME Base, Placed, AllHeld, LookStep \/ Bail
    PROVE  AllHeld'
<1>1. /\ file \in Seq(Block) /\ Len(file) \in Nat /\ size \in Nat /\ view \in Seq(Entry)
      /\ DOMAIN view = 1 .. Len(view) /\ Len(view) \in Nat
    BY SeqTypes DEF Base
<1>2. ~Reread
    BY DEF Placed, Control, Reread
<1>3. /\ UNCHANGED <<file, delivered, unwanted, savefile, saved, readonly>> /\ pc \notin {"write", "commit"}
      /\ pc' \notin {"write", "commit"}
    BY <1>2 DEF LookStep, Read, CheckNewMail, SyncDone, Bail, Checking, Back, fileVars, histVars
<1>4. Safe' = Safe
    BY <1>3 DEF Safe
<1>5. SoundInv'
    BY <1>3, <1>4 DEF AllHeld, SoundInv
<1>6. \A i \in Marked(view) : Id(view[i]) \in unwanted \cup Safe
    BY DEF AllHeld, ShownInv
<1>7. SUFFICES /\ \A i \in Marked(view') : Id(view'[i]) \in unwanted \cup Safe
               /\ ~readonly => Shown(file, size', view', Live', unwanted \cup Safe)
    <2>1. Marked(view)' = Marked(view')
        BY DEF Marked
    <2>2. Shown(file, size, view, Live, unwanted \cup Safe)' = Shown(file, size', view', Live', unwanted \cup Safe)
        BY <1>3, <1>4 DEF Shown
    <2>3. ShownInv'
        BY <1>3, <1>4, <1>7, <2>1, <2>2 DEF ShownInv, Id
    <2>4. QED BY <1>5, <2>3 DEF AllHeld
<1>8. CASE Read
    <2>1. pc' = "idle" /\ view' = Parse(file, 0)
        BY <1>8 DEF Read
    <2>2. PICK w : w = Parse(file, 0)
        OBVIOUS
    <2>3. \A i \in DOMAIN w : ~w[i].deleted
        BY <1>1, <2>2, ParseFinds
    <2>4. \A p \in DOMAIN file : p > 0 /\ IsFrom(file, p) => \E i \in DOMAIN w : w[i].offset = p - 1
        BY <1>1, <2>2, ParseFinds
    <2>5. Marked(w) = {} /\ Shown(file, size', w, DOMAIN w, unwanted \cup Safe)
        BY <1>1, <2>3, <2>4 DEF Marked, Shown
    <2>6. Live' = DOMAIN view'
        BY <2>1 DEF Live
    <2>7. QED BY <2>1, <2>2, <2>5, <2>6
<1>9. CASE CheckNewMail
    <2>1. /\ pc \in {"idle", "check"} /\ pc' \in {"idle", "giveup"} /\ size' = Len(file)
          /\ view' = view \o Parse(file, size)
        BY <1>9 DEF CheckNewMail, Checking, Back
    <2>2. PICK new : new = Parse(file, size)
        OBVIOUS
    <2>3. /\ new \in Seq(Entry) /\ \A i \in DOMAIN new : ~new[i].deleted
        BY <1>1, <2>2, ParseFinds
    <2>4. \A p \in DOMAIN file : p > size /\ IsFrom(file, p) => \E i \in DOMAIN new : new[i].offset = p - 1
        BY <1>1, <2>2, ParseFinds
    <2>5. PICK w : w = view \o new
        OBVIOUS
    <2>6. /\ w \in Seq(Entry) /\ Len(w) = Len(view) + Len(new) /\ Len(new) \in Nat
          /\ \A k \in 1 .. Len(view) : w[k] = view[k]
          /\ \A k \in 1 .. Len(new) : w[Len(view) + k] = new[k]
        BY <1>1, <2>3, <2>5, Joined
    <2>7. DOMAIN w = 1 .. Len(view) + Len(new) /\ DOMAIN new = 1 .. Len(new)
        BY <2>3, <2>6
    <2>8. ASSUME NEW i \in DOMAIN w, i \notin DOMAIN view PROVE ~w[i].deleted
        <3>1. PICK k \in DOMAIN new : k = i - Len(view)
            BY <1>1, <2>6, <2>7, <2>8
        <3>2. i = Len(view) + k
            BY <1>1, <2>7, <3>1
        <3>3. w[i] = new[k]
            BY <2>6, <2>7, <3>2
        <3>4. QED BY <2>3, <3>3
    <2>9. \A i \in DOMAIN view : i \in DOMAIN w /\ w[i] = view[i]
        BY <1>1, <2>6, <2>7
    <2>10. \A k \in DOMAIN new : Len(view) + k \in DOMAIN w /\ w[Len(view) + k] = new[k]
        BY <1>1, <2>6, <2>7
    <2>11. \A i \in Marked(w) : Id(w[i]) \in unwanted \cup Safe
        BY <1>6, <2>8, <2>9 DEF Marked, Id
    <2>12. ASSUME ~readonly PROVE Shown(file, Len(file), w, DOMAIN w, unwanted \cup Safe)
        <3>1. pc \in AtRest /\ Live = DOMAIN view
            BY <2>1 DEF AtRest, Live
        <3>2. Shown(file, size, view, DOMAIN view, unwanted \cup Safe)
            BY <2>12, <3>1 DEF AllHeld, ShownInv
        <3>3. ASSUME NEW p \in DOMAIN file, IsFrom(file, p)
              PROVE  file[p].msg \in unwanted \cup Safe \/ \E i \in DOMAIN w : w[i].offset = p - 1
            <4>1. CASE p <= size
                BY <2>9, <3>2, <3>3, <4>1 DEF Shown
            <4>2. CASE p > size
                BY <2>4, <2>10, <3>3, <4>2
            <4>3. QED BY <1>1, <4>1, <4>2
        <3>4. QED BY <3>3 DEF Shown
    <2>13. Live' = DOMAIN view'
        BY <2>1 DEF Live
    <2>14. QED BY <2>1, <2>2, <2>5, <2>11, <2>12, <2>13
<1>10. CASE SyncDone \/ Bail
    <2>1. /\ pc \in {"synced", "bail", "giveup"} /\ pc' \in {"idle", "synced"} /\ size' = size /\ UpdateTables(view)
        BY <1>10 DEF SyncDone, Bail
    <2>2. pc \in AtRest /\ Unmarked(view) \subseteq Live /\ Live \subseteq DOMAIN view /\ ~readonly
        BY <2>1 DEF AtRest, Live, Unmarked, Placed, Control
    <2>3. InPlace(file, view, Live) /\ Shown(file, size, view, Live, unwanted \cup Safe)
        BY <2>2 DEF Placed, ViewInv, AllHeld, ShownInv
    <2>4. Shown(file, size, view', DOMAIN view', unwanted \cup Safe) /\ Marked(view') = {}
        BY <1>6, <2>1, <2>2, <2>3, TablesShow
    <2>5. Live' = DOMAIN view'
        <3>1. Unmarked(view') = DOMAIN view'
            BY <2>4 DEF Unmarked
        <3>2. Unmarked(view)' = Unmarked(view')
            BY DEF Unmarked, Marked
        <3>3. QED BY <3>1, <3>2 DEF Live
    <2>6. QED BY <2>1, <2>4, <2>5
<1>11. QED BY <1>2, <1>8, <1>9, <1>10 DEF LookStep

\* The mailbox is closed, or NeoMutt dies: what was only in the copy is in the
\* file that is left behind.
LEMMA EndHeld ==
    ASSUME Base, Placed, AllHeld, env.saveEmpty, ~env.failAgain, EndStep
    PROVE  AllHeld'
<1>1. Forget
    BY DEF EndStep, Crash, CloseUnchanged, WriteFails, SyncUnlink, CloseDone
<1>2. pc' = "closed" /\ view' = <<>>
    BY <1>1 DEF Forget
<1>3. ~SyncUnlink
    BY DEF SyncUnlink
<1>4. file' = file /\ delivered' = delivered
    BY <1>3 DEF EndStep, Crash, CloseUnchanged, WriteFails, CloseDone, fileVars
<1>5. SUFFICES Sound(file, Safe', delivered, unwanted')
    <2>1. SoundInv'
        BY <1>2, <1>4, <1>5 DEF SoundInv
    <2>2. ShownInv'
        BY <1>2 DEF ShownInv, AtRest, Marked
    <2>3. QED BY <2>1, <2>2 DEF AllHeld
<1>6. IF pc = "write" THEN Sound(file, Safe \cup Recoverable(tmp), delivered, unwanted)
      ELSE Sound(file, Safe, delivered, unwanted)
    BY DEF AllHeld, SoundInv
<1>7. CASE Crash
    <2>1. Safe' = Safe \cup Recoverable(tmp) /\ unwanted' = unwanted
        BY <1>7 DEF Crash, Safe
    <2>2. Sound(file, Safe \cup Recoverable(tmp), delivered, unwanted)
        BY <1>6, SoundGrows
    <2>3. QED BY <2>1, <2>2
<1>8. CASE WriteFails
    <2>1. Safe' = Safe \cup Recoverable(tmp) /\ unwanted' = unwanted /\ pc = "write"
        BY <1>8 DEF WriteFails, Safe
    <2>2. QED BY <1>6, <2>1
<1>9. CASE CloseDone
    <2>1. Safe' = Safe /\ unwanted' = unwanted /\ pc = "synced"
        BY <1>9 DEF CloseDone, Safe, histVars
    <2>2. QED BY <1>6, <2>1
<1>10. ASSUME NEW purge, CloseUnchanged(purge) PROVE Sound(file, Safe', delivered, unwanted')
    <2>1. Safe' = Safe /\ unwanted' = unwanted \ {Id(view[i]) : i \in Marked(view)} /\ pc = "idle"
        BY <1>10 DEF CloseUnchanged, Safe
    <2>2. Marked(view) \subseteq DOMAIN view /\ Live = DOMAIN view /\ pc \in AtRest
        BY <2>1 DEF Marked, Live, AtRest
    <2>3. InPlace(file, view, DOMAIN view)
        BY <2>2 DEF Placed, ViewInv
    <2>4. Sound(file, Safe, delivered, unwanted)
        BY <1>6, <2>1
    <2>5. QED BY <2>1, <2>2, <2>3, <2>4, Unmarking
<1>11. QED BY <1>3, <1>7, <1>8, <1>9, <1>10 DEF EndStep

\* The user marks a message, or takes a mark back.
LEMMA UserHeld ==
    ASSUME Base, Placed, AllHeld, NEW i, NEW d \in BOOLEAN, NEW o \in {"sync", "close"}, NEW q \in BOOLEAN,
           Mark(i, d) \/ Flag(i) \/ Begin(o, q)
    PROVE  AllHeld'
<1>1. /\ pc = "idle" /\ ~readonly /\ pc' \in {"idle", "lock"}
      /\ UNCHANGED <<file, delivered, readonly, size, savefile, saved>>
    BY DEF Mark, Flag, Begin, fileVars, histVars
<1>2. Safe' = Safe /\ Live = DOMAIN view /\ Live' = DOMAIN view' /\ pc \in AtRest
    BY <1>1 DEF Safe, Live, AtRest
<1>3. InPlace(file, view, DOMAIN view) /\ InOrder(view, DOMAIN view, size)
    BY <1>1, <1>2 DEF Placed, ViewInv
<1>4. /\ Sound(file, Safe, delivered, unwanted)
      /\ Shown(file, size, view, DOMAIN view, unwanted \cup Safe)
      /\ \A k \in Marked(view) : Id(view[k]) \in unwanted \cup Safe
    BY <1>1, <1>2 DEF AllHeld, SoundInv, ShownInv
<1>5. PICK w : w = view'
    OBVIOUS
<1>6. PICK un : un = unwanted'
    OBVIOUS
<1>7. DOMAIN w = DOMAIN view /\ \A k \in DOMAIN view : w[k].text = view[k].text /\ w[k].offset = view[k].offset
    BY <1>5, UserViews DEF Base, Reflagged
<1>8. \A k \in DOMAIN view : Id(w[k]) = Id(view[k])
    BY <1>7 DEF Id
<1>9. SUFFICES /\ Sound(file, Safe, delivered, un)
               /\ Shown(file, size, view, DOMAIN view, un \cup Safe)
               /\ \A k \in Marked(w) : Id(view[k]) \in un \cup Safe
    <2>1. SoundInv'
        BY <1>1, <1>2, <1>6, <1>9 DEF SoundInv
    <2>2. Marked(view)' = Marked(w)
        BY <1>5 DEF Marked
    <2>3. \A k \in Marked(w) : k \in DOMAIN view /\ Id(w[k]) \in un \cup Safe
        BY <1>7, <1>8, <1>9 DEF Marked
    <2>4. Shown(file, size, w, DOMAIN w, un \cup Safe)
        BY <1>7, <1>9 DEF Shown
    <2>5. Shown(file, size, view, Live, unwanted \cup Safe)' = Shown(file, size, w, DOMAIN w, un \cup Safe)
        BY <1>1, <1>2, <1>5, <1>6 DEF Shown
    <2>6. ShownInv'
        BY <1>1, <1>2, <1>5, <1>6, <2>2, <2>3, <2>4, <2>5 DEF ShownInv, Id
    <2>7. QED BY <2>1, <2>6 DEF AllHeld
<1>10. ASSUME NEW R, R \subseteq DOMAIN view, un = unwanted \ {Id(view[k]) : k \in R}, Marked(w) = Marked(view) \ R
       PROVE  /\ Sound(file, Safe, delivered, un)
              /\ Shown(file, size, view, DOMAIN view, un \cup Safe)
              /\ \A k \in Marked(w) : Id(view[k]) \in un \cup Safe
    <2>1. Sound(file, Safe, delivered, un) /\ Shown(file, size, view, DOMAIN view, un \cup Safe)
        BY <1>3, <1>4, <1>10, Unmarking
    <2>2. ASSUME NEW k \in Marked(w) PROVE Id(view[k]) \in un \cup Safe
        <3>1. k \in Marked(view) /\ k \in DOMAIN view /\ k \notin R
            BY <1>10 DEF Marked
        <3>2. SUFFICES ASSUME NEW j \in R, Id(view[k]) = Id(view[j]) PROVE Id(view[k]) \in Safe
            BY <1>4, <1>10, <3>1
        <3>3. j \in DOMAIN view /\ j # k
            BY <1>10, <3>1
        <3>4. view[j].offset # view[k].offset
            <4>1. j < k \/ k < j
                BY <3>1, <3>3, SeqTypes DEF Base
            <4>2. view[j].offset \in Nat /\ view[k].offset \in Nat
                BY <3>1, <3>3, SeqTypes DEF Base
            <4>3. view[j].offset < view[k].offset \/ view[k].offset < view[j].offset
                BY <1>3, <3>1, <3>3, <4>1 DEF InOrder
            <4>4. QED BY <4>2, <4>3
        <3>5. PICK p : p = view[j].offset + 1
            OBVIOUS
        <3>6. PICK r : r = view[k].offset + 1
            OBVIOUS
        <3>7. /\ p \in DOMAIN file /\ IsFrom(file, p) /\ file[p].msg = Id(view[j]) /\ view[j].offset \in Nat
              /\ r \in DOMAIN file /\ IsFrom(file, r) /\ file[r].msg = Id(view[k]) /\ view[k].offset \in Nat
            BY <1>3, <3>1, <3>3, <3>5, <3>6, EntriesStart
        <3>8. p # r
            BY <3>4, <3>5, <3>6, <3>7
        <3>9. QED BY <1>4, <3>2, <3>7, <3>8 DEF Sound
    <2>3. QED BY <2>1, <2>2
<1>11. CASE Mark(i, d)
    <2>1. i \in DOMAIN view /\ un = (IF d THEN unwanted \cup {Id(view[i])} ELSE unwanted \ {Id(view[i])})
        BY <1>6, <1>11 DEF Mark
    <2>2. \A k \in DOMAIN view : w[k].deleted = IF k = i THEN d ELSE view[k].deleted
        BY <1>5, <1>11, UserViews DEF Base
    <2>3. CASE d
        <3>1. unwanted \subseteq un /\ Id(view[i]) \in un
            BY <2>1, <2>3
        <3>2. Sound(file, Safe, delivered, un) /\ Shown(file, size, view, DOMAIN view, un \cup Safe)
            BY <1>4, <3>1, SoundGrows, ShownGrows
        <3>3. \A k \in Marked(w) : k = i \/ k \in Marked(view)
            BY <1>7, <2>2 DEF Marked
        <3>4. QED BY <1>4, <3>1, <3>2, <3>3
    <2>4. CASE ~d
        <3>1. un = unwanted \ {Id(view[k]) : k \in {i}} /\ {i} \subseteq DOMAIN view
            BY <2>1, <2>4
        <3>2. Marked(w) = Marked(view) \ {i}
            BY <1>7, <2>2, <2>4 DEF Marked
        <3>3. QED BY <1>10, <3>1, <3>2
    <2>5. QED BY <2>3, <2>4
<1>12. CASE Flag(i)
    <2>1. un = unwanted
        BY <1>6, <1>12 DEF Flag, histVars
    <2>2. \A k \in DOMAIN view : w[k].deleted = view[k].deleted
        BY <1>5, <1>12, UserViews DEF Base
    <2>3. Marked(w) = Marked(view)
        BY <1>7, <2>2 DEF Marked
    <2>4. QED BY <1>4, <2>1, <2>3
<1>13. CASE Begin(o, q)
    <2>1. un = IF q THEN unwanted ELSE unwanted \ {Id(view[k]) : k \in Marked(view)}
        BY <1>6, <1>13 DEF Begin
    <2>2. \A k \in DOMAIN view : w[k].deleted = (q /\ view[k].deleted)
        BY <1>5, <1>13, UserViews DEF Base
    <2>3. CASE q
        <3>1. \A k \in DOMAIN view : w[k].deleted <=> view[k].deleted
            BY <2>2, <2>3
        <3>2. Marked(w) = Marked(view)
            BY <1>7, <3>1 DEF Marked
        <3>3. QED BY <1>4, <2>1, <2>3, <3>2
    <2>4. CASE ~q
        <3>1. \A k \in DOMAIN view : ~w[k].deleted
            BY <2>2, <2>4
        <3>2. Marked(w) = Marked(view) \ Marked(view) /\ Marked(view) \subseteq DOMAIN view
            BY <1>7, <3>1 DEF Marked
        <3>3. QED BY <1>10, <2>1, <2>4, <3>2
    <2>5. QED BY <2>3, <2>4
<1>14. QED BY <1>11, <1>12, <1>13

\* What starts in the file that is to be starts in the one that is, at its own
\* place, and is as whole there.
LEMMA CopyOfStarts ==
    ASSUME FileLock, Base, Placed, UNCHANGED env, Copied
    PROVE  LET Comes(p, q) == /\ q \in DOMAIN file /\ IsFrom(file, q) /\ Target[p].msg = file[q].msg
                              /\ WholeAt(file, q) => WholeAt(Target, p)
           IN  /\ \A p \in 1 .. Offset : IsFrom(file, p) => p \in DOMAIN Target /\ IsFrom(Target, p) /\ Comes(p, p)
               /\ \A i \in Done(Len(view) + 1) :
                     LET p == Place(newOffset, i) + 1
                         q == view[i].offset + 1
                     IN  /\ p \in DOMAIN Target /\ IsFrom(Target, p) /\ Comes(p, q) /\ q > Offset
                         /\ i \in DOMAIN view
               /\ \A p \in DOMAIN Target : IsFrom(Target, p) =>
                     \/ p \in 1 .. Offset /\ IsFrom(file, p)
                     \/ p > Offset /\ \E i \in Done(Len(view) + 1) : p = Place(newOffset, i) + 1
<1> DEFINE Comes(p, q) == /\ q \in DOMAIN file /\ IsFrom(file, q) /\ Target[p].msg = file[q].msg
                          /\ WholeAt(file, q) => WholeAt(Target, p)
<1>1. /\ file \in Seq(Block) /\ Len(file) \in Nat /\ view \in Seq(Entry) /\ tmp \in Seq(Block)
      /\ Len(tmp) \in Nat /\ Len(view) \in Nat /\ DOMAIN view = 1 .. Len(view)
      /\ \A i \in DOMAIN view : view[i].text \in Seq(Block) /\ view[i].offset \in Nat
    BY SeqTypes DEF Base
<1>2. pc = "copy" /\ next = Len(view) + 1 /\ next # 0
    BY CopyKeepsBase DEF Copied
<1>3. Touched # {}
    BY <1>2 DEF Base, ChangeInv
<1>4. FirstTouched \in DOMAIN view /\ FirstTouched \in Nat /\ Offset \in Nat /\ Offset = view[FirstTouched].offset
    BY <1>1, <1>3, FirstIs
<1>5. /\ Offset < Len(file) /\ IsFrom(file, Offset + 1)
      /\ InPlace(file, view, DOMAIN view) /\ InOrder(view, DOMAIN view, size)
    BY <1>2, Before
<1>6. CopyOf(tmp, newOffset, Len(view) + 1)
    BY CopiedPlaced
<1>7. PICK g : g = Target
    OBVIOUS
<1>8. /\ g \in Seq(Block) /\ Len(g) = Offset + Len(tmp) /\ Len(g) \in Nat
      /\ \A k \in 1 .. Offset : g[k] = file[k]
      /\ \A k \in DOMAIN tmp : g[Offset + k] = tmp[k]
      /\ \A r \in Nat, text \in Seq(Block) : Holds(tmp, r, text) => Holds(g, Offset + r, text)
    <2>1. PICK o \in Nat : o = Offset
        BY <1>4
    <2>2. o <= Len(file) /\ g = SubSeq(file, 1, o) \o tmp
        BY <1>1, <1>5, <1>7, <2>1 DEF Target
    <2>3. /\ g \in Seq(Block) /\ Len(g) = o + Len(tmp)
          /\ \A k \in 1 .. o : g[k] = file[k]
          /\ \A k \in DOMAIN tmp : g[o + k] = tmp[k]
          /\ \A r \in Nat, text \in Seq(Block) : Holds(tmp, r, text) => Holds(g, o + r, text)
        BY <1>1, <2>2, Shifted
    <2>4. Len(g) \in Nat
        BY <2>3
    <2>5. QED BY <2>1, <2>3, <2>4
<1>9. ASSUME NEW p \in 1 .. Offset, IsFrom(file, p) PROVE p \in DOMAIN g /\ IsFrom(g, p) /\ Comes(p, p)
    <2>1. p \in DOMAIN g /\ p \in DOMAIN file /\ g[p] = file[p] /\ Offset + 1 \in DOMAIN file
        BY <1>1, <1>4, <1>5, <1>8
    <2>2. IsFrom(g, p)
        BY <1>9, <2>1 DEF IsFrom
    <2>3. ASSUME WholeAt(file, p) PROVE WholeAt(g, p)
        <3>1. PICK q \in DOMAIN file : q = Offset + 1
            BY <2>1
        <3>2. p < q /\ IsFrom(file, q)
            BY <1>4, <1>5, <3>1
        <3>3. p + Length[file[p].msg] <= q
            BY <1>1, <2>1, <2>3, <3>2, WholeBefore
        <3>4. PICK n \in Nat : n = Offset
            BY <1>4
        <3>5. p + Length[file[p].msg] <= n + 1 /\ n <= Len(g) /\ \A k \in p .. n : g[k] = file[k]
            BY <1>1, <1>8, <3>1, <3>3, <3>4
        <3>6. QED BY <1>1, <1>8, <2>1, <2>3, <3>5, StillWhole
    <2>4. QED BY <1>7, <1>9, <2>1, <2>2, <2>3
<1>10. ASSUME NEW i \in Done(Len(view) + 1)
       PROVE  LET p == Place(newOffset, i) + 1
                  q == view[i].offset + 1
              IN  p \in DOMAIN g /\ IsFrom(g, p) /\ Comes(p, q) /\ q > Offset /\ i \in DOMAIN view
    <2>1. i \in DOMAIN view /\ i >= FirstTouched
        BY <1>1, <1>4 DEF Done
    <2>2. PICK t \in Seq(Block) : t = view[i].text
        BY <1>1, <2>1
    <2>3. PICK o \in Nat : o = view[i].offset
        BY <1>1, <2>1
    <2>4. Holds(file, o, t)
        BY <1>5, <2>1, <2>2, <2>3 DEF InPlace
    <2>5. o >= Offset
        <3>1. CASE i = FirstTouched
            BY <1>4, <2>3, <3>1
        <3>2. CASE i # FirstTouched
            <4>1. FirstTouched < i
                BY <1>1, <1>4, <2>1, <3>2
            <4>2. Offset < o
                BY <1>4, <1>5, <2>1, <2>3, <4>1 DEF InOrder
            <4>3. QED BY <1>4, <4>2
        <3>3. QED BY <3>1, <3>2
    <2>6. PICK c \in Nat : c = Place(newOffset, i)
        <3>1. Len(newOffset) = next - FirstTouched
            BY <1>2 DEF Base, Bounds
        <3>2. i - FirstTouched + 1 \in 1 .. Len(newOffset)
            BY <1>1, <1>2, <1>4, <2>1, <3>1
        <3>3. newOffset[i - FirstTouched + 1] \in Nat
            BY <3>2, SeqTypes DEF Base
        <3>4. QED BY <3>3 DEF Place
    <2>7. c >= Offset /\ Holds(tmp, c - Offset, t)
        BY <1>6, <2>2, <2>6 DEF CopyOf
    <2>8. PICK r \in Nat : r = c - Offset
        BY <1>4, <2>6, <2>7
    <2>9. Holds(g, c, t)
        <3>1. Holds(tmp, r, t) /\ Offset + r = c
            BY <1>4, <2>6, <2>7, <2>8
        <3>2. QED BY <1>8, <3>1
    <2>10. /\ o + 1 \in DOMAIN file /\ IsFrom(file, o + 1) /\ file[o + 1].msg = t[1].msg
           /\ c + 1 \in DOMAIN g /\ IsFrom(g, c + 1) /\ g[c + 1].msg = t[1].msg
        BY <1>1, <1>8, <2>4, <2>9, StartsThere
    <2>11. WholeAt(file, o + 1) => WholeAt(g, c + 1)
        BY <1>1, <1>8, <2>4, <2>9, WholeThere
    <2>12. o + 1 > Offset
        BY <1>4, <2>5
    <2>13. QED BY <1>7, <2>1, <2>3, <2>6, <2>10, <2>11, <2>12
<1>11. ASSUME NEW p \in DOMAIN g, IsFrom(g, p)
       PROVE  \/ p \in 1 .. Offset /\ IsFrom(file, p)
              \/ p > Offset /\ \E i \in Done(Len(view) + 1) : p = Place(newOffset, i) + 1
    <2>1. p \in 1 .. Offset + Len(tmp)
        BY <1>8
    <2>2. CASE p <= Offset
        <3>1. p \in 1 .. Offset /\ p \in DOMAIN file /\ g[p] = file[p]
            BY <1>1, <1>4, <1>5, <1>8, <2>1, <2>2
        <3>2. QED BY <1>11, <3>1 DEF IsFrom
    <2>3. CASE p > Offset
        <3>1. PICK k \in 1 .. Len(tmp) : p = Offset + k
            <4>1. p - Offset \in 1 .. Len(tmp) /\ p = Offset + (p - Offset)
                BY <1>1, <1>4, <2>1, <2>3
            <4>2. QED BY <4>1
        <3>2. k \in DOMAIN tmp /\ g[Offset + k] = tmp[k]
            BY <1>1, <1>8, <3>1
        <3>3. IsFrom(tmp, k)
            BY <1>11, <3>1, <3>2 DEF IsFrom
        <3>4. PICK i \in Done(Len(view) + 1) : Place(newOffset, i) = Offset + k - 1
            BY <1>6, <3>2, <3>3 DEF CopyOf
        <3>5. p = Place(newOffset, i) + 1
            BY <1>4, <3>1, <3>4
        <3>6. QED BY <2>3, <3>5
    <2>4. QED BY <1>4, <2>1, <2>2, <2>3
<1>12. QED BY <1>7, <1>9, <1>10, <1>11

\* The copy is complete: what is wanted and was behind the first touched entry
\* is in it.
LEMMA CopiedHeld ==
    ASSUME FileLock, Base, Placed, AllHeld, UNCHANGED env, Copied
    PROVE  AllHeld'
<1> DEFINE Comes(p, q) == /\ q \in DOMAIN file /\ IsFrom(file, q) /\ Target[p].msg = file[q].msg
                          /\ WholeAt(file, q) => WholeAt(Target, p)
<1> DEFINE all == Len(view) + 1
<1>1. /\ file \in Seq(Block) /\ Len(file) \in Nat /\ view \in Seq(Entry) /\ tmp \in Seq(Block)
      /\ Len(tmp) \in Nat /\ Len(view) \in Nat /\ DOMAIN view = 1 .. Len(view) /\ DOMAIN file = 1 .. Len(file)
      /\ \A i \in DOMAIN view : view[i].text \in Seq(Block) /\ view[i].offset \in Nat
    BY SeqTypes DEF Base
<1>2. /\ pc = "copy" /\ pc' = "write" /\ next = Len(view) + 1 /\ next # 0
      /\ UNCHANGED <<file, delivered, view, changed, readonly, size, tmp, newOffset, unwanted, savefile, saved>>
    BY CopyKeepsBase DEF Copied, fileVars, viewVars, histVars
<1>3. Touched # {} /\ Len(newOffset) = Len(view) + 1 - FirstTouched
    <2>1. Touched # {}
        BY <1>2 DEF Base, ChangeInv
    <2>2. FirstTouched \in Nat
        BY <1>1, <2>1, FirstIs
    <2>3. Len(newOffset) = next - FirstTouched
        BY <1>2 DEF Base, Bounds
    <2>4. QED BY <1>1, <1>2, <2>1, <2>2, <2>3
<1>4. /\ FirstTouched \in DOMAIN view /\ FirstTouched \in Nat /\ Offset \in Nat /\ Offset = view[FirstTouched].offset
      /\ \A i \in DOMAIN view : i < FirstTouched => ~view[i].deleted
    BY <1>1, <1>3, FirstIs
<1>5. /\ size = Len(file) /\ InPlace(file, view, DOMAIN view) /\ InOrder(view, DOMAIN view, size)
      /\ Offset < Len(file)
    BY <1>2, Before
<1>6. /\ \A p \in 1 .. Offset : IsFrom(file, p) => p \in DOMAIN Target /\ IsFrom(Target, p) /\ Comes(p, p)
      /\ \A i \in Done(all) : /\ Place(newOffset, i) + 1 \in DOMAIN Target /\ IsFrom(Target, Place(newOffset, i) + 1)
                              /\ Comes(Place(newOffset, i) + 1, view[i].offset + 1) /\ view[i].offset + 1 > Offset
                              /\ i \in DOMAIN view
      /\ \A p \in DOMAIN Target : IsFrom(Target, p) =>
            \/ p \in 1 .. Offset /\ IsFrom(file, p)
            \/ p > Offset /\ \E i \in Done(all) : p = Place(newOffset, i) + 1
    BY CopyOfStarts
<1>7. CopyOf(tmp, newOffset, all)
    BY CopiedPlaced
<1>8. /\ Sound(file, Safe, delivered, unwanted)
      /\ Shown(file, Len(file), view, DOMAIN view, unwanted \cup Safe)
      /\ \A i \in Marked(view) : Id(view[i]) \in unwanted \cup Safe
    <2>1. pc \in AtRest /\ ~readonly /\ Live = DOMAIN view
        BY <1>2 DEF AtRest, Live, Placed, Control
    <2>2. QED BY <1>2, <1>5, <2>1 DEF AllHeld, SoundInv, ShownInv
<1>9. \A i \in DOMAIN view :
         NewView[i].offset = IF i >= FirstTouched /\ ~view[i].deleted THEN Place(newOffset, i) ELSE view[i].offset
    BY <1>3, NewViewIs DEF Base
<1>10. \A i \in Done(all) : i \in Unmarked(view) /\ i >= FirstTouched /\ i \in DOMAIN view
    BY <1>1, <1>4, <1>6 DEF Done, Unmarked, Marked
<1>11. PICK g : g = Target
    OBVIOUS
<1> HIDE DEF Comes, all
<1>12. ASSUME NEW p \in DOMAIN g, IsFrom(g, p)
       PROVE  \/ p \in 1 .. Offset /\ IsFrom(file, p) /\ Comes(p, p)
              \/ p > Offset /\ \E i \in Done(all) : /\ p = Place(newOffset, i) + 1
                                                    /\ Comes(p, view[i].offset + 1)
                                                    /\ view[i].offset + 1 > Offset
    BY <1>6, <1>11, <1>12
<1>13. Sound(g, Safe, delivered, unwanted)
    <2>1. ASSUME NEW p \in DOMAIN g, IsFrom(g, p)
          PROVE  g[p].msg \in delivered /\ (WholeAt(g, p) \/ g[p].msg \in Safe)
        <3>1. PICK q : Comes(p, q)
            BY <1>12, <2>1
        <3>2. q \in DOMAIN file /\ IsFrom(file, q) /\ g[p].msg = file[q].msg /\ (WholeAt(file, q) => WholeAt(g, p))
            BY <1>11, <3>1 DEF Comes
        <3>3. QED BY <1>8, <3>2 DEF Sound
    <2>2. ASSUME NEW p \in DOMAIN g, NEW q \in DOMAIN g, IsFrom(g, p), IsFrom(g, q), p # q, g[p].msg = g[q].msg
          PROVE  g[p].msg \in Safe
        <3>1. ASSUME NEW a, NEW b, Comes(p, a), Comes(q, b), a # b PROVE g[p].msg \in Safe
            <4>1. /\ a \in DOMAIN file /\ IsFrom(file, a) /\ g[p].msg = file[a].msg
                  /\ b \in DOMAIN file /\ IsFrom(file, b) /\ g[q].msg = file[b].msg
                BY <1>11, <3>1 DEF Comes
            <4>2. QED BY <1>8, <2>2, <3>1, <4>1 DEF Sound
        <3>2. CASE p \in 1 .. Offset /\ Comes(p, p)
            <4>1. CASE q \in 1 .. Offset /\ Comes(q, q)
                BY <2>2, <3>1, <3>2, <4>1
            <4>2. ASSUME NEW j \in Done(all), Comes(q, view[j].offset + 1), view[j].offset + 1 > Offset
                  PROVE  g[p].msg \in Safe
                <5>1. p # view[j].offset + 1
                    BY <1>1, <1>4, <1>10, <3>2, <4>2
                <5>2. QED BY <3>1, <3>2, <4>2, <5>1
            <4>3. QED BY <1>12, <2>2, <4>1, <4>2
        <3>3. ASSUME NEW i \in Done(all), p = Place(newOffset, i) + 1, Comes(p, view[i].offset + 1),
                     view[i].offset + 1 > Offset
              PROVE  g[p].msg \in Safe
            <4>1. CASE q \in 1 .. Offset /\ Comes(q, q)
                <5>1. q # view[i].offset + 1
                    BY <1>1, <1>4, <1>10, <3>3, <4>1
                <5>2. QED BY <3>1, <3>3, <4>1, <5>1
            <4>2. ASSUME NEW j \in Done(all), q = Place(newOffset, j) + 1, Comes(q, view[j].offset + 1)
                  PROVE  g[p].msg \in Safe
                <5>1. i # j /\ i \in DOMAIN view /\ j \in DOMAIN view
                    BY <1>10, <2>2, <3>3, <4>2
                <5>2. view[i].offset < view[j].offset \/ view[j].offset < view[i].offset
                    <6>1. i < j \/ j < i
                        BY <1>1, <5>1
                    <6>2. QED BY <1>5, <5>1, <6>1 DEF InOrder
                <5>3. view[i].offset + 1 # view[j].offset + 1
                    BY <1>1, <5>1, <5>2
                <5>4. QED BY <3>1, <3>3, <4>2, <5>3
            <4>3. QED BY <1>12, <2>2, <4>1, <4>2
        <3>4. QED BY <1>12, <2>2, <3>2, <3>3
    <2>3. ASSUME NEW m \in delivered \ unwanted, m \notin Safe PROVE \E p \in DOMAIN g : IsFrom(g, p) /\ g[p].msg = m
        <3>1. PICK q \in DOMAIN file : IsFrom(file, q) /\ file[q].msg = m
            BY <1>8, <2>3 DEF Sound
        <3>2. CASE q <= Offset
            <4>1. q \in 1 .. Offset
                BY <1>1, <3>2
            <4>2. q \in DOMAIN g /\ IsFrom(g, q) /\ Comes(q, q)
                BY <1>6, <1>11, <3>1, <4>1
            <4>3. g[q].msg = m
                BY <1>11, <3>1, <4>2 DEF Comes
            <4>4. QED BY <4>2, <4>3
        <3>3. CASE q > Offset
            <4>1. PICK i \in DOMAIN view : view[i].offset = q - 1
                <5>1. q <= Len(file) /\ file[q].msg \notin unwanted \cup Safe
                    BY <1>1, <2>3, <3>1
                <5>2. QED BY <1>8, <3>1, <5>1 DEF Shown
            <4>2. view[i].offset + 1 = q
                BY <1>1, <4>1
            <4>3. Id(view[i]) = m
                BY <1>5, <3>1, <4>2, EntriesStart
            <4>4. ~view[i].deleted
                BY <1>8, <2>3, <4>3 DEF Marked
            <4>5. i >= FirstTouched
                <5>1. SUFFICES ASSUME i < FirstTouched PROVE FALSE
                    BY <1>1, <1>4
                <5>2. view[i].offset < Offset
                    BY <1>4, <1>5, <5>1 DEF InOrder
                <5>3. QED BY <1>1, <1>4, <3>3, <4>2, <5>2
            <4>6. i \in Done(all)
                BY <1>1, <1>4, <4>4, <4>5 DEF Done, all
            <4>7. PICK p \in DOMAIN g : IsFrom(g, p) /\ Comes(p, view[i].offset + 1)
                BY <1>6, <1>11, <4>6
            <4>8. g[p].msg = m
                BY <1>11, <3>1, <4>2, <4>7 DEF Comes
            <4>9. QED BY <4>7, <4>8
        <3>4. QED BY <1>1, <1>4, <3>2, <3>3
    <2>4. QED BY <2>1, <2>2, <2>3 DEF Sound
<1>14. Shown(g, Len(g), NewView, Unmarked(view), unwanted \cup Safe)
    <2>1. ASSUME NEW p \in DOMAIN g, IsFrom(g, p), g[p].msg \notin unwanted \cup Safe
          PROVE  \E i \in Unmarked(view) : NewView[i].offset = p - 1
        <3>1. CASE p \in 1 .. Offset /\ IsFrom(file, p) /\ Comes(p, p)
            <4>1. p \in DOMAIN file /\ file[p].msg \notin unwanted \cup Safe /\ p <= Len(file)
                BY <1>1, <1>4, <1>5, <1>11, <2>1, <3>1 DEF Comes
            <4>2. PICK i \in DOMAIN view : view[i].offset = p - 1
                BY <1>8, <3>1, <4>1 DEF Shown
            <4>3. i < FirstTouched
                <5>1. SUFFICES ASSUME i >= FirstTouched PROVE FALSE
                    BY <1>1, <1>4
                <5>2. i = FirstTouched \/ FirstTouched < i
                    BY <1>1, <1>4, <5>1
                <5>3. Offset <= view[i].offset
                    BY <1>1, <1>4, <1>5, <5>2 DEF InOrder
                <5>4. QED BY <1>1, <1>4, <3>1, <4>2, <5>3
            <4>4. NewView[i].offset = p - 1
                <5>1. ~(i >= FirstTouched)
                    BY <1>1, <1>4, <4>3
                <5>2. QED BY <1>9, <4>2, <5>1
            <4>5. i \in Unmarked(view)
                BY <1>4, <4>3 DEF Unmarked, Marked
            <4>6. QED BY <4>4, <4>5
        <3>2. ASSUME NEW i \in Done(all), p = Place(newOffset, i) + 1
              PROVE  \E k \in Unmarked(view) : NewView[k].offset = p - 1
            <4>1. i \in Unmarked(view) /\ i >= FirstTouched /\ i \in DOMAIN view /\ ~view[i].deleted
                BY <1>10 DEF Unmarked, Marked
            <4>2. NewView[i].offset = Place(newOffset, i)
                BY <1>9, <4>1
            <4>3. Place(newOffset, i) \in Nat
                BY <1>3, <4>1, NewViewIs DEF Base
            <4>4. NewView[i].offset = p - 1
                BY <3>2, <4>2, <4>3
            <4>5. QED BY <4>1, <4>4
        <3>3. QED BY <1>12, <2>1, <3>1, <3>2
    <2>2. QED BY <2>1 DEF Shown
<1>15. Touched' = Touched /\ FirstTouched' = FirstTouched /\ Offset' = Offset
    BY <1>2 DEF Touched, FirstTouched, Offset
<1>16. Target' = g /\ NewView' = NewView /\ Unmarked(view)' = Unmarked(view) /\ Marked(view)' = Marked(view)
    BY <1>2, <1>11, <1>15 DEF Target, NewView, Place, Unmarked, Marked
<1>17. Safe' = Safe
    BY <1>2 DEF Safe
<1>18. SoundInv'
    <2>1. Sound(file, Safe \cup Recoverable(tmp), delivered, unwanted)
        BY <1>8, SoundGrows
    <2>2. Recoverable(tmp)' = Recoverable(tmp)
        BY <1>2 DEF Recoverable, Intact
    <2>3. QED BY <1>2, <1>13, <1>16, <1>17, <2>1, <2>2 DEF SoundInv
<1>19. ShownInv'
    <2>1. \A i \in Marked(view)' : Id(view'[i]) \in unwanted' \cup Safe'
        BY <1>2, <1>8, <1>16, <1>17
    <2>2. Shown(Target, Len(Target), NewView, Unmarked(view), unwanted \cup Safe)'
        BY <1>2, <1>14, <1>16, <1>17 DEF Shown
    <2>3. QED BY <1>2, <2>1, <2>2 DEF ShownInv, AtRest
<1>20. QED BY <1>18, <1>19 DEF AllHeld

\* Every block that is written back leaves what starts in the file whole, or it
\* is whole in the copy.
LEMMA WriteBackHeld ==
    ASSUME Base, Placed, AllHeld, UNCHANGED env, WriteBack
    PROVE  AllHeld'
<1>1. /\ file \in Seq(Block) /\ Len(file) \in Nat /\ view \in Seq(Entry) /\ tmp \in Seq(Block)
      /\ Len(tmp) \in Nat /\ next \in Nat /\ DOMAIN file = 1 .. Len(file) /\ DOMAIN tmp = 1 .. Len(tmp)
    BY SeqTypes DEF Base
<1>2. /\ pc = "write" /\ pc' = "write" /\ next' = next + 1
      /\ UNCHANGED <<delivered, view, changed, readonly, size, tmp, newOffset, unwanted, savefile, saved>>
    BY DEF WriteBack, viewVars, histVars
<1>3. /\ Base' /\ Touched # {} /\ next < Len(tmp) /\ Offset + next <= Len(file)
      /\ Len(file') = IF Offset + next < Len(file) THEN Len(file) ELSE Len(file) + 1
      /\ file'[Offset + next + 1] = tmp[next + 1]
      /\ \A k \in DOMAIN file : k # Offset + next + 1 => file'[k] = file[k]
    BY WriteBackKeepsBase
<1>4. PICK o \in Nat : o = Offset
    BY <1>1, <1>3, FirstIs
<1>5. PICK n \in Nat : n = o + next + 1
    BY <1>1
<1>6. PICK f \in Seq(Block) : f = file'
    BY <1>3 DEF Base, TypeOK
<1>7. PICK g : g = Target
    OBVIOUS
<1>31. PICK e \in Nat : e = Len(file)
    BY <1>1
<1>32. PICK w \in Nat : w = Len(tmp)
    BY <1>1
<1>33. PICK x \in Nat : x = next
    BY <1>1
<1>34. n = o + x + 1 /\ x < w /\ o + x <= e
    BY <1>3, <1>4, <1>5, <1>31, <1>32, <1>33
<1>35. o < n /\ o <= e /\ n \in Nat
    BY <1>34
<1>36. PICK h \in Nat : h = Len(f)
    BY <1>6
<1>37. h = IF o + x < e THEN e ELSE e + 1
    BY <1>3, <1>4, <1>6, <1>31, <1>33, <1>36
<1>38. n <= h /\ e <= h /\ (n <= e => h = e) /\ (n > e => h = n)
    BY <1>34, <1>37
<1>39. DOMAIN file = 1 .. e /\ DOMAIN tmp = 1 .. w /\ DOMAIN f = 1 .. h
    BY <1>1, <1>6, <1>31, <1>32, <1>36
<1>8. \A k \in 1 .. e : k # n => f[k] = file[k]
    BY <1>3, <1>4, <1>5, <1>6, <1>39
<1>40. o <= Len(file) /\ g = SubSeq(file, 1, o) \o tmp
    BY <1>4, <1>7, <1>31, <1>35 DEF Target
<1>41. /\ g \in Seq(Block) /\ Len(g) = o + Len(tmp)
       /\ \A k \in 1 .. o : g[k] = file[k]
       /\ \A k \in DOMAIN tmp : g[o + k] = tmp[k]
    BY <1>1, <1>4, <1>40, Shifted
<1>42. PICK z \in Nat : z = Len(g) /\ z = o + w
    BY <1>32, <1>41
<1>43. DOMAIN g = 1 .. z
    BY <1>41, <1>42
<1>44. n <= z
    BY <1>34, <1>42
<1>9. (\A k \in 1 .. o : g[k] = file[k]) /\ \A k \in 1 .. w : g[o + k] = tmp[k]
    BY <1>39, <1>41
<1>10. IsFrom(g, o + 1)
    <2>1. tmp # <<>> /\ 1 \in 1 .. w
        BY <1>32, <1>33, <1>34
    <2>2. tmp[1].part = 1
        BY <1>2, <2>1 DEF Placed, WriteInv, IsFrom
    <2>3. g[o + 1] = tmp[1]
        BY <1>9, <2>1
    <2>4. o + 1 \in DOMAIN g
        BY <1>35, <1>43, <1>44
    <2>5. QED BY <2>2, <2>3, <2>4 DEF IsFrom
<1>11. \A k \in 1 .. n : f[k] = g[k]
    <2>1. SUFFICES ASSUME NEW k \in 1 .. n PROVE f[k] = g[k]
        OBVIOUS
    <2>2. CASE k <= o
        <3>1. k \in 1 .. e /\ k # n /\ k \in 1 .. o
            BY <1>35, <2>2
        <3>2. QED BY <1>8, <1>9, <3>1
    <2>3. CASE k > o /\ k < n
        <3>1. k - o \in 1 .. x /\ k = o + (k - o)
            BY <1>34, <2>3
        <3>2. PICK j \in 1 .. x : k = o + j
            BY <3>1
        <3>3. k \in 1 .. e /\ k # n /\ j \in 1 .. w
            BY <1>34, <2>3, <3>2
        <3>4. file[o + j] = tmp[j]
            BY <1>2, <1>4, <1>33, <3>2 DEF Placed, WriteInv
        <3>5. QED BY <1>8, <1>9, <3>2, <3>3, <3>4
    <2>4. CASE k = n
        <3>1. x + 1 \in 1 .. w /\ n = o + (x + 1)
            BY <1>34
        <3>2. f[n] = tmp[x + 1]
            BY <1>3, <1>4, <1>5, <1>6, <1>33
        <3>3. g[o + (x + 1)] = tmp[x + 1]
            BY <1>9, <3>1
        <3>4. QED BY <2>4, <3>1, <3>2, <3>3
    <2>5. k \in Nat
        OBVIOUS
    <2>6. k <= o \/ (k > o /\ k < n) \/ k = n
        BY <1>35, <2>5
    <2>7. QED BY <2>2, <2>3, <2>4, <2>6
<1>12. PICK safe : safe = Safe \cup Recoverable(tmp)
    OBVIOUS
<1>13. Sound(g, Safe, delivered, unwanted) /\ Sound(file, safe, delivered, unwanted) /\ Safe \subseteq safe
    BY <1>2, <1>7, <1>12 DEF AllHeld, SoundInv
<1>14. ASSUME NEW p \in DOMAIN g, p > o, IsFrom(g, p) PROVE g[p].msg \in safe
    <2>1. WholeAt(g, p) \/ g[p].msg \in Safe
        BY <1>13, <1>14 DEF Sound
    <2>2. SUFFICES ASSUME WholeAt(g, p) PROVE g[p].msg \in Recoverable(tmp)
        BY <1>12, <2>1
    <2>12. p \in 1 .. z
        BY <1>43
    <2>13. p - o \in 1 .. w /\ p = o + (p - o)
        BY <1>14, <1>42, <2>12
    <2>3. PICK r \in 1 .. w : p = o + r
        BY <2>13
    <2>4. r \in DOMAIN tmp /\ g[p] = tmp[r] /\ tmp[r] \in Block
        BY <1>1, <1>9, <1>39, <2>3
    <2>5. PICK m \in Message : m = tmp[r].msg
        BY <2>4 DEF Block
    <2>6. PICK l \in Nat : l = Length[m]
        BY TextIs
    <2>7. p + l <= z + 1 /\ \A k \in 1 .. l : g[p + k - 1] = [msg |-> m, part |-> k]
        BY <1>42, <2>2, <2>4, <2>5, <2>6 DEF WholeAt
    <2>14. p + l <= z + 1
        BY <2>7
    <2>9. r + l <= w + 1
        BY <1>42, <2>3, <2>14
    <2>8. ASSUME NEW k \in 1 .. l PROVE tmp[r + k - 1] = [msg |-> m, part |-> k]
        <3>1. r + k - 1 \in 1 .. w /\ o + (r + k - 1) = p + k - 1
            BY <2>3, <2>9
        <3>2. g[o + (r + k - 1)] = tmp[r + k - 1]
            BY <1>9, <3>1
        <3>3. QED BY <2>7, <3>1, <3>2
    <2>10. WholeAt(tmp, r)
        BY <1>32, <2>5, <2>6, <2>8, <2>9 DEF WholeAt
    <2>11. QED BY <1>1, <2>4, <2>10, WholeRecoverable
\* What starts in the new file.
<1>15. ASSUME NEW p \in DOMAIN f, IsFrom(f, p)
       PROVE  \/ p <= n /\ p \in DOMAIN g /\ f[p] = g[p] /\ IsFrom(g, p)
              \/ p > n /\ p \in DOMAIN file /\ f[p] = file[p] /\ IsFrom(file, p)
    <2>4. p \in 1 .. h /\ p \in Nat
        BY <1>39
    <2>1. CASE p <= n
        <3>1. p \in 1 .. n /\ p \in 1 .. z
            BY <1>44, <2>1, <2>4
        <3>2. f[p] = g[p] /\ p \in DOMAIN g
            BY <1>11, <1>43, <3>1
        <3>3. QED BY <1>15, <2>1, <3>2 DEF IsFrom
    <2>2. CASE p > n
        <3>1. p \in 1 .. e /\ p # n
            BY <1>38, <2>2, <2>4
        <3>2. f[p] = file[p] /\ p \in DOMAIN file
            BY <1>8, <1>39, <3>1
        <3>3. QED BY <1>15, <2>2, <3>2 DEF IsFrom
    <2>3. QED BY <1>35, <2>1, <2>2, <2>4
<1>16. ASSUME NEW p \in DOMAIN f, IsFrom(f, p) PROVE f[p].msg \in delivered /\ (WholeAt(f, p) \/ f[p].msg \in safe)
    <2>4. p \in Nat
        BY <1>39
    <2>1. CASE p <= n /\ p \in DOMAIN g /\ f[p] = g[p] /\ IsFrom(g, p)
        <3>1. g[p].msg \in delivered /\ (WholeAt(g, p) \/ g[p].msg \in Safe)
            BY <1>13, <2>1 DEF Sound
        <3>2. CASE p > o
            BY <1>14, <2>1, <3>1, <3>2
        <3>3. CASE p <= o /\ WholeAt(g, p)
            <4>1. PICK q \in DOMAIN g : q = o + 1
                BY <1>10 DEF IsFrom
            <4>2. p < q /\ IsFrom(g, q)
                BY <1>10, <2>4, <3>3, <4>1
            <4>3. p + Length[g[p].msg] <= q
                BY <1>41, <2>1, <3>3, <4>2, WholeBefore
            <4>4. p + Length[g[p].msg] <= o + 1 /\ o <= Len(f)
                BY <1>35, <1>36, <1>38, <4>1, <4>3
            <4>5. ASSUME NEW k \in p .. o PROVE f[k] = g[k]
                <5>1. k \in 1 .. n
                    BY <1>35, <1>39, <2>4
                <5>2. QED BY <1>11, <5>1
            <4>6. WholeAt(f, p)
                BY <1>41, <2>1, <3>3, <4>4, <4>5, StillWhole
            <4>7. QED BY <2>1, <3>1, <4>6
        <3>4. p > o \/ p <= o
            BY <1>35, <2>4
        <3>5. QED BY <1>13, <2>1, <3>1, <3>2, <3>3, <3>4
    <2>2. CASE p > n /\ p \in DOMAIN file /\ f[p] = file[p] /\ IsFrom(file, p)
        <3>1. file[p].msg \in delivered /\ (WholeAt(file, p) \/ file[p].msg \in safe)
            BY <1>13, <2>2 DEF Sound
        <3>2. ASSUME WholeAt(file, p) PROVE WholeAt(f, p)
            <4>1. p + Length[file[p].msg] <= e + 1 /\ e <= Len(f)
                BY <1>31, <1>36, <1>38, <3>2 DEF WholeAt
            <4>2. ASSUME NEW k \in p .. e PROVE f[k] = file[k]
                <5>1. k \in 1 .. e /\ k # n
                    BY <1>35, <1>39, <2>2, <2>4
                <5>2. QED BY <1>8, <5>1
            <4>3. QED BY <1>1, <2>2, <3>2, <4>1, <4>2, StillWhole
        <3>3. QED BY <2>2, <3>1, <3>2
    <2>3. QED BY <1>15, <1>16, <2>1, <2>2
<1>17. ASSUME NEW p \in DOMAIN f, NEW q \in DOMAIN f, IsFrom(f, p), IsFrom(f, q), p < q, f[p].msg = f[q].msg
       PROVE  f[p].msg \in safe
    <2>4. p \in 1 .. h /\ q \in 1 .. h /\ p \in Nat /\ q \in Nat
        BY <1>39
    <2>1. CASE q <= n
        <3>1. ~(p > n) /\ ~(q > n)
            BY <1>17, <1>35, <2>1, <2>4
        <3>2. /\ p \in DOMAIN g /\ f[p] = g[p] /\ IsFrom(g, p)
              /\ q \in DOMAIN g /\ f[q] = g[q] /\ IsFrom(g, q)
            BY <1>15, <1>17, <3>1
        <3>3. p # q
            BY <1>17, <2>4
        <3>4. f[p].msg \in Safe
            BY <1>13, <1>17, <3>2, <3>3 DEF Sound
        <3>5. QED BY <1>13, <3>4
    <2>2. CASE q > n
        <3>5. ~(q <= n)
            BY <1>35, <2>2, <2>4
        <3>1. q \in DOMAIN file /\ f[q] = file[q] /\ IsFrom(file, q)
            BY <1>15, <1>17, <3>5
        <3>2. CASE p > o /\ p <= n
            <4>1. ~(p > n)
                BY <1>35, <2>4, <3>2
            <4>2. p \in DOMAIN g /\ f[p] = g[p] /\ IsFrom(g, p)
                BY <1>15, <1>17, <4>1
            <4>3. QED BY <1>14, <3>2, <4>2
        <3>3. CASE p <= o \/ p > n
            <4>1. p \in 1 .. e /\ p # n
                BY <1>17, <1>35, <1>38, <2>2, <2>4, <3>3
            <4>2. p \in DOMAIN file /\ f[p] = file[p]
                BY <1>8, <1>39, <4>1
            <4>3. IsFrom(file, p)
                BY <1>17, <4>2 DEF IsFrom
            <4>4. p # q
                BY <1>17, <2>4
            <4>5. QED BY <1>13, <1>17, <3>1, <4>2, <4>3, <4>4 DEF Sound
        <3>4. QED BY <1>35, <2>4, <3>2, <3>3
    <2>3. QED BY <1>35, <2>1, <2>2, <2>4
<1>18. ASSUME NEW m \in delivered \ unwanted, m \notin safe PROVE \E p \in DOMAIN f : IsFrom(f, p) /\ f[p].msg = m
    <2>1. PICK p \in DOMAIN g : IsFrom(g, p) /\ g[p].msg = m
        BY <1>13, <1>18 DEF Sound
    <2>2. ~(p > o)
        BY <1>14, <1>18, <2>1
    <2>3. p \in Nat /\ p > 0
        BY <1>43
    <2>4. p \in 1 .. n /\ p \in DOMAIN f
        BY <1>35, <1>38, <1>39, <2>2, <2>3
    <2>5. f[p] = g[p]
        BY <1>11, <2>4
    <2>6. QED BY <2>1, <2>4, <2>5 DEF IsFrom
<1>19. Sound(f, safe, delivered, unwanted)
    <2>1. ASSUME NEW p \in DOMAIN f, NEW q \in DOMAIN f, IsFrom(f, p), IsFrom(f, q), p # q, f[p].msg = f[q].msg
          PROVE  f[p].msg \in safe
        <3>1. p < q \/ q < p
            <4>1. p \in Nat /\ q \in Nat
                BY <1>39
            <4>2. QED BY <2>1, <4>1
        <3>2. QED BY <1>17, <2>1, <3>1
    <2>2. QED BY <1>16, <1>18, <2>1 DEF Sound
<1>20. Touched' = Touched /\ FirstTouched' = FirstTouched /\ Offset' = Offset
    BY <1>2 DEF Touched, FirstTouched, Offset
<1>21. Target' = g /\ NewView' = NewView /\ Unmarked(view)' = Unmarked(view) /\ Marked(view)' = Marked(view)
    <2>1. Target' = Target
        BY WriteBackPlaced
    <2>2. QED BY <1>2, <1>7, <1>20, <2>1 DEF NewView, Place, Unmarked, Marked
<1>22. Safe' = Safe /\ (Safe \cup Recoverable(tmp))' = safe
    BY <1>2, <1>12 DEF Safe, Recoverable, Intact
<1>23. SoundInv'
    BY <1>2, <1>6, <1>13, <1>19, <1>21, <1>22 DEF SoundInv
<1>24. ShownInv'
    <2>1. \A i \in Marked(view)' : Id(view'[i]) \in unwanted' \cup Safe'
        BY <1>2, <1>21, <1>22 DEF AllHeld, ShownInv
    <2>2. Shown(g, Len(g), NewView, Unmarked(view), unwanted \cup Safe)
        BY <1>2, <1>7 DEF AllHeld, ShownInv
    <2>3. Shown(Target, Len(Target), NewView, Unmarked(view), unwanted \cup Safe)'
        BY <1>2, <1>21, <1>22, <2>2 DEF Shown
    <2>4. QED BY <1>2, <2>1, <2>3 DEF ShownInv, AtRest
<1>25. QED BY <1>23, <1>24 DEF AllHeld

\* With the end of the file what is left is what the copy was made for.
LEMMA TruncateHeld ==
    ASSUME Base, Placed, AllHeld, UNCHANGED env, Truncate
    PROVE  AllHeld'
<1>1. /\ pc = "write" /\ pc' = "commit"
      /\ UNCHANGED <<delivered, view, tmp, newOffset, unwanted, savefile, saved>>
    BY DEF Truncate, syncVars, histVars
<1>2. file' = Target
    BY TruncatePlaced
<1>3. Touched' = Touched /\ FirstTouched' = FirstTouched
    BY <1>1 DEF Touched, FirstTouched
<1>4. NewView' = NewView /\ Unmarked(view)' = Unmarked(view) /\ Marked(view)' = Marked(view) /\ Safe' = Safe
    BY <1>1, <1>3 DEF NewView, Place, Unmarked, Marked, Safe
<1>5. Sound(Target, Safe, delivered, unwanted)
    BY <1>1 DEF AllHeld, SoundInv
<1>6. SoundInv'
    <2>1. Sound(file', Safe', delivered', unwanted')
        BY <1>1, <1>2, <1>4, <1>5
    <2>2. QED BY <1>1, <2>1 DEF SoundInv, Sound, IsFrom, WholeAt
<1>7. ShownInv'
    <2>1. \A i \in Marked(view)' : Id(view'[i]) \in unwanted' \cup Safe'
        BY <1>1, <1>4 DEF AllHeld, ShownInv
    <2>2. Shown(Target, Len(Target), NewView, Unmarked(view), unwanted \cup Safe)
        BY <1>1 DEF AllHeld, ShownInv
    <2>3. Shown(file, Len(file), NewView, Unmarked(view), unwanted \cup Safe)'
        BY <1>1, <1>2, <1>4, <2>2 DEF Shown, IsFrom
    <2>4. QED BY <1>1, <2>1, <2>3 DEF ShownInv, AtRest
<1>8. QED BY <1>6, <1>7 DEF AllHeld

LEMMA CommitHeld ==
    ASSUME Base, Placed, AllHeld, UNCHANGED env, Commit
    PROVE  AllHeld'
<1>1. /\ pc = "commit" /\ pc' = "synced" /\ view' = NewView
      /\ UNCHANGED <<file, delivered, changed, readonly, size, unwanted, savefile, saved>>
    BY CommitKeepsBase DEF Commit, fileVars, histVars
<1>2. size = Len(file)
    BY <1>1 DEF Placed, SizeInv
<1>3. Touched # {} /\ Len(newOffset) = Len(view) + 1 - FirstTouched
    BY <1>1 DEF Base, Bounds
<1>4. /\ DOMAIN NewView = DOMAIN view
      /\ \A i \in DOMAIN view : NewView[i].deleted = view[i].deleted /\ NewView[i].text = view[i].text
    BY <1>3, NewViewIs DEF Base
<1>5. Unmarked(NewView) = Unmarked(view) /\ Marked(NewView) = Marked(view)
    BY <1>4 DEF Unmarked, Marked
<1>6. Safe' = Safe
    BY <1>1 DEF Safe
<1>7. Live' = Unmarked(view)
    <2>1. Live' = Unmarked(view')
        BY <1>1 DEF Live, Unmarked, Marked
    <2>2. QED BY <1>1, <1>5, <2>1
<1>8. SoundInv'
    BY <1>1, <1>6 DEF AllHeld, SoundInv
<1>9. ShownInv'
    <2>1. \A i \in Marked(view) : Id(view[i]) \in unwanted \cup Safe
        BY DEF AllHeld, ShownInv
    <2>2. ASSUME NEW i \in Marked(view') PROVE Id(view'[i]) \in unwanted \cup Safe
        <3>1. i \in Marked(view) /\ i \in DOMAIN view
            BY <1>1, <1>5, <2>2 DEF Marked
        <3>2. Id(view'[i]) = Id(view[i])
            BY <1>1, <1>4, <3>1 DEF Id
        <3>3. QED BY <2>1, <3>1, <3>2
    <2>3. Shown(file, Len(file), NewView, Unmarked(view), unwanted \cup Safe)
        BY <1>1 DEF AllHeld, ShownInv
    <2>4. Shown(file, size, view, Live, unwanted \cup Safe)'
        BY <1>1, <1>2, <1>6, <1>7, <2>3 DEF Shown
    <2>5. \A i \in Marked(view)' : Id(view'[i]) \in unwanted' \cup Safe'
        BY <1>1, <1>6, <2>2 DEF Marked
    <2>6. QED BY <1>1, <2>4, <2>5 DEF ShownInv
<1>10. QED BY <1>8, <1>9 DEF AllHeld

LEMMA HeldStep ==
    ASSUME FileLock, OneFailure, Base, PlaceInv, KeptInv, [Next]_vars
    PROVE  KeptInv'
<1>1. CASE UNCHANGED vars
    <2>1. UNCHANGED <<env, file, delivered, pc, view, readonly, size, tmp, newOffset, unwanted, savefile, saved>>
        BY <1>1 DEF vars, fileVars, viewVars, syncVars, histVars
    <2>2. Touched' = Touched /\ FirstTouched' = FirstTouched /\ Offset' = Offset /\ Live' = Live
        BY <2>1 DEF Touched, FirstTouched, Offset, Live, Unmarked, Marked
    <2>3. /\ Target' = Target /\ NewView' = NewView /\ Unmarked(view)' = Unmarked(view)
          /\ Marked(view)' = Marked(view) /\ Safe' = Safe
        BY <2>1, <2>2 DEF Target, NewView, Place, Unmarked, Marked, Safe
    <2>4. Recoverable(tmp)' = Recoverable(tmp)
        BY <2>1 DEF Recoverable, Intact
    <2>5. SoundInv' = SoundInv
        BY <2>1, <2>3, <2>4 DEF SoundInv
    <2>6. ShownInv' = ShownInv
        BY <2>1, <2>2, <2>3 DEF ShownInv, Shown
    <2>7. QED BY <2>1, <2>5, <2>6 DEF KeptInv, AllHeld, OnlyDeliveries
<1>2. CASE Next
    <2>1. UNCHANGED env
        BY <1>2 DEF Next
    <2>2. SUFFICES ASSUME ~env.rewrite, env.saveEmpty PROVE AllHeld'
        BY <2>1 DEF KeptInv, OnlyDeliveries
    <2>3. Placed /\ AllHeld
        BY <2>2 DEF PlaceInv, KeptInv, OnlyDeliveries
    <2>4. ~env.failAgain
        BY <2>2 DEF OneFailure, Base, TypeOK
    <2>5. CASE SimpleStep \/ Copy
        BY <2>3, <2>5, SimpleHeld
    <2>6. CASE LookStep \/ Bail
        BY <2>3, <2>6, LookHeld
    <2>7. CASE EndStep
        BY <2>2, <2>3, <2>4, <2>7, EndHeld
    <2>8. ASSUME NEW m \in Message, Deliver(m) PROVE AllHeld'
        BY <2>3, <2>8, DeliverHeld
    <2>9. ASSUME NEW i \in DOMAIN Parse(file, 0), Expunge(Parse(file, 0)[i]) PROVE AllHeld'
        BY <2>2, <2>9 DEF Expunge
    <2>10. ASSUME NEW i, NEW d \in BOOLEAN, Mark(i, d) PROVE AllHeld'
        BY <2>3, <2>10, UserHeld
    <2>11. ASSUME NEW i, Flag(i) PROVE AllHeld'
        BY <2>3, <2>11, UserHeld
    <2>12. ASSUME NEW o \in {"sync", "close"}, NEW q \in BOOLEAN, Begin(o, q) PROVE AllHeld'
        BY <2>3, <2>12, UserHeld
    <2>13. CASE Copied
        BY <2>1, <2>3, <2>13, CopiedHeld
    <2>14. CASE WriteBack
        BY <2>1, <2>3, <2>14, WriteBackHeld
    <2>15. CASE Truncate
        BY <2>1, <2>3, <2>15, TruncateHeld
    <2>16. CASE Commit
        BY <2>1, <2>3, <2>16, CommitHeld
    <2>17. QED BY <1>2, <2>5, <2>6, <2>7, <2>8, <2>9, <2>10, <2>11, <2>12, <2>13, <2>14, <2>15, <2>16, Steps
<1>3. QED BY <1>1, <1>2

LEMMA HeldInit ==
    ASSUME Init
    PROVE  KeptInv
<1>1. file = <<>> /\ delivered = {} /\ view = <<>> /\ pc = "closed"
    BY DEF Init
<1>2. Sound(file, Safe, delivered, unwanted)
    BY <1>1 DEF Sound
<1>3. Marked(view) = {}
    BY <1>1 DEF Marked
<1>4. SoundInv /\ ShownInv
    BY <1>1, <1>2, <1>3 DEF SoundInv, ShownInv, AtRest
<1>5. QED BY <1>4 DEF KeptInv, AllHeld

LEMMA HeldShows ==
    ASSUME Base, KeptInv
    PROVE  NoMailLost
<1>1. SUFFICES ASSUME OnlyDeliveries, env.saveEmpty, NEW m \in delivered \ unwanted
               PROVE  Kept(m)
    BY DEF NoMailLost
<1>2. PICK safe : safe = IF pc = "write" THEN Safe \cup Recoverable(tmp) ELSE Safe
    OBVIOUS
<1>3. Sound(file, safe, delivered, unwanted)
    BY <1>1, <1>2 DEF KeptInv, AllHeld, SoundInv
<1>4. safe \subseteq Recoverable(tmp) \cup savefile \cup saved
    BY <1>2 DEF Safe
<1>5. CASE m \in safe
    BY <1>4, <1>5 DEF Kept
<1>6. ASSUME NEW p \in DOMAIN file, IsFrom(file, p), file[p].msg = m
      PROVE  Kept(m)
    <2>1. WholeAt(file, p) \/ m \in safe
        BY <1>3, <1>6 DEF Sound
    <2>2. file \in Seq(Block)
        BY DEF Base, TypeOK
    <2>3. WholeAt(file, p) => m \in Recoverable(file)
        BY <1>6, <2>2, WholeRecoverable
    <2>4. QED BY <1>5, <2>1, <2>3 DEF Kept
<1>7. QED BY <1>1, <1>3, <1>5, <1>6 DEF Sound

\* Through mbox_mbox_open(), mbox_mbox_check(), mbox_mbox_sync() and the close,
\* next to deliveries, with $save_empty and while no more than one write-back
\* fails in a process, a message that nobody deleted is whole in the file, in
\* the temporary file or in a copy that was left behind, whenever NeoMutt dies.
THEOREM MailIsKept ==
    ASSUME FileLock, OneFailure
    PROVE  Spec => []NoMailLost
<1>1. Init => Base /\ PlaceInv /\ KeptInv
    BY BaseInit, PlacedInit, HeldInit
<1>2. Base /\ PlaceInv /\ KeptInv /\ [Next]_vars => (Base /\ PlaceInv /\ KeptInv)'
    BY BaseStep, PlacedStep, HeldStep
<1>3. Base /\ PlaceInv /\ KeptInv => NoMailLost
    BY HeldShows
<1>4. QED BY <1>1, <1>2, <1>3, PTL DEF Spec

-----------------------------------------------------------------------------
(* A sync writes the view *)

\* The texts that a sync has copied when it has passed the entry k.
Written(k) == FlattenSeq(UnmarkedTexts(SubSeq(view, FirstTouched, k)))

\* The copy is the texts it has passed, and the file behind the first change is
\* the copy in the end.
CopyHas ==
    /\ pc = "copy" /\ next # 0 => tmp = Written(next - 1)
    /\ pc = "write" => tmp = Written(Len(view))
    /\ pc = "commit" => Chunk(file, Offset, Len(file)) = Written(Len(view))

WrittenInv == OnlyDeliveries => CopyHas

\* The loop of FlattenSeq() exists.
LEMMA FlattenSteps ==
    ASSUME NEW s, Len(s) \in Nat \ {0}
    PROVE  \E g : /\ g[1] = s[1] /\ FlattenSeq(s) = g[Len(s)]
                  /\ \A i \in 1 .. Len(s) : i # 1 => g[i] = g[i-1] \o s[i]
<1> DEFINE n == Len(s)
           To(g, k) == [i \in 1 .. k |-> IF i = 1 THEN s[i] ELSE g[i-1] \o s[i]]
           D == {k \in Nat : \E g : g = To(g, k)}
<1>1. n \in D
    <2>1. 0 \in D
        <3>1. <<>> = To(<<>>, 0)
            OBVIOUS
        <3>2. QED BY <3>1
    <2>2. ASSUME NEW k \in Nat, k \in D PROVE k + 1 \in D
        <3>1. PICK g : g = To(g, k)
            BY <2>2
        <3> DEFINE last == IF k = 0 THEN s[k + 1] ELSE g[k] \o s[k + 1]
                   h == [i \in 1 .. k + 1 |-> IF i = k + 1 THEN last ELSE g[i]]
        <3>2. h = To(h, k + 1)
            <4>1. \A i \in 1 .. k : g[i] = To(g, k)[i]
                BY <3>1
            <4>2. ASSUME NEW i \in 1 .. k + 1 PROVE h[i] = To(h, k + 1)[i]
                <5>1. To(h, k + 1)[i] = IF i = 1 THEN s[i] ELSE h[i-1] \o s[i]
                    OBVIOUS
                <5>2. i # 1 => i - 1 \in 1 .. k /\ h[i-1] = g[i-1]
                    OBVIOUS
                <5>3. CASE i = k + 1
                    BY <5>1, <5>2, <5>3
                <5>4. CASE i # k + 1
                    <6>1. i \in 1 .. k /\ h[i] = g[i]
                        BY <5>4
                    <6>2. g[i] = IF i = 1 THEN s[i] ELSE g[i-1] \o s[i]
                        BY <4>1, <6>1
                    <6>3. QED BY <5>1, <5>2, <6>1, <6>2
                <5>5. QED BY <5>3, <5>4
            <4>3. h = [i \in 1 .. k + 1 |-> h[i]]
                OBVIOUS
            <4>4. To(h, k + 1) = [i \in 1 .. k + 1 |-> To(h, k + 1)[i]]
                OBVIOUS
            <4> HIDE DEF h, To
            <4>5. QED BY <4>2, <4>3, <4>4
        <3> HIDE DEF h, To
        <3>3. k + 1 \in Nat /\ \E f : f = To(f, k + 1)
            BY <3>2
        <3>4. QED BY <3>3
    <2> HIDE DEF D
    <2>3. QED BY <2>1, <2>2, NatSetInduction
<1> DEFINE flatten == CHOOSE g : g = To(g, n)
<1>2. FlattenSeq(s) = flatten[n]
    BY DEF FlattenSeq
<1>3. flatten = To(flatten, n)
    BY <1>1
<1> HIDE DEF flatten
<1>4. ASSUME NEW i \in 1 .. n PROVE flatten[i] = IF i = 1 THEN s[i] ELSE flatten[i-1] \o s[i]
    <2>1. flatten[i] = To(flatten, n)[i]
        BY <1>3
    <2>2. QED BY <2>1
<1>5. 1 \in 1 .. n
    OBVIOUS
<1>6. QED BY <1>2, <1>4, <1>5

\* One more text goes behind the others.
LEMMA FlattenAppend ==
    ASSUME NEW S, NEW s \in Seq(Seq(S)), NEW x \in Seq(S)
    PROVE  FlattenSeq(Append(s, x)) = FlattenSeq(s) \o x
<1>1. PICK t : t = Append(s, x)
    OBVIOUS
<1>2. PICK n : n = Len(s)
    OBVIOUS
<1>3. n \in Nat /\ Len(t) = n + 1 /\ t[n + 1] = x /\ \A i \in 1 .. n : t[i] = s[i]
    BY <1>1, <1>2
<1>4. Len(t) \in Nat \ {0}
    BY <1>3
<1>5. PICK h : /\ h[1] = t[1] /\ FlattenSeq(t) = h[Len(t)]
               /\ \A i \in 1 .. Len(t) : i # 1 => h[i] = h[i-1] \o t[i]
    BY <1>4, FlattenSteps
<1>6. CASE n = 0
    <2>1. s = <<>>
        <3>1. s \in Seq(Seq(S)) /\ Len(s) = 0
            BY <1>2, <1>6
        <3>2. QED BY <3>1, EmptySeq
    <2>2. FlattenSeq(s) = <<>>
        BY <2>1 DEF FlattenSeq
    <2>3. FlattenSeq(t) = x
        BY <1>3, <1>5, <1>6
    <2>4. <<>> \o x = x
        OBVIOUS
    <2>5. QED BY <1>1, <2>2, <2>3, <2>4
<1>7. CASE n # 0
    <2>1. Len(s) \in Nat \ {0}
        BY <1>2, <1>3, <1>7
    <2>2. PICK g : /\ g[1] = s[1] /\ FlattenSeq(s) = g[Len(s)]
                   /\ \A i \in 1 .. Len(s) : i # 1 => g[i] = g[i-1] \o s[i]
        BY <2>1, FlattenSteps
    <2> DEFINE T == {k \in Nat : k \in 1 .. n => h[k] = g[k]}
    <2>3. n \in T
        <3>1. 0 \in T
            OBVIOUS
        <3>2. ASSUME NEW k \in Nat, k \in T PROVE k + 1 \in T
            <4>1. SUFFICES ASSUME k + 1 \in 1 .. n PROVE h[k + 1] = g[k + 1]
                OBVIOUS
            <4>2. t[k + 1] = s[k + 1]
                BY <1>3, <4>1
            <4>3. CASE k = 0
                BY <1>5, <2>2, <4>2, <4>3
            <4>4. CASE k # 0
                <5>1. k \in 1 .. n /\ k + 1 \in 1 .. Len(t) /\ k + 1 # 1 /\ (k + 1) - 1 = k
                    BY <1>3, <4>1, <4>4
                <5>2. h[k] = g[k]
                    BY <3>2, <5>1
                <5>3. h[k + 1] = h[k] \o t[k + 1]
                    BY <1>5, <5>1
                <5>4. g[k + 1] = g[k] \o s[k + 1]
                    BY <1>2, <2>2, <4>1, <5>1
                <5>5. QED BY <4>2, <5>2, <5>3, <5>4
            <4>5. QED BY <4>3, <4>4
        <3> HIDE DEF T
        <3>3. Nat \subseteq T
            BY <3>1, <3>2, NatSetInduction
        <3>4. QED BY <1>3, <3>3
    <2>4. h[n] = g[n]
        BY <1>3, <1>7, <2>3
    <2>5. n + 1 \in 1 .. Len(t) /\ n + 1 # 1 /\ (n + 1) - 1 = n
        BY <1>3, <1>7
    <2>6. h[n + 1] = h[n] \o t[n + 1]
        BY <1>5, <2>5
    <2>7. FlattenSeq(t) = h[n + 1] /\ FlattenSeq(s) = g[n]
        BY <1>2, <1>3, <1>5, <2>2
    <2>8. QED BY <1>1, <1>3, <2>4, <2>6, <2>7
<1>8. QED BY <1>6, <1>7

\* One more entry: its text is left out, or goes behind the others.
LEMMA UnmarkedAppend ==
    ASSUME NEW v \in Seq(Entry), NEW e \in Entry
    PROVE  /\ UnmarkedTexts(v) \in Seq(Seq(Block))
           /\ UnmarkedTexts(Append(v, e)) =
                  IF e.deleted THEN UnmarkedTexts(v) ELSE Append(UnmarkedTexts(v), e.text)
<1>1. PICK w : w = Append(v, e)
    OBVIOUS
<1>2. PICK n : n = Len(v)
    OBVIOUS
<1>3. /\ n \in Nat /\ DOMAIN v = 1 .. n /\ DOMAIN w = 1 .. n + 1 /\ w[n + 1] = e
      /\ \A i \in 1 .. n : w[i] = v[i]
    BY <1>1, <1>2
<1>4. PICK old : old = DOMAIN v \ Marked(v)
    OBVIOUS
<1>5. PICK new : new = DOMAIN w \ Marked(w)
    OBVIOUS
<1>6. (\A i \in 1 .. Len(v) : i \in new <=> i \in old) /\ (n + 1 \in new <=> ~e.deleted)
    BY <1>2, <1>3, <1>4, <1>5 DEF Marked
<1>7. PICK kept : kept = AtPlaces(v, old)
    OBVIOUS
<1>8. kept \in Seq(Entry)
    BY <1>7, AtPlacesPicks
<1>9. AtPlaces(w, new) = IF e.deleted THEN kept ELSE Append(kept, e)
    BY <1>1, <1>2, <1>6, <1>7, AtPlacesAppend
<1>10. UnmarkedTexts(v) = [i \in DOMAIN kept |-> kept[i].text]
    BY <1>4, <1>7 DEF UnmarkedTexts
<1>11. UnmarkedTexts(v) \in Seq(Seq(Block))
    <2>1. \A i \in DOMAIN kept : kept[i] \in Entry
        BY <1>8
    <2>2. \A i \in DOMAIN kept : kept[i].text \in Seq(Block)
        BY <2>1 DEF Entry
    <2>3. QED BY <1>8, <1>10, <2>2
<1>12. CASE e.deleted
    BY <1>1, <1>5, <1>9, <1>10, <1>11, <1>12 DEF UnmarkedTexts
<1>13. CASE ~e.deleted
    <2>1. PICK all : all = Append(kept, e)
        OBVIOUS
    <2>2. UnmarkedTexts(w) = [i \in DOMAIN all |-> all[i].text]
        BY <1>5, <1>9, <1>13, <2>1 DEF UnmarkedTexts
    <2>3. PICK m : m = Len(kept)
        OBVIOUS
    <2>4. /\ m \in Nat /\ DOMAIN kept = 1 .. m /\ DOMAIN all = 1 .. m + 1 /\ all[m + 1] = e
          /\ \A i \in 1 .. m : all[i] = kept[i]
        BY <1>8, <2>1, <2>3
    <2>5. PICK u : u = UnmarkedTexts(v)
        OBVIOUS
    <2>6. u \in Seq(Seq(Block)) /\ Len(u) = m /\ \A i \in 1 .. m : u[i] = kept[i].text
        BY <1>10, <1>11, <2>4, <2>5
    <2>7. e.text \in Seq(Block)
        BY DEF Entry
    <2>8. PICK c : c = Append(u, e.text)
        OBVIOUS
    <2>9. DOMAIN c = 1 .. m + 1 /\ c[m + 1] = e.text /\ \A i \in 1 .. m : c[i] = u[i]
        BY <2>4, <2>6, <2>7, <2>8
    <2>10. PICK z : z = UnmarkedTexts(w)
        OBVIOUS
    <2>11. DOMAIN z = 1 .. m + 1 /\ \A i \in 1 .. m + 1 : z[i] = all[i].text
        BY <2>2, <2>4, <2>10
    <2>12. ASSUME NEW i \in 1 .. m + 1 PROVE z[i] = c[i]
        <3>1. CASE i = m + 1
            BY <2>4, <2>9, <2>11, <3>1
        <3>2. CASE i # m + 1
            <4>1. i \in 1 .. m
                BY <2>4, <3>2
            <4>2. QED BY <2>4, <2>6, <2>9, <2>11, <4>1
        <3>3. QED BY <3>1, <3>2
    <2>13. c \in Seq(Seq(Block))
        BY <2>6, <2>7, <2>8
    <2>14. z = c
        BY <2>2, <2>4, <2>9, <2>10, <2>11, <2>12, <2>13
    <2>15. QED BY <1>1, <1>11, <1>13, <2>5, <2>8, <2>10, <2>14
<1>14. QED BY <1>12, <1>13

\* Part of a list, and one more of it.
LEMMA SubAppend ==
    ASSUME NEW S, NEW s \in Seq(S), NEW f \in Nat, f > 0, NEW i \in DOMAIN s, f <= i
    PROVE  /\ SubSeq(s, f, i - 1) \in Seq(S)
           /\ SubSeq(s, f, i) = Append(SubSeq(s, f, i - 1), s[i])
<1>1. i \in Nat /\ i > 0 /\ i <= Len(s) /\ Len(s) \in Nat /\ i \in Int /\ i - 1 \in Int /\ f \in Int
    OBVIOUS
<1>2. \A k \in f .. i : s[k] \in S
    BY <1>1
<1>3. /\ SubSeq(s, f, i) \in Seq(S) /\ Len(SubSeq(s, f, i)) = IF f <= i THEN i - f + 1 ELSE 0
      /\ \A k \in 1 .. i - f + 1 : SubSeq(s, f, i)[k] = s[f + k - 1]
    BY <1>1, <1>2, SubSeqProperties
<1>4. \A k \in f .. i - 1 : s[k] \in S
    BY <1>1
<1>5. /\ SubSeq(s, f, i - 1) \in Seq(S)
      /\ Len(SubSeq(s, f, i - 1)) = IF f <= i - 1 THEN (i - 1) - f + 1 ELSE 0
      /\ \A k \in 1 .. (i - 1) - f + 1 : SubSeq(s, f, i - 1)[k] = s[f + k - 1]
    BY <1>1, <1>4, SubSeqProperties
<1>6. PICK a : a = SubSeq(s, f, i)
    OBVIOUS
<1>7. PICK b : b = SubSeq(s, f, i - 1)
    OBVIOUS
<1>8. PICK m \in Nat : m = i - f
    BY <1>1
<1>9. a \in Seq(S) /\ Len(a) = m + 1 /\ \A k \in 1 .. m + 1 : a[k] = s[f + k - 1]
    BY <1>1, <1>3, <1>6, <1>8
<1>10. b \in Seq(S) /\ Len(b) = m /\ \A k \in 1 .. m : b[k] = s[f + k - 1]
    BY <1>1, <1>5, <1>7, <1>8
<1>11. PICK c : c = Append(b, s[i])
    OBVIOUS
<1>12. s[i] \in S /\ f + (m + 1) - 1 = i
    BY <1>1, <1>8
<1>13. c \in Seq(S) /\ Len(c) = m + 1 /\ c[m + 1] = s[i] /\ \A k \in 1 .. m : c[k] = b[k]
    BY <1>10, <1>11, <1>12
<1>14. ASSUME NEW k \in 1 .. m + 1 PROVE a[k] = c[k]
    <2>1. CASE k = m + 1
        BY <1>9, <1>12, <1>13, <2>1
    <2>2. CASE k # m + 1
        <3>1. k \in 1 .. m
            BY <2>2
        <3>2. QED BY <1>9, <1>10, <1>13, <3>1
    <2>3. QED BY <2>1, <2>2
<1>15. a = c
    BY <1>9, <1>13, <1>14
<1>16. QED BY <1>6, <1>7, <1>10, <1>11, <1>15

\* The copy of one more entry.
LEMMA CopyWritten ==
    ASSUME FileLock, Base, Placed, UNCHANGED env, CopyHas, Copy
    PROVE  CopyHas'
<1>1. /\ file \in Seq(Block) /\ view \in Seq(Entry) /\ tmp \in Seq(Block) /\ Len(view) \in Nat /\ next \in Nat
      /\ \A i \in DOMAIN view : /\ view[i] \in Entry /\ view[i].text \in Seq(Block) /\ view[i].offset \in Nat
                                /\ i \in Nat
    BY SeqTypes DEF Base
<1>2. /\ pc = "copy" /\ pc' = "copy" /\ UNCHANGED <<file, view>> /\ Touched # {}
    <2>1. pc = "copy" /\ pc' = "copy" /\ UNCHANGED <<file, view>>
        BY DEF Copy, fileVars, viewVars
    <2>2. QED BY <2>1 DEF Base, ChangeInv
<1>3. FirstTouched \in DOMAIN view /\ FirstTouched \in Nat /\ FirstTouched > 0
    BY <1>1, <1>2, FirstIs
<1>4. /\ Index \in DOMAIN view /\ next' = Index + 1 /\ Index >= FirstTouched
      /\ tmp' = IF view[Index].deleted THEN tmp
                ELSE tmp \o Chunk(file, view[Index].offset, Len(view[Index].text))
      /\ next = 0 => tmp = <<>>
    BY CopyKeepsBase
<1>5. PICK i \in DOMAIN view : i = Index
    BY <1>4
<1>6. PICK b : b = SubSeq(view, FirstTouched, i - 1)
    OBVIOUS
<1>7. b \in Seq(Entry) /\ SubSeq(view, FirstTouched, i) = Append(b, view[i])
    <2>1. FirstTouched <= i
        BY <1>1, <1>3, <1>4, <1>5
    <2>2. QED BY <1>1, <1>3, <1>6, <2>1, SubAppend
<1>8. tmp = FlattenSeq(UnmarkedTexts(b))
    <2>1. CASE next = 0
        <3>1. i = FirstTouched /\ tmp = <<>>
            BY <1>4, <1>5, <2>1 DEF Index
        <3>2. b = <<>>
            <4>1. i - 1 < FirstTouched /\ i - 1 \in Int /\ FirstTouched \in Int
                BY <1>3, <3>1
            <4>2. QED BY <1>6, <1>7, <4>1, SubSeqProperties, EmptySeq
        <3>3. PICK kept : kept = AtPlaces(b, DOMAIN b \ Marked(b))
            OBVIOUS
        <3>4. kept = <<>>
            <4>1. Len(b) = 0 /\ Len(b) \in Nat
                BY <3>2
            <4>2. QED BY <3>3, <4>1, AtPlacesSteps
        <3>5. UnmarkedTexts(b) = <<>>
            <4>1. UnmarkedTexts(b) = [k \in DOMAIN kept |-> kept[k].text]
                BY <3>3 DEF UnmarkedTexts
            <4>2. PICK z : z = [k \in DOMAIN kept |-> kept[k].text]
                OBVIOUS
            <4>3. DOMAIN z = {} /\ z = [k \in {} |-> z[k]]
                BY <3>4, <4>2
            <4>4. QED BY <4>1, <4>2, <4>3
        <3>6. QED BY <3>1, <3>5 DEF FlattenSeq
    <2>2. CASE next # 0
        <3>1. i = next
            BY <1>5, <2>2 DEF Index
        <3>2. QED BY <1>2, <1>6, <2>2, <3>1 DEF CopyHas, Written
    <2>3. QED BY <2>1, <2>2
<1>9. PICK e \in Entry : e = view[i]
    BY <1>1
<1>10. PICK u \in Seq(Seq(Block)) : u = UnmarkedTexts(b)
    BY <1>7, <1>9, UnmarkedAppend
<1>11. tmp' = FlattenSeq(UnmarkedTexts(SubSeq(view, FirstTouched, i)))
    <2>1. UnmarkedTexts(Append(b, e)) = IF e.deleted THEN u ELSE Append(u, e.text)
        BY <1>7, <1>10, UnmarkedAppend
    <2>2. CASE e.deleted
        BY <1>4, <1>5, <1>7, <1>8, <1>9, <1>10, <2>1, <2>2
    <2>3. CASE ~e.deleted
        <3>1. PICK text \in Seq(Block) : text = e.text
            BY DEF Entry
        <3>2. PICK o \in Nat : o = e.offset
            BY DEF Entry
        <3>3. Holds(file, o, text)
            <4>1. InPlace(file, view, DOMAIN view)
                BY <1>2, Before
            <4>2. QED BY <1>9, <3>1, <3>2, <4>1 DEF InPlace
        <3>4. Chunk(file, o, Len(text)) = text
            BY <1>1, <3>3, ChunkHeld
        <3>5. FlattenSeq(Append(u, text)) = FlattenSeq(u) \o text
            BY FlattenAppend
        <3>6. tmp' = tmp \o text
            BY <1>4, <1>5, <1>9, <2>3, <3>1, <3>2, <3>4
        <3>7. QED BY <1>7, <1>8, <1>9, <1>10, <2>1, <2>3, <3>1, <3>5, <3>6
    <2>4. QED BY <2>2, <2>3
<1>12. next' - 1 = i
    BY <1>1, <1>4, <1>5
<1>13. FirstTouched' = FirstTouched
    BY <1>2 DEF FirstTouched, Touched
<1>14. tmp' = FlattenSeq(UnmarkedTexts(SubSeq(view', FirstTouched', next' - 1)))
    BY <1>2, <1>11, <1>12, <1>13
<1>15. QED BY <1>2, <1>14 DEF CopyHas, Written

\* The file that is cut behind the last block of the copy.
LEMMA TruncateWritten ==
    ASSUME Base, Placed, UNCHANGED env, CopyHas, Truncate
    PROVE  CopyHas'
<1>1. /\ file \in Seq(Block) /\ view \in Seq(Entry) /\ tmp \in Seq(Block) /\ Len(tmp) \in Nat /\ Len(file) \in Nat
    BY SeqTypes DEF Base
<1>2. /\ pc = "write" /\ pc' = "commit" /\ next = Len(tmp) /\ file' = Truncated /\ UNCHANGED <<view, tmp>>
      /\ Touched # {}
    <2>1. pc = "write" /\ pc' = "commit" /\ next = Len(tmp) /\ file' = Truncated /\ UNCHANGED <<view, tmp>>
        BY DEF Truncate, syncVars
    <2>2. QED BY <2>1 DEF Base, Bounds
<1>3. PICK o \in Nat : o = Offset
    BY <1>1, <1>2, FirstIs
<1>4. PICK n \in Nat : n = Len(tmp)
    BY <1>1
<1>5. o + n <= Len(file) /\ \A k \in 1 .. n : file[o + k] = tmp[k]
    <2>1. o <= Len(file) /\ \A k \in 1 .. n : file[o + k] = tmp[k]
        BY <1>2, <1>3, <1>4 DEF Placed, WriteInv
    <2>2. next # 0 => o + n <= Len(file)
        BY <1>2, <1>3, <1>4 DEF Base, Bounds
    <2>3. QED BY <1>2, <1>4, <2>1, <2>2
<1>6. PICK f : f = SubSeq(file, 1, o + n)
    OBVIOUS
<1>7. f \in Seq(Block) /\ Len(f) = o + n /\ \A k \in 1 .. o + n : f[k] = file[k]
    <2>1. o + n \in Nat
        OBVIOUS
    <2>2. QED BY <1>1, <1>5, <1>6, <2>1, CutIs
<1>8. Chunk(f, o, Len(f)) = Chunk(f, o, n)
    <2>1. Len(f) = o + n /\ (o + (o + n) <= o + n => o = 0)
        BY <1>7
    <2>2. QED BY <2>1 DEF Chunk
<1>9. Chunk(f, o, n) = tmp
    <2>1. PICK c : c = Chunk(f, o, n)
        OBVIOUS
    <2>2. c \in Seq(Block) /\ Len(c) = n /\ \A k \in 1 .. n : c[k] = f[o + k]
        <3>1. o + n <= Len(f)
            BY <1>7
        <3>2. QED BY <1>7, <2>1, <3>1, ChunkIs
    <2>3. ASSUME NEW k \in 1 .. n PROVE c[k] = tmp[k]
        <3>1. o + k \in 1 .. o + n
            OBVIOUS
        <3>2. QED BY <1>5, <1>7, <2>2, <3>1
    <2>4. c = tmp
        BY <1>1, <1>4, <2>2, <2>3
    <2>5. QED BY <2>1, <2>4
<1>10. file' = f /\ Touched' = Touched /\ FirstTouched' = FirstTouched /\ Offset' = o
    BY <1>2, <1>3, <1>4, <1>6 DEF Truncated, Touched, FirstTouched, Offset
<1>11. tmp = FlattenSeq(UnmarkedTexts(SubSeq(view, FirstTouched, Len(view))))
    BY <1>2 DEF CopyHas, Written
<1>12. Chunk(file', Offset', Len(file')) = FlattenSeq(UnmarkedTexts(SubSeq(view', FirstTouched', Len(view'))))
    BY <1>2, <1>8, <1>9, <1>10, <1>11
<1>13. QED BY <1>2, <1>12 DEF CopyHas, Written

\* All the other steps.
LEMMA WrittenStep ==
    ASSUME FileLock, Base, PlaceInv, WrittenInv, [Next]_vars
    PROVE  WrittenInv'
<1>1. env' = env
    BY DEF Next, vars
<1>2. SUFFICES ASSUME OnlyDeliveries PROVE CopyHas'
    BY <1>1 DEF WrittenInv, OnlyDeliveries
<1>3. Placed /\ CopyHas
    BY <1>2 DEF PlaceInv, WrittenInv
<1>4. CASE UNCHANGED <<pc, file, view, tmp>> /\ (pc = "copy" => next' = next)
    BY <1>3, <1>4 DEF CopyHas, Written, FirstTouched, Touched, Offset
<1>5. CASE pc' \notin {"copy", "write", "commit"}
    BY <1>5 DEF CopyHas
<1>6. pc \notin {"copy", "write", "commit"} \/ lock = "excl"
    BY DEF Base, LockInv
<1>7. CASE SimpleStep
    <2>1. CASE CheckSame
        <3>1. pc = "check" /\ pc' = "copy" /\ next' = next
            BY <2>1 DEF CheckSame, syncVars
        <3>2. next = 0
            BY <3>1 DEF Base, Bounds, Syncing
        <3>3. QED BY <3>1, <3>2 DEF CopyHas
    <2>2. CASE ~CheckSame
        BY <1>5, <1>7, <2>2 DEF SimpleStep, Open, CheckReopen, Lock, CopyFails
    <2>3. QED BY <2>1, <2>2
<1>8. CASE LookStep \/ EndStep \/ Bail \/ Commit
    BY <1>5, <1>8 DEF LookStep, Read, CheckNewMail, Back, Reread, SyncDone, EndStep, Crash, CloseUnchanged, WriteFails,
                      SyncUnlink, CloseDone, Forget, Bail, Commit
<1>9. CASE (\E m \in Message : Deliver(m)) \/ \E i \in DOMAIN Parse(file, 0) : Expunge(Parse(file, 0)[i])
    <2>1. lock = "none" /\ pc' = pc
        BY <1>9 DEF Deliver, Expunge
    <2>2. QED BY <1>5, <1>6, <2>1
<1>10. CASE (\E i : \E d \in BOOLEAN : Mark(i, d)) \/ \E i : Flag(i)
    BY <1>5, <1>10 DEF Mark, Flag
<1>11. CASE \E o \in {"sync", "close"}, q \in BOOLEAN : Begin(o, q)
    BY <1>5, <1>11 DEF Begin
<1>12. CASE Copy
    BY <1>1, <1>3, <1>12, CopyWritten
<1>13. CASE Copied
    <2>1. /\ pc = "copy" /\ pc' = "write" /\ next = Len(view) + 1 /\ UNCHANGED <<view, tmp>> /\ next # 0
        BY <1>1, <1>13, CopyKeepsBase DEF Copied, viewVars
    <2>2. next - 1 = Len(view)
        <3>1. Len(view) \in Nat
            BY SeqTypes DEF Base
        <3>2. QED BY <2>1, <3>1
    <2>3. tmp = FlattenSeq(UnmarkedTexts(SubSeq(view, FirstTouched, Len(view))))
        BY <1>3, <2>1, <2>2 DEF CopyHas, Written
    <2>4. FirstTouched' = FirstTouched
        BY <2>1 DEF FirstTouched, Touched
    <2>5. tmp' = FlattenSeq(UnmarkedTexts(SubSeq(view', FirstTouched', Len(view'))))
        BY <2>1, <2>3, <2>4
    <2>6. QED BY <2>1, <2>5 DEF CopyHas, Written
<1>14. CASE WriteBack
    <2>1. pc = "write" /\ pc' = "write" /\ UNCHANGED <<view, tmp>>
        BY <1>14 DEF WriteBack, viewVars
    <2>2. tmp = FlattenSeq(UnmarkedTexts(SubSeq(view, FirstTouched, Len(view))))
        BY <1>3, <2>1 DEF CopyHas, Written
    <2>3. FirstTouched' = FirstTouched
        BY <2>1 DEF FirstTouched, Touched
    <2>4. tmp' = FlattenSeq(UnmarkedTexts(SubSeq(view', FirstTouched', Len(view'))))
        BY <2>1, <2>2, <2>3
    <2>5. QED BY <2>1, <2>4 DEF CopyHas, Written
<1>15. CASE Truncate
    BY <1>1, <1>3, <1>15, TruncateWritten
<1>16. CASE UNCHANGED vars
    BY <1>4, <1>16 DEF vars, fileVars, viewVars, syncVars
<1>17. QED BY <1>7, <1>8, <1>9, <1>10, <1>11, <1>12, <1>13, <1>14, <1>15, <1>16, Steps

\* A sync that succeeds leaves, from the first message that it rewrites on, the
\* messages that are in the index and not marked, whole, in their order, and
\* nothing else (mbox_mbox_sync()).
THEOREM SyncWrites ==
    ASSUME FileLock
    PROVE  Spec => SyncWritesView
<1>1. Init => Base /\ PlaceInv /\ WrittenInv
    <2>1. Init => CopyHas
        BY DEF Init, CopyHas
    <2>2. QED BY <2>1, BaseInit, PlacedInit DEF WrittenInv
<1>2. Base /\ PlaceInv /\ WrittenInv /\ [Next]_vars => (Base /\ PlaceInv /\ WrittenInv)'
    BY BaseStep, PlacedStep, WrittenStep
<1> DEFINE A == Commit /\ OnlyDeliveries =>
                    Chunk(file, Offset, Len(file)) =
                        FlattenSeq(UnmarkedTexts(SubSeq(view, FirstTouched, Len(view))))
<1>3. WrittenInv => A
    BY DEF WrittenInv, CopyHas, Written, Commit
<1>4. QED BY <1>1, <1>2, <1>3, PTL DEF Spec, SyncWritesView
=============================================================================
