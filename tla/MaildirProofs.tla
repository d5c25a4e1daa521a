--------------------------- MODULE MaildirProofs ---------------------------
(***************************************************************************)
(* No letter is lost from a Maildir, for any number of letters, whatever   *)
(* other clients do, except moving messages between the directories, and   *)
(* whenever NeoMutt is stopped.                                            *)
(*                                                                         *)
(* The argument is about one letter that nobody gave up: its files have    *)
(* names that tell them apart and are not marked as trash, each of its     *)
(* entries is not marked as deleted and has a file in the directory where  *)
(* the entry says, and a scan that is under way finds that file.           *)
(*                                                                         *)
(* When NeoMutt is idle and no directory looks newer, every file is in the *)
(* index, where nobody acts while it saves and no message is written anew. *)
(* The argument is about one file whose directory looks no newer: its      *)
(* entry shows it, or the check that is under way has read it or will, and *)
(* a sync turns entries into ones that agree with the files, in order.     *)
(***************************************************************************)
EXTENDS Maildir, ListsProofs

Id(v, i) == v[i].path.id

\* The files d of letter m.
FilesSafe(d, m) ==
    /\ \E f \in d : f.id[1] = m
    /\ \A f \in d : f.id[1] = m => ~f.trash
    /\ \A f, g \in d : f.id[1] = m /\ f.id = g.id => f = g

OnDisk(id, dir, d) == \E f \in d : f.id = id /\ f.dir = dir

\* The entries of letter m in the list v; busy is the one being rewritten.
EntriesSafe(v, d, m, busy) ==
    /\ \A i \in DOMAIN v : Id(v, i)[1] = m =>
          /\ ~v[i].deleted
          /\ OnDisk(Id(v, i), v[i].path.dir, d)
          /\ v[i].edited /\ i # busy => \A f \in d : f.id # <<m, 1>>
    /\ \A i, j \in DOMAIN v : Id(v, i)[1] = m /\ Id(v, i) = Id(v, j) => i = j

\* The names s that were read of letter m.
NamesSafe(s, d, m) ==
    /\ \A f \in s : f.id[1] = m => ~f.trash /\ OnDisk(f.id, f.dir, d)
    /\ \A f, g \in s : f.id[1] = m /\ f.id = g.id => f = g

\* A directory that has been scanned has shown the files of the entries.
Seen(v, s, dirs, m) ==
    \A i \in DOMAIN v : Id(v, i)[1] = m /\ v[i].path.dir \in dirs => \E f \in s : f.id = Id(v, i)

Done == scanned \cap (IF mpc = "scancur" THEN {"new"} ELSE IF mpc = "merge" THEN Dirs ELSE {})
Busy == IF mpc = "unlink" THEN pos ELSE 0

\* Between the copy and the unlink() of a rewrite there are two files.
CopySafe(m) ==
    mpc = "unlink" /\ pos \in DOMAIN index /\ Id(index, pos)[1] = m =>
        /\ Id(index, pos) = <<m, 0>> /\ OnDisk(<<m, 1>>, Rewritten.dir, disk)
        /\ \A i \in DOMAIN index : Id(index, i) # <<m, 1>>

LetterSafe(m) ==
    /\ FilesSafe(disk, m)
    /\ EntriesSafe(index, disk, m, Busy)
    /\ NamesSafe(listed, disk, m)
    /\ Seen(index, listed, Done, m)
    /\ CopySafe(m)

\* What NeoMutt knows of is what was delivered; names are only kept while they
\* are read; an open mailbox lists what is in new, then what is in cur.
Known ==
    /\ \A f \in disk \cup listed : f.id[1] \in arrived
    /\ \A i \in DOMAIN index : Id(index, i)[1] \in arrived
    /\ mpc \notin {"parsenew", "parsecur", "scancur", "merge"} => listed = {}
    /\ mpc \in {"closed", "listnew", "parsenew"} => index = <<>>
    /\ mpc \in {"listcur", "parsecur"} => \A i \in DOMAIN index : index[i].path.dir = "new"
    /\ mpc = "scancur" => \A f \in listed : f.dir = "new"
    /\ mpc = "parsecur" => \A f \in listed : f.dir = "cur"
    /\ mpc = "parsenew" => \A f \in listed : f.dir = "new"

Types ==
    /\ index \in Seq(Entry)
    /\ disk \subseteq File /\ listed \subseteq File
    /\ IsFiniteSet(disk)
    /\ arrived \subseteq Letter

LettersInv == ~world.moves => \A m \in arrived \ doomed : LetterSafe(m)

\* A finite set as a sequence: each element once.
LEMMA SetToSeqElements ==
    ASSUME NEW S, IsFiniteSet(S)
    PROVE  /\ SetToSeq(S) \in Seq(S) /\ Len(SetToSeq(S)) = Cardinality(S)
           /\ DOMAIN SetToSeq(S) = 1 .. Cardinality(S) /\ Cardinality(S) \in Nat
           /\ \A x \in S : \E i \in 1 .. Cardinality(S) : SetToSeq(S)[i] = x
           /\ \A i, j \in 1 .. Cardinality(S) : SetToSeq(S)[i] = SetToSeq(S)[j] => i = j
<1> DEFINE n == Cardinality(S)
<1>1. n \in Nat /\ ExistsBijection(1 .. n, S)
    BY FS_CardinalityType
<1>2. \E f \in [1 .. n -> S] : IsInjective(f)
    BY <1>1 DEF ExistsBijection, Bijection, Injection
<1> DEFINE f == SetToSeq(S)
<1>3. f \in [1 .. n -> S] /\ IsInjective(f)
    BY <1>2 DEF SetToSeq
<1> HIDE DEF f
<1>4. f \in Seq(S) /\ Len(f) = n /\ DOMAIN f = 1 .. n
    BY <1>1, <1>3
<1>5. \A i, j \in 1 .. n : f[i] = f[j] => i = j
    BY <1>3, <1>4 DEF IsInjective
<1>6. \A x \in S : \E i \in 1 .. n : f[i] = x
    <2>1. IsFiniteSet(1 .. n) /\ Cardinality(1 .. n) = n
        <3>1. 1 \in Int /\ n \in Int
            BY <1>1
        <3> HIDE DEF n
        <3>2. IsFiniteSet(1 .. n) /\ Cardinality(1 .. n) = IF 1 > n THEN 0 ELSE n-1+1
            BY <3>1, FS_Interval
        <3>3. QED BY <1>1, <3>2 DEF n
    <2>2. f \in Injection(1 .. n, S)
        BY <1>3 DEF Injection
    <2>3. f \in Surjection(1 .. n, S)
        BY <2>1, <2>2, FS_Injection
    <2>4. QED BY <2>3 DEF Surjection
<1>7. QED BY <1>1, <1>4, <1>5, <1>6 DEF f

\* A letter written anew keeps its name and its flags apart from the mark.
LEMMA SecondName ==
    ASSUME NEW f \in File
    PROVE  /\ [f EXCEPT !.id[2] = 1] \in File
           /\ [f EXCEPT !.id[2] = 1].id = <<f.id[1], 1>>
           /\ [f EXCEPT !.id[2] = 1].dir = f.dir
           /\ [f EXCEPT !.id[2] = 1].trash = f.trash
<1>1. f.id \in Letter \X {0, 1}
    BY DEF File, Unique
<1>2. PICK a \in Letter, b \in {0, 1} : f.id = <<a, b>>
    BY <1>1
<1>3. f.id[1] = a
    BY <1>2
<1>4. [f.id EXCEPT ![2] = 1] = <<a, 1>>
    BY <1>2
<1>5. [f EXCEPT !.id[2] = 1] = [f EXCEPT !.id = <<a, 1>>]
    BY <1>4 DEF File
<1>6. <<a, 1>> \in Unique
    BY DEF Unique
<1>7. QED BY <1>3, <1>5, <1>6 DEF File

\* The entries a scan adds: those of the files it read that are still there.
LEMMA WithFilesIs ==
    ASSUME NEW v \in Seq(Entry), NEW s, NEW w, w = WithFiles(v, s),
           disk \subseteq File, IsFiniteSet(disk)
    PROVE  /\ w \in Seq(Entry) /\ DOMAIN v \subseteq DOMAIN w
           /\ \A i \in DOMAIN v : w[i] = v[i]
           /\ \A i \in DOMAIN w \ DOMAIN v : w[i].path \in s \cap disk /\ w[i] = Parsed(w[i].path)
           /\ \A i, j \in DOMAIN w \ DOMAIN v : w[i].path = w[j].path => i = j
           /\ \A f \in s \cap disk : \E i \in DOMAIN w : w[i] = Parsed(f)
<1> DEFINE a == s \cap disk
<1> DEFINE q == SetToSeq(a)
<1> DEFINE k == Cardinality(a)
<1> DEFINE t == [i \in 1 .. k |-> Parsed(q[i])]
<1>1. IsFiniteSet(a) /\ a \subseteq File
    BY FS_Intersection, FS_Subset
<1> HIDE DEF a
<1>2. /\ q \in Seq(a) /\ DOMAIN q = 1 .. k /\ k \in Nat
      /\ \A i, j \in 1 .. k : q[i] = q[j] => i = j
      /\ \A f \in a : \E i \in 1 .. k : q[i] = f
    BY <1>1, SetToSeqElements
<1> HIDE DEF q, k
<1>3. \A i \in 1 .. k : q[i] \in a
    BY <1>2
<1>4. \A f \in File : Parsed(f) \in Entry /\ Parsed(f).path = f
    BY DEF Parsed, File, Entry, Dirs
<1>5. t \in Seq(Entry) /\ Len(t) = k /\ \A i \in 1 .. k : t[i] = Parsed(q[i])
    BY <1>1, <1>2, <1>3, <1>4
<1>6. w = v \o t
    BY DEF WithFiles, a, q, k
<1> HIDE DEF t
<1>7. PICK n \in Nat : n = Len(v)
    OBVIOUS
<1>8. /\ w \in Seq(Entry) /\ DOMAIN w = 1 .. n + k /\ DOMAIN v = 1 .. n
      /\ \A i \in 1 .. n + k : w[i] = IF i <= n THEN v[i] ELSE t[i - n]
    <2>1. /\ v \o t \in Seq(Entry) /\ Len(v \o t) = Len(v) + Len(t)
          /\ \A i \in 1 .. Len(v) + Len(t) :
                (v \o t)[i] = IF i <= Len(v) THEN v[i] ELSE t[i - Len(v)]
        <3>1. v \in Seq(Entry) /\ t \in Seq(Entry)
            BY <1>5
        <3>2. QED BY <3>1, ConcatProperties
    <2>2. w \in Seq(Entry) /\ DOMAIN w = 1 .. Len(w) /\ DOMAIN v = 1 .. Len(v)
        BY <1>6, <2>1
    <2>3. QED BY <1>5, <1>6, <1>7, <2>1, <2>2
<1>9. \A i \in 1 .. n : i \in 1 .. n + k /\ i <= n
    BY <1>2, <1>7
<1>10. ASSUME NEW i \in DOMAIN w \ DOMAIN v
       PROVE  i - n \in 1 .. k /\ w[i] = Parsed(q[i - n]) /\ w[i].path = q[i - n] /\ q[i - n] \in a
    <2>1. i \in 1 .. n + k /\ ~(i <= n) /\ i - n \in 1 .. k
        BY <1>2, <1>7, <1>8, <1>10
    <2>2. w[i] = t[i - n]
        BY <1>8, <2>1
    <2>3. q[i - n] \in File
        BY <1>1, <1>3, <2>1
    <2>4. QED BY <1>3, <1>4, <1>5, <2>1, <2>2, <2>3
<1>11. ASSUME NEW i \in DOMAIN w \ DOMAIN v, NEW j \in DOMAIN w \ DOMAIN v, w[i].path = w[j].path
       PROVE  i = j
    <2>1. i - n = j - n
        BY <1>2, <1>10, <1>11
    <2>2. i \in Int /\ j \in Int
        BY <1>8
    <2>3. QED BY <1>7, <2>1, <2>2
<1>12. ASSUME NEW f \in a PROVE \E i \in DOMAIN w : w[i] = Parsed(f)
    <2>1. PICK j \in 1 .. k : q[j] = f
        BY <1>2
    <2>2. n + j \in 1 .. n + k /\ ~(n + j <= n) /\ (n + j) - n = j
        BY <1>2, <1>7, <2>1
    <2>3. w[n + j] = t[j]
        BY <1>8, <2>2
    <2>4. QED BY <1>5, <1>8, <2>1, <2>2, <2>3
<1>13. QED BY <1>8, <1>9, <1>10, <1>11, <1>12 DEF a

-----------------------------------------------------------------------------
(* Types *)

\* A list with another element at a place.
LEMMA SetTyped ==
    ASSUME NEW S, NEW s \in Seq(S), NEW i \in DOMAIN s, NEW x \in S
    PROVE  [s EXCEPT ![i] = x] \in Seq(S)
    OBVIOUS

\* A list made from another one, place by place.
LEMMA MapTyped ==
    ASSUME NEW S, NEW s \in Seq(S), NEW f, DOMAIN f = DOMAIN s, \A i \in DOMAIN s : f[i] \in S,
           f = [i \in DOMAIN s |-> f[i]]
    PROVE  f \in Seq(S)
    OBVIOUS

-----------------------------------------------------------------------------
(* Entries that are marked, dropped and kept *)

\* w holds some entries of v, with the marks of letter m at most.
From(v, w, e, m) ==
    /\ e \in [DOMAIN w -> DOMAIN v]
    /\ \A i, j \in DOMAIN w : e[i] = e[j] => i = j
    /\ \A i \in DOMAIN w :
          /\ w[i].path = v[e[i]].path
          /\ Id(w, i)[1] = m => /\ w[i].deleted => v[e[i]].deleted
                                /\ w[i].edited => v[e[i]].edited

\* The same entries under other marks.
LEMMA Remarked ==
    ASSUME NEW v, NEW w, NEW m, DOMAIN w = DOMAIN v,
           \A i \in DOMAIN v : /\ w[i].path = v[i].path
                               /\ Id(v, i)[1] = m => /\ w[i].deleted => v[i].deleted
                                                     /\ w[i].edited => v[i].edited
    PROVE  \E e : From(v, w, e, m)
<1>1. From(v, w, [i \in DOMAIN w |-> i], m)
    BY DEF From, Id
<1>2. QED BY <1>1

\* Fewer entries, with fewer marks, are as safe.
LEMMA FromSafe ==
    ASSUME NEW v, NEW w, NEW e, NEW m, NEW d, From(v, w, e, m), EntriesSafe(v, d, m, 0),
           0 \notin DOMAIN v
    PROVE  EntriesSafe(w, d, m, 0)
<1>1. /\ \A i \in DOMAIN w : e[i] \in DOMAIN v /\ w[i].path = v[e[i]].path /\ Id(w, i) = Id(v, e[i])
      /\ \A i, j \in DOMAIN w : e[i] = e[j] => i = j
    BY DEF From, Id
<1>2. \A i \in DOMAIN w : Id(w, i)[1] = m =>
          /\ w[i].deleted => v[e[i]].deleted
          /\ w[i].edited => v[e[i]].edited
    BY DEF From
<1>3. ASSUME NEW i \in DOMAIN w, Id(w, i)[1] = m
      PROVE  /\ ~w[i].deleted
             /\ OnDisk(Id(w, i), w[i].path.dir, d)
             /\ w[i].edited => \A f \in d : f.id # <<m, 1>>
    <2>1. e[i] \in DOMAIN v /\ Id(v, e[i])[1] = m /\ e[i] # 0
        BY <1>1, <1>3
    <2>2. QED BY <1>1, <1>2, <1>3, <2>1 DEF EntriesSafe
<1>4. ASSUME NEW i \in DOMAIN w, NEW j \in DOMAIN w, Id(w, i)[1] = m, Id(w, i) = Id(w, j)
      PROVE  i = j
    BY <1>1, <1>4 DEF EntriesSafe
<1>5. QED BY <1>3, <1>4 DEF EntriesSafe

\* Taking the marks for deletion away.
LEMMA UndeleteIs ==
    ASSUME NEW v \in Seq(Entry), NEW m
    PROVE  Undelete(v) \in Seq(Entry) /\ \E e : From(v, Undelete(v), e, m)
<1>1. PICK w : w = Undelete(v)
    OBVIOUS
<1>2. \A i \in DOMAIN v : v[i] \in Entry
    OBVIOUS
<1>3. DOMAIN w = DOMAIN v /\ \A i \in DOMAIN v : w[i] = [v[i] EXCEPT !.deleted = FALSE, !.purge = FALSE]
    BY <1>1 DEF Undelete
<1>4. \A i \in DOMAIN v : /\ w[i] \in Entry /\ w[i].path = v[i].path
                          /\ ~w[i].deleted /\ (w[i].edited => v[i].edited)
    BY <1>2, <1>3 DEF Entry
<1>5. w \in Seq(Entry)
    BY <1>1, <1>3, <1>4, MapTyped DEF Undelete
<1>6. QED BY <1>1, <1>3, <1>4, <1>5, Remarked

\* Marking what is new as old.
LEMMA AgedIs ==
    ASSUME NEW v \in Seq(Entry), NEW m
    PROVE  Aged(v) \in Seq(Entry) /\ \E e : From(v, Aged(v), e, m)
<1>1. PICK w : w = Aged(v)
    OBVIOUS
<1>2. \A i \in DOMAIN v : v[i] \in Entry
    OBVIOUS
<1>3. DOMAIN w = DOMAIN v
      /\ \A i \in DOMAIN v : w[i] = IF v[i].deleted \/ v[i].old \/ v[i].read THEN v[i]
                                    ELSE [v[i] EXCEPT !.old = TRUE, !.changed = TRUE]
    BY <1>1 DEF Aged
<1>4. \A i \in DOMAIN v : /\ w[i] \in Entry /\ w[i].path = v[i].path
                          /\ w[i].deleted => v[i].deleted
                          /\ w[i].edited => v[i].edited
    BY <1>2, <1>3 DEF Entry
<1>5. w \in Seq(Entry)
    BY <1>1, <1>3, <1>4, MapTyped DEF Aged
<1>6. QED BY <1>1, <1>3, <1>4, <1>5, Remarked

\* One such change after another.
LEMMA FromTwice ==
    ASSUME NEW u, NEW v, NEW w, NEW m, \E e : From(u, v, e, m), \E e : From(v, w, e, m)
    PROVE  \E e : From(u, w, e, m)
<1>1. PICK e : From(u, v, e, m)
    OBVIOUS
<1>2. PICK f : From(v, w, f, m)
    OBVIOUS
<1>3. From(u, w, [i \in DOMAIN w |-> e[f[i]]], m)
    BY <1>1, <1>2 DEF From, Id
<1>4. QED BY <1>3

\* What stays in the tables when the deleted messages have gone.
Staying(v) ==
    LET kept == AtPlaces(v, {i \in DOMAIN v : ~v[i].deleted})
    IN  [i \in DOMAIN kept |-> [kept[i] EXCEPT !.changed = FALSE]]

\* update_tables() drops the deleted entries.
LEMMA StayingIs ==
    ASSUME NEW v \in Seq(Entry), NEW m
    PROVE  Staying(v) \in Seq(Entry) /\ \E e : From(v, Staying(v), e, m)
<1> DEFINE p == {i \in DOMAIN v : ~v[i].deleted}
<1> DEFINE t == AtPlaces(v, p)
<1>1. t \in Seq(Entry) /\ \E e : Picks(v, p, e, t, Len(v))
    <2> HIDE DEF p
    <2>1. QED BY AtPlacesPicks
<1>2. PICK w : w = Staying(v)
    OBVIOUS
<1>3. DOMAIN w = DOMAIN t /\ \A i \in DOMAIN t : w[i] = [t[i] EXCEPT !.changed = FALSE]
    BY <1>2 DEF Staying
<1>4. w = [i \in DOMAIN t |-> w[i]]
    BY <1>2 DEF Staying
<1> HIDE DEF t, p
<1>5. \A i \in DOMAIN t : /\ w[i] \in Entry /\ w[i].path = t[i].path
                          /\ w[i].deleted => t[i].deleted
                          /\ w[i].edited => t[i].edited
    <2>1. \A i \in DOMAIN t : t[i] \in Entry
        BY <1>1
    <2>2. QED BY <1>3, <2>1 DEF Entry
<1>6. w \in Seq(Entry)
    BY <1>1, <1>3, <1>4, <1>5, MapTyped
<1>7. PICK e : Picks(v, p, e, t, Len(v))
    BY <1>1
<1>8. PICK n \in Nat : n = Len(t)
    BY <1>1
<1>9. /\ e \in [1 .. n -> 1 .. Len(v)] /\ DOMAIN t = 1 .. n /\ DOMAIN v = 1 .. Len(v)
      /\ \A i \in 1 .. n : t[i] = v[e[i]]
      /\ \A i, j \in 1 .. n : i < j => e[i] < e[j]
    BY <1>1, <1>7, <1>8 DEF Picks
<1>10. \A i, j \in 1 .. n : e[i] = e[j] => i = j
    <2>1. SUFFICES ASSUME NEW i \in 1 .. n, NEW j \in 1 .. n, e[i] = e[j] PROVE i = j
        OBVIOUS
    <2>2. e[i] \in Int /\ e[j] \in Int
        BY <1>9
    <2>3. ~(i < j) /\ ~(j < i)
        BY <1>9, <2>1, <2>2
    <2>4. QED BY <2>3
<1>11. From(v, w, e, m)
    BY <1>3, <1>5, <1>9, <1>10 DEF From, Id
<1>12. QED BY <1>2, <1>6, <1>11

\* A mark is set or taken away.
LEMMA OneRemarked ==
    ASSUME NEW v \in Seq(Entry), NEW k \in DOMAIN v, NEW x, NEW m, x \in Entry,
           x.path = v[k].path,
           Id(v, k)[1] = m => (x.deleted => v[k].deleted) /\ (x.edited => v[k].edited)
    PROVE  /\ [v EXCEPT ![k] = x] \in Seq(Entry)
           /\ \E e : From(v, [v EXCEPT ![k] = x], e, m)
<1>1. PICK w : w = [v EXCEPT ![k] = x]
    OBVIOUS
<1>2. w \in Seq(Entry)
    BY <1>1
<1>3. DOMAIN w = DOMAIN v /\ \A i \in DOMAIN v : w[i] = IF i = k THEN x ELSE v[i]
    BY <1>1
<1>4. QED BY <1>1, <1>2, <1>3, Remarked

\* The parts of an entry.
LEMMA EntryAt ==
    ASSUME Types, NEW i \in DOMAIN index
    PROVE  /\ index[i] \in Entry /\ index[i].path \in File /\ Id(index, i) \in Letter \X {0, 1}
           /\ index[i].deleted \in BOOLEAN /\ index[i].read \in BOOLEAN /\ index[i].old \in BOOLEAN
           /\ i # 0
<1>1. index[i] \in Entry
    BY DEF Types
<1>2. QED BY <1>1 DEF Entry, File, Unique, Id, Types

-----------------------------------------------------------------------------
(* Steps that leave the files alone *)

\* The entries are closed, or marked, or kept, and no scan is under way.
Quiet(m) ==
    /\ disk' = disk /\ listed' \in {listed, {}}
    /\ mpc' \notin {"scancur", "merge", "unlink"}
    /\ \/ index' = <<>>
       \/ mpc # "unlink" /\ \E e : From(index, index', e, m)

\* A step that leaves the files alone loses no letter.
LEMMA QuietSafe ==
    ASSUME Types, NEW m, LetterSafe(m), Quiet(m)
    PROVE  LetterSafe(m)'
<1>1. FilesSafe(disk', m) /\ NamesSafe(listed', disk', m)
    BY DEF LetterSafe, Quiet, NamesSafe
<1>2. Busy' = 0 /\ Done' = {}
    BY DEF Quiet, Busy, Done
<1>3. EntriesSafe(index', disk', m, 0)
    <2>1. CASE index' = <<>>
        BY <2>1 DEF EntriesSafe
    <2>2. CASE mpc # "unlink" /\ \E e : From(index, index', e, m)
        <3>1. EntriesSafe(index, disk, m, 0)
            BY <2>2 DEF LetterSafe, Busy
        <3>2. 0 \notin DOMAIN index
            BY EntryAt
        <3>3. EntriesSafe(index', disk, m, 0)
            BY <2>2, <3>1, <3>2, FromSafe
        <3>4. QED BY <3>3 DEF Quiet
    <2>3. QED BY <2>1, <2>2 DEF Quiet
<1>4. Seen(index', listed', Done', m)
    BY <1>2 DEF Seen
<1>5. CopySafe(m)'
    BY DEF CopySafe, Quiet
<1>6. EntriesSafe(index', disk', m, Busy')
    BY <1>2, <1>3
<1>7. QED BY <1>1, <1>4, <1>5, <1>6 DEF LetterSafe

\* A mailbox without entries.
LEMMA NoEntries == <<>> \in Seq(Entry)
OBVIOUS

\* Nothing happens to the entries.
LEMMA SameEntries ==
    ASSUME NEW v, NEW m
    PROVE  \E e : From(v, v, e, m)
BY Remarked

QuietStep ==
    \/ StartOpen \/ Die \/ StartCheck \/ CheckStat \/ MdRequest \/ MdCloseAtOnce
    \/ SaveNothing \/ SaveStat \/ RenameFails \/ CopyFailed \/ SyncEnds

\* Reading a message, and asking for a sync or a close.
LEMMA RequestQuiet ==
    ASSUME Types, NEW m, MdRequest
    PROVE  index' \in Seq(Entry) /\ mpc' # "unlink" /\ mpc = "idle"
           /\ mpc' \in {"idle", "stat"} /\ \E e : From(index, index', e, m)
<1>0. index \in Seq(Entry)
    BY DEF Types
<1>1. ASSUME NEW i \in DOMAIN index, SetRead(i)
      PROVE  index' \in Seq(Entry) /\ mpc' = "idle" /\ mpc = "idle" /\ \E e : From(index, index', e, m)
    <2>1. PICK x : x = [index[i] EXCEPT !.read = TRUE, !.changed = TRUE]
        OBVIOUS
    <2>2. index[i] \in Entry
        BY EntryAt
    <2>3. /\ x \in Entry /\ x.path = index[i].path
          /\ x.deleted => index[i].deleted
          /\ x.edited => index[i].edited
        BY <2>1, <2>2 DEF Entry
    <2>4. index' = [index EXCEPT ![i] = x]
        BY <1>1, <2>1 DEF SetRead
    <2>5. index' \in Seq(Entry) /\ \E e : From(index, index', e, m)
        BY <1>0, <2>3, <2>4, OneRemarked
    <2>6. QED BY <1>1, <2>5 DEF SetRead
<1>2. ASSUME NEW answer \in BOOLEAN, BeginSync(answer)
      PROVE  index' \in Seq(Entry) /\ mpc' = "stat" /\ mpc = "idle" /\ \E e : From(index, index', e, m)
    <2>1. index' = index \/ index' = Undelete(index)
        BY <1>2 DEF BeginSync
    <2>2. index' \in Seq(Entry) /\ \E e : From(index, index', e, m)
        BY <1>0, <2>1, SameEntries, UndeleteIs
    <2>3. QED BY <1>2, <2>2 DEF BeginSync
<1>3. ASSUME NEW answer \in BOOLEAN, BeginClose(answer)
      PROVE  index' \in Seq(Entry) /\ mpc' = "stat" /\ mpc = "idle" /\ \E e : From(index, index', e, m)
    <2>1. index' = Aged(index) \/ index' = Undelete(Aged(index))
        BY <1>3 DEF BeginClose
    <2>2. PICK a : a = Aged(index)
        OBVIOUS
    <2>3. a \in Seq(Entry) /\ \E e : From(index, a, e, m)
        BY <1>0, <2>2, AgedIs
    <2>4. Undelete(a) \in Seq(Entry) /\ \E e : From(a, Undelete(a), e, m)
        BY <2>3, UndeleteIs
    <2>5. PICK b : b = Undelete(a)
        OBVIOUS
    <2>6. \E e : From(index, b, e, m)
        BY <2>3, <2>4, <2>5, FromTwice
    <2>7. index' = a \/ index' = b
        BY <2>1, <2>2, <2>5
    <2>8. QED BY <1>3, <2>3, <2>4, <2>5, <2>6, <2>7 DEF BeginClose
<1>4. QED BY <1>1, <1>2, <1>3 DEF MdRequest, SetRead

\* These steps leave the files alone.
LEMMA QuietSteps ==
    ASSUME Types, QuietStep, NEW m
    PROVE  Quiet(m) /\ Types'
<1> USE DEF mxVars, indexVars, callVars, checkVars, fateVars
<1>0. index \in Seq(Entry)
    BY DEF Types
<1>1. CASE StartOpen \/ StartCheck \/ CheckStat \/ SaveNothing \/ RenameFails \/ CopyFailed
    <2>1. /\ index' = index /\ disk' = disk /\ listed' = listed /\ arrived' = arrived
          /\ mpc # "unlink" /\ mpc' \notin {"scancur", "merge", "unlink"}
        <3>1. CASE StartOpen \/ StartCheck
            BY <3>1 DEF StartOpen, StartCheck, BeginCheck
        <3>2. CASE CheckStat
            BY <3>2 DEF CheckStat, Checked, Idle
        <3>3. CASE SaveNothing
            BY <3>3 DEF SaveNothing, At, NextMessage
        <3>4. CASE RenameFails \/ CopyFailed
            BY <3>4 DEF RenameFails, CopyFailed, At, SyncFails, Idle
        <3>5. QED BY <1>1, <3>1, <3>2, <3>3, <3>4
    <2>2. QED BY <2>1, SameEntries DEF Quiet, Types
<1>2. CASE Die \/ MdCloseAtOnce
    <2>1. /\ index' = <<>> /\ disk' = disk /\ listed' = {} /\ arrived' = arrived /\ mpc' = "closed"
        BY <1>2 DEF Die, Leave, MdCloseAtOnce, CloseAtOnce, FastClose
    <2>2. QED BY <2>1, NoEntries DEF Quiet, Types
<1>3. CASE MdRequest
    <2>1. disk' = disk /\ listed' = listed /\ arrived' = arrived
        BY <1>3 DEF MdRequest
    <2>2. QED BY <1>3, <2>1, RequestQuiet DEF Quiet, Types
<1>4. CASE SaveStat
    <2>0. pos \in DOMAIN index /\ mpc = "save" /\ This = index[pos]
        BY <1>4 DEF SaveStat, At, This
    <2>1. PICK x : x = [index[pos] EXCEPT !.trash = index[pos].deleted]
        OBVIOUS
    <2>2. index[pos] \in Entry
        BY <2>0, EntryAt
    <2>3. /\ x \in Entry /\ x.path = index[pos].path
          /\ x.deleted => index[pos].deleted
          /\ x.edited => index[pos].edited
        BY <2>1, <2>2 DEF Entry
    <2>4. index' = [index EXCEPT ![pos] = x]
        BY <1>4, <2>0, <2>1 DEF SaveStat
    <2>5. index' \in Seq(Entry) /\ \E e : From(index, index', e, m)
        BY <1>0, <2>0, <2>3, <2>4, OneRemarked
    <2>6. disk' = disk /\ listed' = listed /\ arrived' = arrived /\ mpc' \in {"rename", "save"}
        BY <1>4 DEF SaveStat, NextMessage
    <2>7. QED BY <2>0, <2>5, <2>6 DEF Quiet, Types
<1>5. CASE SyncEnds
    <2>1. disk' = disk /\ listed' = {} /\ arrived' = arrived /\ mpc = "save" /\ mpc' \in {"idle", "closed"}
        BY <1>5 DEF SyncEnds, SyncReturns, FastClose, Idle
    <2>2. index' = <<>> \/ index' = index \/ index' = Staying(index)
        BY <1>5 DEF SyncEnds, SyncReturns, FastClose, Idle, TablesUpdated, Staying
    <2>3. index' \in Seq(Entry) /\ \E e : (index' # <<>> => From(index, index', e, m))
        BY <1>0, <2>2, StayingIs, SameEntries, NoEntries
    <2>4. QED BY <2>1, <2>3 DEF Quiet, Types
<1>6. QED BY <1>1, <1>2, <1>3, <1>4, <1>5 DEF QuietStep

\* The user gives up letter m, or takes another one back.
LEMMA DeleteQuiet ==
    ASSUME Types, NEW i \in DOMAIN index, NEW d \in BOOLEAN, MdDelete(i, d), NEW m
    PROVE  /\ m \notin doomed' => Quiet(m)
           /\ Types' /\ DOMAIN index' = DOMAIN index
           /\ \A j \in DOMAIN index : index'[j].path = index[j].path
<1>1. PICK x : x = [index[i] EXCEPT !.deleted = d]
    OBVIOUS
<1>2. index[i] \in Entry /\ index \in Seq(Entry)
    BY EntryAt DEF Types
<1>3. x \in Entry /\ x.path = index[i].path /\ (x.deleted => d) /\ (x.edited => index[i].edited)
    BY <1>1, <1>2 DEF Entry
<1>4. index' = [index EXCEPT ![i] = x]
    BY <1>1 DEF MdDelete, SetDeleted
<1>5. /\ disk' = disk /\ listed' = listed /\ arrived' = arrived /\ mpc = "idle" /\ mpc' = "idle"
    BY DEF MdDelete, SetDeleted, checkVars
<1>6. index' \in Seq(Entry)
    BY <1>2, <1>3, <1>4
<1>7. ASSUME m \notin doomed' PROVE \E e : From(index, index', e, m)
    <2>1. d => Id(index, i)[1] # m
        BY <1>7 DEF MdDelete, Id
    <2>2. QED BY <1>2, <1>3, <1>4, <2>1, OneRemarked
<1>8. \A j \in DOMAIN index : index'[j].path = index[j].path
    BY <1>2, <1>3, <1>4
<1>9. QED BY <1>2, <1>4, <1>5, <1>6, <1>7, <1>8 DEF Quiet, Types

-----------------------------------------------------------------------------
(* Steps that touch the files *)

\* The files of letter m are the same.
SameFiles(d, e, m) == \A f \in d \cup e : f.id[1] = m => f \in d /\ f \in e

\* What happens to the files of other letters is of no matter.
LEMMA SameFilesSafe ==
    ASSUME NEW m, NEW d, NEW e, NEW v, NEW s, NEW b, SameFiles(d, e, m)
    PROVE  /\ FilesSafe(d, m) => FilesSafe(e, m)
           /\ EntriesSafe(v, d, m, b) => EntriesSafe(v, e, m, b)
           /\ NamesSafe(s, d, m) => NamesSafe(s, e, m)
<1>1. ASSUME NEW id, NEW dir, id[1] = m, OnDisk(id, dir, d)
      PROVE  OnDisk(id, dir, e)
    BY <1>1 DEF OnDisk, SameFiles
<1>2. FilesSafe(d, m) => FilesSafe(e, m)
    BY DEF FilesSafe, SameFiles
<1>3. NamesSafe(s, d, m) => NamesSafe(s, e, m)
    BY <1>1 DEF NamesSafe
<1>4. (\A f \in d : f.id # <<m, 1>>) => \A f \in e : f.id # <<m, 1>>
    <2>1. <<m, 1>>[1] = m
        OBVIOUS
    <2>2. QED BY <2>1 DEF SameFiles
<1>5. EntriesSafe(v, d, m, b) => EntriesSafe(v, e, m, b)
    <2>1. SUFFICES ASSUME EntriesSafe(v, d, m, b) PROVE EntriesSafe(v, e, m, b)
        OBVIOUS
    <2>2. ASSUME NEW i \in DOMAIN v, Id(v, i)[1] = m
          PROVE  /\ ~v[i].deleted
                 /\ OnDisk(Id(v, i), v[i].path.dir, e)
                 /\ v[i].edited /\ i # b => \A f \in e : f.id # <<m, 1>>
        BY <1>1, <1>4, <2>1, <2>2 DEF EntriesSafe
    <2>3. QED BY <2>1, <2>2 DEF EntriesSafe
<1>6. QED BY <1>2, <1>3, <1>5

\* A file takes another name, for the same message in the same directory.
LEMMA RenamedSafe ==
    ASSUME NEW m, NEW d, NEW v, NEW s, NEW b, NEW f \in d, NEW g,
           g.id = f.id, g.dir = f.dir, g.trash => f.trash
    PROVE  LET e == (d \ {f}) \cup {g}
           IN  /\ FilesSafe(d, m) => FilesSafe(e, m)
               /\ EntriesSafe(v, d, m, b) => EntriesSafe(v, e, m, b)
               /\ NamesSafe(s, d, m) => NamesSafe(s, e, m)
<1> DEFINE e == (d \ {f}) \cup {g}
<1>1. ASSUME NEW id, NEW dir, OnDisk(id, dir, d)
      PROVE  OnDisk(id, dir, e)
    BY <1>1 DEF OnDisk
<1>2. FilesSafe(d, m) => FilesSafe(e, m)
    <2>1. SUFFICES ASSUME FilesSafe(d, m) PROVE FilesSafe(e, m)
        OBVIOUS
    <2>2. \E h \in e : h.id[1] = m
        BY <2>1 DEF FilesSafe
    <2>3. \A h \in e : h.id[1] = m => ~h.trash
        BY <2>1 DEF FilesSafe
    <2>4. ASSUME NEW h \in e, NEW k \in e, h.id[1] = m, h.id = k.id
          PROVE  h = k
        BY <2>1, <2>4 DEF FilesSafe
    <2>5. QED BY <2>2, <2>3, <2>4 DEF FilesSafe
<1>3. NamesSafe(s, d, m) => NamesSafe(s, e, m)
    BY <1>1 DEF NamesSafe
<1>4. (\A h \in d : h.id # <<m, 1>>) => \A h \in e : h.id # <<m, 1>>
    OBVIOUS
<1>5. EntriesSafe(v, d, m, b) => EntriesSafe(v, e, m, b)
    BY <1>1, <1>4 DEF EntriesSafe
<1>6. QED BY <1>2, <1>3, <1>5

\* Nothing but the files changes.
FilesOnly == /\ index' = index /\ mpc' = mpc /\ listed' = listed
             /\ scanned' = scanned /\ pos' = pos

\* A step that changes nothing but the files.
LEMMA FilesOnlySafe ==
    ASSUME NEW m, FilesOnly, LetterSafe(m), FilesSafe(disk', m),
           EntriesSafe(index, disk', m, Busy), NamesSafe(listed, disk', m),
           \A id, dir : id[1] = m /\ OnDisk(id, dir, disk) => OnDisk(id, dir, disk')
    PROVE  LetterSafe(m)'
<1>1. Busy' = Busy /\ Done' = Done /\ Rewritten' = Rewritten
    BY DEF FilesOnly, Busy, Done, Rewritten, PathOf, This
<1>2. <<m, 1>>[1] = m
    OBVIOUS
<1>3. CopySafe(m)'
    BY <1>1, <1>2 DEF CopySafe, FilesOnly, LetterSafe, Id
<1>4. Seen(index', listed', Done', m)
    BY <1>1 DEF FilesOnly, LetterSafe
<1>5. QED BY <1>1, <1>3, <1>4 DEF LetterSafe, FilesOnly

\* A step that changes the files of other letters.
LEMMA ElsewhereSafe ==
    ASSUME NEW m, FilesOnly, LetterSafe(m), SameFiles(disk, disk', m)
    PROVE  LetterSafe(m)'
<1>1. /\ FilesSafe(disk', m) /\ EntriesSafe(index, disk', m, Busy)
      /\ NamesSafe(listed, disk', m)
    BY SameFilesSafe DEF LetterSafe
<1>2. \A id, dir : id[1] = m /\ OnDisk(id, dir, disk) => OnDisk(id, dir, disk')
    BY DEF OnDisk, SameFiles
<1>3. QED BY <1>1, <1>2, FilesOnlySafe

-----------------------------------------------------------------------------
(* Other clients *)

\* Other clients only add files of letters that have arrived.
LEMMA OthersKnown ==
    ASSUME Types, Known, FilesOnly, arrived \subseteq arrived', arrived' \subseteq Letter,
           disk' \subseteq File, IsFiniteSet(disk'), \A f \in disk' : f.id[1] \in arrived'
    PROVE  Types' /\ Known'
<1>1. Types'
    BY DEF Types, FilesOnly
<1>2. Known'
    <2>1. \A f \in disk' \cup listed' : f.id[1] \in arrived'
        BY DEF Known, FilesOnly
    <2>2. \A i \in DOMAIN index' : Id(index', i)[1] \in arrived'
        BY DEF Known, FilesOnly, Id
    <2>3. QED BY <2>1, <2>2 DEF Known, FilesOnly
<1>3. QED BY <1>1, <1>2

\* A letter is delivered.
LEMMA ArriveSafe ==
    ASSUME Types, Known, LettersInv, NEW x \in Letter, Arrive(x)
    PROVE  Types' /\ Known' /\ LettersInv'
<1> DEFINE g == [id |-> <<x, 0>>, dir |-> "new", seen |-> FALSE, trash |-> FALSE]
<1>1. /\ FilesOnly /\ world' = world /\ disk' = disk \cup {g} /\ doomed' = doomed
      /\ arrived' = arrived \cup {x} /\ x \notin arrived
    BY DEF Arrive, Store, FilesOnly, mxVars, indexVars, callVars, checkVars
<1>2. g \in File /\ g.id = <<x, 0>> /\ g.id[1] = x /\ ~g.trash
    BY DEF File, Unique, Dirs
<1> HIDE DEF g
<1>3. Types' /\ Known'
    <2>1. disk' \subseteq File /\ arrived' \subseteq Letter /\ IsFiniteSet(disk')
        BY <1>1, <1>2, FS_AddElement DEF Types
    <2>2. \A f \in disk' : f.id[1] \in arrived'
        BY <1>1, <1>2 DEF Known
    <2>3. QED BY <1>1, <2>1, <2>2, OthersKnown
<1>4. ASSUME NEW m \in arrived' \ doomed', ~world.moves
      PROVE  LetterSafe(m)'
    <2>1. CASE m = x
        <3>1. /\ \A f \in disk \cup listed : f.id[1] # m
              /\ \A i \in DOMAIN index : Id(index, i)[1] # m
            BY <1>1, <2>1 DEF Known
        <3>2. FilesSafe(disk', m)
            BY <1>1, <1>2, <2>1, <3>1 DEF FilesSafe
        <3>3. EntriesSafe(index', disk', m, Busy')
            BY <1>1, <3>1 DEF EntriesSafe, FilesOnly, Id
        <3>4. NamesSafe(listed', disk', m)
            BY <1>1, <3>1 DEF NamesSafe, FilesOnly
        <3>5. Seen(index', listed', Done', m)
            BY <1>1, <3>1 DEF Seen, FilesOnly, Id
        <3>6. CopySafe(m)'
            BY <1>1, <3>1 DEF CopySafe, FilesOnly, Id
        <3>7. QED BY <3>2, <3>3, <3>4, <3>5, <3>6 DEF LetterSafe
    <2>2. CASE m # x
        <3>1. LetterSafe(m)
            BY <1>1, <1>4, <2>2 DEF LettersInv
        <3>2. SameFiles(disk, disk', m)
            BY <1>1, <1>2, <2>2 DEF SameFiles
        <3>3. QED BY <1>1, <3>1, <3>2, ElsewhereSafe
    <2>3. QED BY <2>1, <2>2
<1>5. LettersInv'
    BY <1>1, <1>4 DEF LettersInv
<1>6. QED BY <1>3, <1>5

\* Another client renames or removes a file.
LEMMA ClientsSafe ==
    ASSUME Types, Known, LettersInv, NEW f \in disk, MoveToCur(f) \/ Refile(f) \/ Discard(f)
    PROVE  Types' /\ Known' /\ LettersInv'
<1> DEFINE a == [f EXCEPT !.dir = "cur"]
<1> DEFINE b == [f EXCEPT !.seen = TRUE]
<1> DEFINE c == [f EXCEPT !.trash = TRUE]
<1>1. /\ f \in File /\ a \in File /\ a.id = f.id
      /\ b \in File /\ b.id = f.id /\ b.dir = f.dir /\ (b.trash => f.trash)
      /\ c \in File /\ c.id = f.id
    BY DEF Types, File, Dirs
<1> HIDE DEF a, b, c
<1>2. FilesOnly /\ world' = world /\ arrived' = arrived /\ doomed \subseteq doomed'
    BY DEF MoveToCur, Refile, Discard, Store, FilesOnly, mxVars, indexVars, callVars, checkVars, fateVars
<1>3. \/ disk' = (disk \ {f}) \cup {a} /\ world.moves
      \/ disk' = (disk \ {f}) \cup {b}
      \/ disk' = (disk \ {f}) \cup {c} /\ f.id[1] \in doomed'
      \/ disk' = disk \ {f} /\ f.id[1] \in doomed'
    BY DEF MoveToCur, Refile, Discard, Store, a, b, c
<1>4. Types' /\ Known'
    <2>1. PICK g \in File : g.id = f.id /\ disk' \subseteq disk \cup {g}
        BY <1>1, <1>3
    <2>2. IsFiniteSet(disk')
        BY <2>1, FS_AddElement, FS_Subset DEF Types
    <2>3. disk' \subseteq File /\ \A h \in disk' : h.id[1] \in arrived'
        BY <1>2, <2>1 DEF Types, Known
    <2>4. QED BY <1>2, <2>2, <2>3, OthersKnown DEF Types
<1>5. ASSUME NEW m \in arrived' \ doomed', ~world.moves
      PROVE  LetterSafe(m)'
    <2>1. LetterSafe(m)
        BY <1>2, <1>5 DEF LettersInv
    <2>2. CASE disk' = (disk \ {f}) \cup {b}
        <3>1. /\ FilesSafe(disk', m) /\ EntriesSafe(index, disk', m, Busy)
              /\ NamesSafe(listed, disk', m)
            BY <1>1, <2>1, <2>2, RenamedSafe DEF LetterSafe
        <3>2. \A id, dir : id[1] = m /\ OnDisk(id, dir, disk) => OnDisk(id, dir, disk')
            BY <1>1, <2>2 DEF OnDisk
        <3>3. QED BY <1>2, <2>1, <3>1, <3>2, FilesOnlySafe
    <2>3. CASE disk' # (disk \ {f}) \cup {b}
        <3>1. f.id[1] # m
            BY <1>3, <1>5, <2>3
        <3>2. SameFiles(disk, disk', m)
            BY <1>1, <1>3, <2>3, <3>1 DEF SameFiles
        <3>3. QED BY <1>2, <2>1, <3>2, ElsewhereSafe
    <2>4. QED BY <2>2, <2>3
<1>6. LettersInv'
    BY <1>2, <1>5 DEF LettersInv
<1>7. QED BY <1>4, <1>6

-----------------------------------------------------------------------------
(* NeoMutt saves *)

\* An entry of another letter changes.
LEMMA OtherEntrySafe ==
    ASSUME NEW v, NEW w, NEW k, NEW d, NEW m, NEW b, NEW c, EntriesSafe(v, d, m, b),
           DOMAIN w = DOMAIN v, k \in DOMAIN v => Id(w, k)[1] # m,
           \A i \in DOMAIN v : i # k => w[i] = v[i] /\ (i = b => i = c)
    PROVE  EntriesSafe(w, d, m, c)
<1>1. \A i \in DOMAIN w : Id(w, i)[1] = m => i # k /\ i \in DOMAIN v /\ w[i] = v[i] /\ Id(w, i) = Id(v, i)
    BY DEF Id
<1>2. ASSUME NEW i \in DOMAIN w, Id(w, i)[1] = m
      PROVE  /\ ~w[i].deleted
             /\ OnDisk(Id(w, i), w[i].path.dir, d)
             /\ w[i].edited /\ i # c => \A f \in d : f.id # <<m, 1>>
    BY <1>1, <1>2 DEF EntriesSafe
<1>3. ASSUME NEW i \in DOMAIN w, NEW j \in DOMAIN w, Id(w, i)[1] = m, Id(w, i) = Id(w, j)
      PROVE  i = j
    <2>1. i \in DOMAIN v /\ j \in DOMAIN v /\ Id(v, i)[1] = m /\ Id(v, i) = Id(v, j)
        BY <1>1, <1>3
    <2>2. QED BY <2>1 DEF EntriesSafe
<1>4. QED BY <1>2, <1>3 DEF EntriesSafe

\* NeoMutt is at an entry, and nothing that was read is left.
LEMMA Saving ==
    ASSUME Types, Known, mpc \in {"save", "rename", "unlink"}, pos \in DOMAIN index
    PROVE  /\ listed = {} /\ This = index[pos] /\ This \in Entry /\ This.path \in File
           /\ Id(index, pos) = This.path.id /\ This.path.id[1] \in arrived /\ pos # 0
           /\ PathOf(This) \in File /\ PathOf(This).id = This.path.id
           /\ PathOf(This).trash = This.deleted
           /\ Rewritten \in File /\ Rewritten.id = <<This.path.id[1], 1>>
           /\ Rewritten.id[1] = This.path.id[1] /\ Rewritten.trash = This.deleted
<1>1. listed = {} /\ This = index[pos] /\ This.path.id[1] \in arrived /\ Id(index, pos) = This.path.id
    BY DEF Known, This, Id
<1>2. This \in Entry /\ This.path \in File /\ pos # 0
    BY <1>1, EntryAt
<1>3. /\ PathOf(This) \in File /\ PathOf(This).id = This.path.id
      /\ PathOf(This).trash = This.deleted
    BY <1>2 DEF PathOf, Entry, File, Dirs
<1>4. QED BY <1>1, <1>2, <1>3, SecondName DEF Rewritten

\* What a step of saving does not disturb.
SaveStep == /\ world' = world /\ listed' = listed /\ arrived' = arrived /\ doomed' = doomed
            /\ mpc \in {"save", "rename", "unlink"} /\ mpc' \in {"save", "unlink"}
            /\ pos \in DOMAIN index /\ DOMAIN index' = DOMAIN index
            /\ mpc' = "unlink" => pos' = pos

\* Saving writes files of the letter it is at.
LEMMA SavingKnown ==
    ASSUME Types, Known, SaveStep, NEW g \in File, g.id[1] = This.path.id[1],
           disk' \subseteq disk \cup {g}, index' \in Seq(Entry),
           \A i \in DOMAIN index : index'[i].path = index[i].path \/ index'[i].path = g
    PROVE  Types' /\ Known'
<1>1. listed = {} /\ This.path.id[1] \in arrived
    BY Saving DEF SaveStep
<1>2. IsFiniteSet(disk')
    BY FS_AddElement, FS_Subset DEF Types
<1>3. Types'
    BY <1>2 DEF Types, SaveStep
<1>4. \A f \in disk' \cup listed' : f.id[1] \in arrived'
    BY <1>1 DEF Known, SaveStep
<1>5. \A i \in DOMAIN index' : Id(index', i)[1] \in arrived'
    BY <1>1 DEF Known, SaveStep, Id
<1>6. Known'
    BY <1>1, <1>4, <1>5 DEF Known, SaveStep
<1>7. QED BY <1>3, <1>6

\* A letter that NeoMutt is not saving.
LEMMA NotSaved ==
    ASSUME Types, Known, NEW m, LetterSafe(m), SaveStep, SameFiles(disk, disk', m),
           This.path.id[1] # m, index'[pos].path.id[1] # m,
           \A i \in DOMAIN index : i # pos => index'[i] = index[i]
    PROVE  LetterSafe(m)'
<1>1. listed = {} /\ Id(index, pos)[1] # m
    BY Saving DEF SaveStep
<1>2. \A i \in DOMAIN index : i # pos => index'[i] = index[i] /\ (i = Busy => i = Busy')
    BY EntryAt DEF Busy
<1>3. EntriesSafe(index', disk, m, Busy')
    <2>1. EntriesSafe(index, disk, m, Busy)
        BY DEF LetterSafe
    <2>2. Id(index', pos)[1] # m
        BY DEF Id
    <2>3. QED BY <1>2, <2>1, <2>2, OtherEntrySafe DEF SaveStep
<1>4. FilesSafe(disk', m) /\ EntriesSafe(index', disk', m, Busy')
    BY <1>3, SameFilesSafe DEF LetterSafe
<1>5. NamesSafe(listed', disk', m)
    BY <1>1 DEF NamesSafe, SaveStep
<1>6. Seen(index', listed', Done', m)
    BY DEF Seen, Done, SaveStep
<1>7. CopySafe(m)'
    BY DEF CopySafe, SaveStep, Id
<1>8. QED BY <1>4, <1>5, <1>6, <1>7 DEF LetterSafe

\* The letter that NeoMutt is saving.
LEMMA LetterSaved ==
    ASSUME Types, Known, NEW m, SaveStep, FilesSafe(disk', m), EntriesSafe(index', disk', m, Busy'),
           CopySafe(m)'
    PROVE  LetterSafe(m)'
<1>1. listed' = {}
    BY Saving DEF SaveStep
<1>2. NamesSafe(listed', disk', m)
    BY <1>1 DEF NamesSafe
<1>3. Seen(index', listed', Done', m)
    BY DEF Seen, Done, SaveStep
<1>4. QED BY <1>2, <1>3 DEF LetterSafe

\* A letter that is unlinked is marked as deleted.
LEMMA DeletedSafe ==
    ASSUME Types, Known, LettersInv, SaveDeleted
    PROVE  Types' /\ Known' /\ LettersInv'
<1>1. /\ SaveStep /\ mpc = "save" /\ index' = index /\ disk' = disk \ {This.path} /\ This.deleted
      /\ mpc' = "save"
    BY DEF SaveDeleted, At, Store, Unlinked, NextMessage, SaveStep, indexVars, checkVars, fateVars
<1>2. This.path \in File /\ Id(index, pos) = This.path.id /\ This = index[pos]
    BY <1>1, Saving DEF SaveStep
<1>3. Types' /\ Known'
    <2>1. index \in Seq(Entry)
        BY DEF Types
    <2>2. QED BY <1>1, <1>2, <2>1, SavingKnown
<1>4. ASSUME NEW m \in arrived' \ doomed', ~world'.moves
      PROVE  LetterSafe(m)'
    <2>1. LetterSafe(m)
        BY <1>1, <1>4 DEF LettersInv, SaveStep
    <2>2. This.path.id[1] # m
        BY <1>1, <1>2, <2>1 DEF LetterSafe, EntriesSafe, SaveStep
    <2>3. SameFiles(disk, disk', m)
        BY <1>1, <2>2 DEF SameFiles
    <2>4. index'[pos].path.id[1] # m
        BY <1>1, <1>2, <2>2
    <2>5. QED BY <1>1, <2>1, <2>2, <2>3, <2>4, NotSaved
<1>5. QED BY <1>3, <1>4 DEF LettersInv

\* A letter that is renamed keeps its file.
LEMMA RenameSafe ==
    ASSUME Types, Known, LettersInv, SaveRename
    PROVE  Types' /\ Known' /\ LettersInv'
<1> DEFINE f == This.path
<1> DEFINE g == PathOf(This)
<1>1. /\ SaveStep /\ mpc = "rename" /\ f \in disk /\ disk' = (disk \ {f}) \cup {g}
      /\ index' = [index EXCEPT ![pos].path = g] /\ mpc' = "save"
    BY DEF SaveRename, At, Store, NextMessage, SaveStep, checkVars, fateVars
<1>2. /\ This = index[pos] /\ This \in Entry /\ f \in File /\ g \in File /\ g.id = f.id
      /\ g.trash = This.deleted /\ Id(index, pos) = f.id
    BY <1>1, Saving DEF SaveStep
<1>3. PICK x : x = [This EXCEPT !.path = g]
    OBVIOUS
<1>4. /\ x \in Entry /\ x.path = g /\ (x.deleted => This.deleted) /\ (x.edited => This.edited)
    BY <1>2, <1>3 DEF Entry
<1> HIDE DEF f, g
<1>5. index' = [index EXCEPT ![pos] = x] /\ pos \in DOMAIN index
    BY <1>1, <1>2, <1>3 DEF SaveStep
<1>6. /\ index' \in Seq(Entry) /\ index'[pos] = x /\ DOMAIN index' = DOMAIN index
      /\ \A i \in DOMAIN index : i # pos => index'[i] = index[i]
    BY <1>4, <1>5 DEF Types
<1>7. Types' /\ Known'
    <2>1. \A i \in DOMAIN index : index'[i].path = index[i].path \/ index'[i].path = g
        BY <1>4, <1>6
    <2>2. g.id[1] = This.path.id[1] /\ disk' \subseteq disk \cup {g}
        BY <1>1, <1>2 DEF f
    <2>3. QED BY <1>1, <1>2, <1>6, <2>1, <2>2, SavingKnown
<1>8. ASSUME NEW m \in arrived' \ doomed', ~world'.moves
      PROVE  LetterSafe(m)'
    <2>1. LetterSafe(m)
        BY <1>1, <1>8 DEF LettersInv, SaveStep
    <2>2. CASE f.id[1] # m
        <3>1. SameFiles(disk, disk', m)
            BY <1>1, <1>2, <2>2 DEF SameFiles
        <3>2. index'[pos].path.id[1] # m
            BY <1>2, <1>4, <1>6, <2>2
        <3>3. This.path.id[1] # m
            BY <2>2 DEF f
        <3>4. QED BY <1>1, <1>6, <2>1, <3>1, <3>2, <3>3, NotSaved
    <2>3. CASE f.id[1] = m
        <3>1. /\ FilesSafe(disk, m) /\ EntriesSafe(index, disk, m, 0) /\ Busy' = 0
            BY <1>1, <2>1 DEF LetterSafe, Busy
        <3>2. ~This.deleted
            BY <1>2, <1>5, <2>3, <3>1 DEF EntriesSafe
        <3>3. FilesSafe(disk', m)
            <4>1. \E h \in disk' : h.id[1] = m
                BY <1>1, <1>2, <2>3
            <4>2. \A h \in disk' : h.id[1] = m => ~h.trash
                BY <1>1, <1>2, <3>1, <3>2 DEF FilesSafe
            <4>3. \A h, k \in disk' : h.id[1] = m /\ h.id = k.id => h = k
                BY <1>1, <1>2, <3>1 DEF FilesSafe
            <4>4. QED BY <4>1, <4>2, <4>3 DEF FilesSafe
        <3>4. (\A h \in disk : h.id # <<m, 1>>) => \A h \in disk' : h.id # <<m, 1>>
            BY <1>1, <1>2
        <3>5. \A i \in DOMAIN index' : Id(index', i) = Id(index, i)
            BY <1>2, <1>4, <1>6 DEF Id
        <3>6. ASSUME NEW i \in DOMAIN index', Id(index', i)[1] = m
              PROVE  /\ ~index'[i].deleted
                     /\ OnDisk(Id(index', i), index'[i].path.dir, disk')
                     /\ index'[i].edited => \A h \in disk' : h.id # <<m, 1>>
            <4>1. i \in DOMAIN index /\ i # 0 /\ Id(index, i)[1] = m /\ Id(index', i) = Id(index, i)
                BY <1>6, <3>5, <3>6, EntryAt
            <4>2. ~index[i].deleted /\ (index[i].edited => \A h \in disk : h.id # <<m, 1>>)
                BY <3>1, <4>1 DEF EntriesSafe
            <4>3. CASE i = pos
                <5>1. OnDisk(Id(index', i), index'[i].path.dir, disk')
                    BY <1>1, <1>2, <1>4, <1>6, <4>3 DEF OnDisk, Id
                <5>2. QED BY <1>2, <1>4, <1>6, <3>4, <4>2, <4>3, <5>1
            <4>4. CASE i # pos
                <5>1. Id(index, i) # f.id
                    BY <1>2, <1>5, <3>1, <4>1, <4>4 DEF EntriesSafe
                <5>2. OnDisk(Id(index, i), index[i].path.dir, disk)
                    BY <3>1, <4>1 DEF EntriesSafe
                <5>3. OnDisk(Id(index, i), index[i].path.dir, disk')
                    BY <1>1, <5>1, <5>2 DEF OnDisk
                <5>4. QED BY <1>6, <3>4, <4>1, <4>2, <4>4, <5>3
            <4>5. QED BY <4>3, <4>4
        <3>7. EntriesSafe(index', disk', m, 0)
            BY <1>6, <3>1, <3>5, <3>6 DEF EntriesSafe
        <3>8. EntriesSafe(index', disk', m, Busy') /\ CopySafe(m)'
            BY <1>1, <3>1, <3>7 DEF CopySafe
        <3>9. QED BY <1>1, <3>3, <3>8, LetterSaved
    <2>4. QED BY <2>2, <2>3
<1>9. QED BY <1>7, <1>8 DEF LettersInv

\* A letter that was edited is copied under a new name.
LEMMA CopyIsSafe ==
    ASSUME Types, Known, LettersInv, SaveCopy
    PROVE  Types' /\ Known' /\ LettersInv'
<1> DEFINE f == This.path
<1> DEFINE g == Rewritten
<1>1. /\ SaveStep /\ mpc = "save" /\ disk' = disk \cup {g} /\ This.edited /\ ~This.deleted
      /\ index' = index /\ mpc' = "unlink" /\ pos' = pos
      /\ \E h \in disk : h.id = f.id
    BY DEF SaveCopy, At, Store, SaveStep, indexVars, callVars, checkVars, fateVars
<1>2. /\ This = index[pos] /\ This \in Entry /\ f \in File /\ g \in File
      /\ g.id = <<f.id[1], 1>> /\ g.id[1] = f.id[1] /\ pos # 0
      /\ g.trash = This.deleted /\ Id(index, pos) = f.id
    BY <1>1, Saving DEF SaveStep
<1>3. Rewritten' = g /\ pos \in DOMAIN index
    BY <1>1 DEF Rewritten, PathOf, This, SaveStep
<1>4. f.id \in Letter \X {0, 1}
    BY <1>2 DEF File, Unique
<1> HIDE DEF f, g
<1>5. Types' /\ Known'
    <2>1. g.id[1] = This.path.id[1] /\ index \in Seq(Entry)
        BY <1>2 DEF f, Types
    <2>2. QED BY <1>1, <1>2, <2>1, SavingKnown
<1>6. ASSUME NEW m \in arrived' \ doomed', ~world'.moves
      PROVE  LetterSafe(m)'
    <2>1. LetterSafe(m)
        BY <1>1, <1>6 DEF LettersInv, SaveStep
    <2>2. CASE f.id[1] # m
        <3>1. SameFiles(disk, disk', m)
            BY <1>1, <1>2, <2>2 DEF SameFiles
        <3>2. index'[pos].path.id[1] # m /\ This.path.id[1] # m
            BY <1>1, <1>2, <2>2 DEF f
        <3>3. QED BY <1>1, <2>1, <3>1, <3>2, NotSaved
    <2>3. CASE f.id[1] = m
        <3>1. /\ FilesSafe(disk, m) /\ EntriesSafe(index, disk, m, 0) /\ Busy' = pos
            BY <1>1, <2>1 DEF LetterSafe, Busy
        <3>2. \A h \in disk : h.id # <<m, 1>>
            BY <1>1, <1>2, <1>3, <2>3, <3>1 DEF EntriesSafe
        <3>3. f.id = <<m, 0>>
            BY <1>1, <1>4, <2>3, <3>2
        <3>4. \A i \in DOMAIN index : Id(index, i) # <<m, 1>>
            <4>1. ASSUME NEW i \in DOMAIN index, Id(index, i) = <<m, 1>> PROVE FALSE
                <5>1. Id(index, i)[1] = m
                    BY <4>1
                <5>2. OnDisk(Id(index, i), index[i].path.dir, disk)
                    BY <3>1, <5>1 DEF EntriesSafe
                <5>3. QED BY <3>2, <4>1, <5>2 DEF OnDisk
            <4>2. QED BY <4>1
        <3>5. FilesSafe(disk', m)
            <4>1. \E h \in disk' : h.id[1] = m
                BY <1>1, <3>1 DEF FilesSafe
            <4>2. \A h \in disk' : h.id[1] = m => ~h.trash
                BY <1>1, <1>2, <3>1 DEF FilesSafe
            <4>3. \A h, k \in disk' : h.id[1] = m /\ h.id = k.id => h = k
                BY <1>1, <1>2, <2>3, <3>1, <3>2 DEF FilesSafe
            <4>4. QED BY <4>1, <4>2, <4>3 DEF FilesSafe
        <3>6. ASSUME NEW i \in DOMAIN index, Id(index, i)[1] = m
              PROVE  i = pos
            <4>1. Id(index, i) \in Letter \X {0, 1}
                BY EntryAt
            <4>2. Id(index, i) = <<m, 0>>
                BY <3>4, <3>6, <4>1
            <4>3. QED BY <1>2, <1>3, <3>1, <3>3, <3>6, <4>2 DEF EntriesSafe
        <3>7. EntriesSafe(index', disk', m, Busy')
            <4>1. ASSUME NEW i \in DOMAIN index, Id(index, i)[1] = m
                  PROVE  ~index[i].deleted /\ OnDisk(Id(index, i), index[i].path.dir, disk')
                BY <1>1, <3>1, <4>1 DEF EntriesSafe, OnDisk
            <4>2. EntriesSafe(index, disk', m, pos)
                BY <3>6, <4>1 DEF EntriesSafe
            <4>3. QED BY <1>1, <3>1, <4>2
        <3>8. CopySafe(m)'
            <4>1. OnDisk(<<m, 1>>, g.dir, disk')
                BY <1>1, <1>2, <2>3 DEF OnDisk
            <4>2. QED BY <1>1, <1>2, <1>3, <3>3, <3>4, <4>1 DEF CopySafe
        <3>9. QED BY <1>1, <3>5, <3>7, <3>8, LetterSaved
    <2>4. QED BY <2>2, <2>3
<1>7. QED BY <1>5, <1>6 DEF LettersInv

\* The copy is there when the old file goes.
LEMMA UnlinkSafe ==
    ASSUME Types, Known, LettersInv, SaveUnlink
    PROVE  Types' /\ Known' /\ LettersInv'
<1> DEFINE f == This.path
<1> DEFINE g == Rewritten
<1>1. /\ SaveStep /\ mpc = "unlink" /\ disk' = disk \ {f}
      /\ index' = [index EXCEPT ![pos].path = g, ![pos].edited = FALSE] /\ mpc' = "save"
    BY DEF SaveUnlink, At, Store, Unlinked, NextMessage, SaveStep, checkVars, fateVars
<1>2. /\ This = index[pos] /\ This \in Entry /\ f \in File /\ g \in File
      /\ g.id = <<f.id[1], 1>> /\ g.id[1] = f.id[1] /\ pos # 0
      /\ Id(index, pos) = f.id
    BY <1>1, Saving DEF SaveStep
<1>3. PICK x : x = [This EXCEPT !.path = g, !.edited = FALSE]
    OBVIOUS
<1>4. x \in Entry /\ x.path = g /\ (x.deleted => This.deleted) /\ ~x.edited
    BY <1>2, <1>3 DEF Entry
<1> HIDE DEF f
<1>5. index' = [index EXCEPT ![pos] = x] /\ pos \in DOMAIN index
    <2> HIDE DEF g
    <2>1. QED BY <1>1, <1>2, <1>3 DEF SaveStep, Types
<1> HIDE DEF g
<1>6. /\ index' \in Seq(Entry) /\ index'[pos] = x /\ DOMAIN index' = DOMAIN index
      /\ \A i \in DOMAIN index : i # pos => index'[i] = index[i]
    BY <1>4, <1>5 DEF Types
<1>7. Types' /\ Known'
    <2>1. \A i \in DOMAIN index : index'[i].path = index[i].path \/ index'[i].path = g
        BY <1>4, <1>6
    <2>2. g.id[1] = This.path.id[1] /\ disk' \subseteq disk \cup {g}
        BY <1>1, <1>2 DEF f
    <2>3. QED BY <1>1, <1>2, <1>6, <2>1, <2>2, SavingKnown
<1>8. ASSUME NEW m \in arrived' \ doomed', ~world'.moves
      PROVE  LetterSafe(m)'
    <2>1. LetterSafe(m)
        BY <1>1, <1>8 DEF LettersInv, SaveStep
    <2>2. CASE f.id[1] # m
        <3>1. SameFiles(disk, disk', m)
            BY <1>1, <1>2, <2>2 DEF SameFiles
        <3>2. index'[pos].path.id[1] # m
            BY <1>2, <1>4, <1>6, <2>2
        <3>3. This.path.id[1] # m
            BY <2>2 DEF f
        <3>4. QED BY <1>1, <1>6, <2>1, <3>1, <3>2, <3>3, NotSaved
    <2>3. CASE f.id[1] = m
        <3>1. /\ FilesSafe(disk, m) /\ EntriesSafe(index, disk, m, pos) /\ Busy' = 0
              /\ f.id = <<m, 0>> /\ OnDisk(<<m, 1>>, g.dir, disk)
              /\ \A i \in DOMAIN index : Id(index, i) # <<m, 1>>
            BY <1>1, <1>2, <1>5, <2>1, <2>3 DEF LetterSafe, Busy, CopySafe, g
        <3>2. <<m, 1>> # <<m, 0>> /\ <<m, 1>>[1] = m
            OBVIOUS
        <3>3. OnDisk(<<m, 1>>, g.dir, disk')
            BY <1>1, <3>1, <3>2 DEF OnDisk
        <3>4. FilesSafe(disk', m)
            <4>1. \E h \in disk' : h.id[1] = m
                BY <3>2, <3>3 DEF OnDisk
            <4>2. QED BY <1>1, <3>1, <4>1 DEF FilesSafe
        <3>5. ASSUME NEW i \in DOMAIN index', Id(index', i)[1] = m
              PROVE  i = pos
            <4>1. SUFFICES ASSUME i # pos PROVE FALSE
                OBVIOUS
            <4>2. i \in DOMAIN index /\ Id(index, i)[1] = m /\ Id(index, i) \in Letter \X {0, 1}
                BY <1>6, <3>5, <4>1, EntryAt DEF Id
            <4>3. Id(index, i) = <<m, 0>>
                BY <3>1, <4>2
            <4>4. QED BY <1>2, <1>5, <3>1, <4>1, <4>2, <4>3 DEF EntriesSafe
        <3>6. /\ ~index'[pos].deleted /\ ~index'[pos].edited
              /\ OnDisk(Id(index', pos), index'[pos].path.dir, disk')
            <4>1. ~This.deleted
                BY <1>2, <1>5, <2>3, <3>1 DEF EntriesSafe
            <4>2. Id(index', pos) = <<m, 1>> /\ index'[pos].path = g
                BY <1>2, <1>4, <1>6, <2>3 DEF Id
            <4>3. QED BY <1>4, <1>6, <3>3, <4>1, <4>2
        <3>7. EntriesSafe(index', disk', m, Busy')
            BY <3>5, <3>6 DEF EntriesSafe
        <3>8. CopySafe(m)'
            BY <1>1 DEF CopySafe
        <3>9. QED BY <1>1, <3>4, <3>7, <3>8, LetterSaved
    <2>4. QED BY <2>2, <2>3
<1>9. QED BY <1>7, <1>8 DEF LettersInv

-----------------------------------------------------------------------------
(* NeoMutt reads the directories *)

\* A scan adds files that no entry stands for.
LEMMA WithFilesSafe ==
    ASSUME Types, NEW v \in Seq(Entry), NEW s, NEW w, w = WithFiles(v, s), NEW m,
           EntriesSafe(v, disk, m, 0), FilesSafe(disk, m),
           \A f \in s \cap disk : f.id[1] = m => \A i \in DOMAIN v : Id(v, i) # f.id
    PROVE  EntriesSafe(w, disk, m, 0)
<1>1. /\ w \in Seq(Entry) /\ DOMAIN v \subseteq DOMAIN w
      /\ \A i \in DOMAIN v : w[i] = v[i]
      /\ \A i \in DOMAIN w \ DOMAIN v : w[i].path \in s \cap disk /\ w[i] = Parsed(w[i].path)
      /\ \A i, j \in DOMAIN w \ DOMAIN v : w[i].path = w[j].path => i = j
    BY WithFilesIs DEF Types
<1>2. \A i \in DOMAIN v : Id(w, i) = Id(v, i)
    BY <1>1 DEF Id
<1>3. ASSUME NEW i \in DOMAIN w \ DOMAIN v, Id(w, i)[1] = m
      PROVE  /\ ~w[i].deleted /\ ~w[i].edited
             /\ OnDisk(Id(w, i), w[i].path.dir, disk)
    <2>1. PICK f : f = w[i].path
        OBVIOUS
    <2>2. f \in disk /\ f \in File /\ f.id[1] = m /\ w[i] = Parsed(f)
        BY <1>1, <1>3, <2>1 DEF Types, Id
    <2>3. ~f.trash
        BY <2>2 DEF FilesSafe
    <2>4. QED BY <2>1, <2>2, <2>3 DEF Parsed, OnDisk, Id
<1>4. ASSUME NEW i \in DOMAIN w, Id(w, i)[1] = m
      PROVE  /\ ~w[i].deleted
             /\ OnDisk(Id(w, i), w[i].path.dir, disk)
             /\ w[i].edited /\ i # 0 => \A f \in disk : f.id # <<m, 1>>
    <2>1. CASE i \in DOMAIN v
        BY <1>1, <1>2, <1>4, <2>1 DEF EntriesSafe
    <2>2. CASE i \notin DOMAIN v
        BY <1>3, <1>4, <2>2
    <2>3. QED BY <2>1, <2>2
<1>5. ASSUME NEW i \in DOMAIN w, NEW j \in DOMAIN w \ DOMAIN v, Id(w, i)[1] = m, Id(w, i) = Id(w, j)
      PROVE  i = j
    <2>1. w[j].path \in s \cap disk /\ w[j].path.id = Id(w, j) /\ Id(w, j)[1] = m
        BY <1>1, <1>5 DEF Id
    <2>2. i \notin DOMAIN v
        BY <1>2, <1>5, <2>1
    <2>3. w[i].path \in disk /\ w[i].path.id = Id(w, i)
        BY <1>1, <2>2 DEF Id
    <2>4. w[i].path = w[j].path
        BY <1>5, <2>1, <2>3 DEF FilesSafe
    <2>5. QED BY <1>1, <2>2, <2>4
<1>6. ASSUME NEW i \in DOMAIN w, NEW j \in DOMAIN w, Id(w, i)[1] = m, Id(w, i) = Id(w, j)
      PROVE  i = j
    <2>1. CASE j \notin DOMAIN v
        BY <1>5, <1>6, <2>1
    <2>2. CASE i \notin DOMAIN v
        BY <1>5, <1>6, <2>2
    <2>3. CASE i \in DOMAIN v /\ j \in DOMAIN v
        BY <1>2, <1>6, <2>3 DEF EntriesSafe
    <2>4. QED BY <2>1, <2>2, <2>3
<1>7. QED BY <1>4, <1>6 DEF EntriesSafe

\* A step of reading: the files stay, and nothing is being rewritten.
ReadStep == /\ world' = world /\ disk' = disk /\ arrived' = arrived /\ doomed' = doomed
            /\ mpc # "unlink" /\ mpc' # "unlink"

\* When a step of reading loses no letter.
LEMMA ReadSafe ==
    ASSUME NEW m, LetterSafe(m), ReadStep, EntriesSafe(index', disk, m, 0),
           NamesSafe(listed', disk, m), Seen(index', listed', Done', m)
    PROVE  LetterSafe(m)'
<1>1. Busy' = 0 /\ CopySafe(m)'
    BY DEF Busy, CopySafe, ReadStep
<1>2. QED BY <1>1 DEF LetterSafe, ReadStep

\* maildir_parse_dir() when the mailbox is opened.
LEMMA ListSafe ==
    ASSUME Types, Known, LettersInv, ListDir
    PROVE  Types' /\ Known' /\ LettersInv'
<1> DEFINE d == IF mpc = "listnew" THEN "new" ELSE "cur"
<1>1. /\ ReadStep /\ index' = index /\ listed' = {f \in disk : f.dir = d} /\ scanned' = scanned
      /\ mpc \in {"listnew", "listcur"}
      /\ mpc' = IF mpc = "listnew" THEN "parsenew" ELSE "parsecur"
    BY DEF ListDir, InDir, ReadStep, indexVars, fateVars
<1>2. Types'
    BY <1>1 DEF Types, ReadStep
<1>3. Known'
    <2>1. \A f \in disk' \cup listed' : f.id[1] \in arrived'
        BY <1>1 DEF Known, ReadStep
    <2>2. \A i \in DOMAIN index' : Id(index', i)[1] \in arrived'
        BY <1>1 DEF Known, ReadStep, Id
    <2>3. QED BY <1>1, <2>1, <2>2 DEF Known
<1> HIDE DEF d
<1>4. ASSUME NEW m \in arrived' \ doomed', ~world'.moves
      PROVE  LetterSafe(m)'
    <2>1. LetterSafe(m) /\ Busy = 0
        BY <1>1, <1>4 DEF LettersInv, ReadStep, Busy
    <2>2. NamesSafe(listed', disk, m)
        BY <1>1, <2>1 DEF NamesSafe, OnDisk, LetterSafe, FilesSafe
    <2>3. Seen(index', listed', Done', m)
        BY <1>1 DEF Seen, Done
    <2>4. EntriesSafe(index', disk, m, 0)
        BY <1>1, <2>1 DEF LetterSafe
    <2>5. QED BY <1>1, <2>1, <2>2, <2>3, <2>4, ReadSafe
<1>5. QED BY <1>2, <1>3, <1>4 DEF LettersInv, ReadStep

\* maildir_delayed_parsing() when the mailbox is opened.
LEMMA ParseSafe ==
    ASSUME Types, Known, LettersInv, ParseDir
    PROVE  Types' /\ Known' /\ LettersInv'
<1>1. /\ ReadStep /\ index' = WithFiles(index, listed) /\ listed' = {}
      /\ mpc \in {"parsenew", "parsecur"}
      /\ mpc' = IF mpc = "parsenew" THEN "listcur" ELSE "idle"
    BY DEF ParseDir, ReadStep, fateVars
<1>2. /\ index' \in Seq(Entry) /\ DOMAIN index \subseteq DOMAIN index'
      /\ \A i \in DOMAIN index : index'[i] = index[i]
      /\ \A i \in DOMAIN index' \ DOMAIN index : index'[i].path \in listed \cap disk
    BY <1>1, WithFilesIs DEF Types
<1>3. Types'
    BY <1>1, <1>2 DEF Types, ReadStep
<1>4. Known'
    <2>1. \A f \in disk' \cup listed' : f.id[1] \in arrived'
        BY <1>1 DEF Known, ReadStep
    <2>2. \A i \in DOMAIN index' : Id(index', i)[1] \in arrived'
        BY <1>1, <1>2 DEF Known, ReadStep, Id
    <2>3. mpc = "parsenew" => \A i \in DOMAIN index' : index'[i].path.dir = "new"
        <3>1. SUFFICES ASSUME mpc = "parsenew", NEW i \in DOMAIN index' PROVE index'[i].path.dir = "new"
            OBVIOUS
        <3>2. i \in DOMAIN index' \ DOMAIN index
            BY <3>1 DEF Known
        <3>3. QED BY <1>2, <3>1, <3>2 DEF Known
    <2>4. QED BY <1>1, <2>1, <2>2, <2>3 DEF Known
<1>5. ASSUME NEW m \in arrived' \ doomed', ~world'.moves
      PROVE  LetterSafe(m)'
    <2>1. LetterSafe(m) /\ Busy = 0
        BY <1>1, <1>5 DEF LettersInv, ReadStep, Busy
    <2>2. EntriesSafe(index, disk, m, 0) /\ FilesSafe(disk, m)
        BY <2>1 DEF LetterSafe
    <2>3. ASSUME NEW f \in listed \cap disk, f.id[1] = m, NEW i \in DOMAIN index
          PROVE  Id(index, i) # f.id
        <3>1. SUFFICES ASSUME Id(index, i) = f.id PROVE FALSE
            OBVIOUS
        <3>2. index # <<>>
            BY <2>3
        <3>3. mpc = "parsecur" /\ f.dir = "cur" /\ index[i].path.dir = "new"
            BY <1>1, <3>2 DEF Known
        <3>4. OnDisk(f.id, "new", disk)
            BY <2>2, <2>3, <3>1, <3>3 DEF EntriesSafe
        <3>5. QED BY <2>2, <2>3, <3>3, <3>4 DEF OnDisk, FilesSafe
    <2>4. EntriesSafe(index', disk, m, 0)
        <3>1. index \in Seq(Entry)
            BY DEF Types
        <3>2. QED BY <1>1, <2>2, <2>3, <3>1, WithFilesSafe
    <2>5. NamesSafe(listed', disk, m)
        BY <1>1 DEF NamesSafe
    <2>6. Seen(index', listed', Done', m)
        BY <1>1 DEF Seen, Done
    <2>7. QED BY <1>1, <2>1, <2>4, <2>5, <2>6, ReadSafe
<1>6. QED BY <1>3, <1>4, <1>5 DEF LettersInv, ReadStep

\* maildir_parse_dir() in a check.
LEMMA ScanSafe ==
    ASSUME Types, Known, LettersInv, ScanDir
    PROVE  Types' /\ Known' /\ LettersInv'
<1> DEFINE d == IF mpc = "scannew" THEN "new" ELSE "cur"
<1>1. /\ ReadStep /\ index' = index /\ scanned' = scanned
      /\ listed' = listed \cup (IF d \in scanned THEN {f \in disk : f.dir = d} ELSE {})
      /\ mpc \in {"scannew", "scancur"}
      /\ mpc' = IF mpc = "scannew" THEN "scancur" ELSE "merge"
    BY DEF ScanDir, InDir, ReadStep, indexVars, fateVars
<1>2. Types'
    BY <1>1 DEF Types, ReadStep
<1>3. Known'
    <2>1. \A f \in disk' \cup listed' : f.id[1] \in arrived'
        BY <1>1 DEF Known, ReadStep
    <2>2. \A i \in DOMAIN index' : Id(index', i)[1] \in arrived'
        BY <1>1 DEF Known, ReadStep, Id
    <2>3. mpc' = "scancur" => \A f \in listed' : f.dir = "new"
        BY <1>1 DEF Known
    <2>4. QED BY <1>1, <2>1, <2>2, <2>3 DEF Known
<1>4. ASSUME NEW m \in arrived' \ doomed', ~world'.moves
      PROVE  LetterSafe(m)'
    <2>1. LetterSafe(m) /\ Busy = 0
        BY <1>1, <1>4 DEF LettersInv, ReadStep, Busy
    <2>2. EntriesSafe(index, disk, m, 0) /\ FilesSafe(disk, m) /\ NamesSafe(listed, disk, m)
          /\ Seen(index, listed, Done, m)
        BY <2>1 DEF LetterSafe
    <2>3. \A f \in listed' : f \in listed \/ (f \in disk /\ f.dir = d)
        BY <1>1
    <2>4. \A f \in listed : f.dir # d
        BY <1>1 DEF Known
    <2>5. ASSUME NEW f \in listed', f.id[1] = m
          PROVE  ~f.trash /\ OnDisk(f.id, f.dir, disk)
        BY <2>2, <2>3, <2>5 DEF NamesSafe, FilesSafe, OnDisk
    <2>6. ASSUME NEW f \in listed', NEW g \in listed', f.id[1] = m, f.id = g.id
          PROVE  f = g
        <3>1. f.dir = g.dir
            <4>1. PICK h \in disk : h.id = f.id /\ h.dir = f.dir
                BY <2>5, <2>6 DEF OnDisk
            <4>2. PICK k \in disk : k.id = g.id /\ k.dir = g.dir
                BY <2>5, <2>6 DEF OnDisk
            <4>3. h = k
                BY <2>2, <2>6, <4>1, <4>2 DEF FilesSafe
            <4>4. QED BY <4>1, <4>2, <4>3
        <3>2. CASE f.dir = d
            BY <2>2, <2>3, <2>4, <2>6, <3>1, <3>2 DEF FilesSafe
        <3>3. CASE f.dir # d
            BY <2>2, <2>3, <2>6, <3>1, <3>3 DEF NamesSafe
        <3>4. QED BY <3>2, <3>3
    <2>7. NamesSafe(listed', disk, m)
        BY <2>5, <2>6 DEF NamesSafe
    <2>8. Seen(index', listed', Done', m)
        <3>1. SUFFICES ASSUME NEW i \in DOMAIN index, Id(index, i)[1] = m, index[i].path.dir \in Done'
                       PROVE  \E f \in listed' : f.id = Id(index, i)
            BY <1>1 DEF Seen, Id
        <3>2. index[i].path.dir \in scanned /\ (index[i].path.dir = d \/ index[i].path.dir \in Done)
            BY <1>1, <3>1 DEF Done, Dirs
        <3>3. CASE index[i].path.dir = d
            BY <1>1, <2>2, <3>1, <3>2, <3>3 DEF EntriesSafe, OnDisk
        <3>4. CASE index[i].path.dir \in Done
            BY <1>1, <2>2, <3>1, <3>4 DEF Seen
        <3>5. QED BY <3>2, <3>3, <3>4
    <2>9. QED BY <1>1, <2>1, <2>2, <2>7, <2>8, ReadSafe
<1>5. QED BY <1>2, <1>3, <1>4 DEF LettersInv, ReadStep

\* The entries keep their letters when the flags of the files are taken over.
LEMMA MergedIs ==
    ASSUME Types, Known, NEW w, w = Merged
    PROVE  /\ w \in Seq(Entry) /\ DOMAIN w = DOMAIN index
           /\ \A i \in DOMAIN index :
                 /\ Id(w, i) = Id(index, i)
                 /\ w[i].edited => index[i].edited
                 /\ IF Claims(i) THEN \E f \in Named : /\ f.id = Id(index, i) /\ w[i].path = f
                                                       /\ w[i].deleted => index[i].deleted \/ f.trash
                    ELSE ~Vanished(i) => w[i] = index[i]
<1>1. DOMAIN w = DOMAIN index
    BY DEF Merged
<1>2. ASSUME NEW i \in DOMAIN index
      PROVE  /\ w[i] \in Entry
             /\ Id(w, i) = Id(index, i)
             /\ w[i].edited => index[i].edited
             /\ IF Claims(i) THEN \E f \in Named : /\ f.id = Id(index, i) /\ w[i].path = f
                                                   /\ w[i].deleted => index[i].deleted \/ f.trash
                ELSE ~Vanished(i) => w[i] = index[i]
    <2>1. PICK e : e = index[i]
        OBVIOUS
    <2>2. e \in Entry
        BY <2>1, EntryAt
    <2>3. CASE Claims(i)
        <3>1. PICK f : f = NameOf(e)
            OBVIOUS
        <3>2. f \in Named /\ f.id = e.path.id
            BY <2>1, <2>3, <3>1 DEF Claims, NameOf
        <3>3. f \in File
            BY <3>2 DEF Named, Types
        <3>4. w[i] = MergedFlags(e, f)
            BY <2>1, <2>3, <3>1 DEF Merged, Vanished
        <3>5. PICK x : x = MergedFlags(e, f)
            OBVIOUS
        <3>6. x \in Entry /\ x.path = f /\ (x.edited => e.edited) /\ (x.deleted => e.deleted \/ f.trash)
            <4>1. PICK r : r = IF e.changed THEN e.read ELSE f.seen
                OBVIOUS
            <4>2. PICK o : o = IF e.changed THEN e.old ELSE f.dir = "cur"
                OBVIOUS
            <4>3. PICK d : d = IF e.deleted = e.trash THEN f.trash ELSE e.deleted
                OBVIOUS
            <4>4. /\ e.changed \in BOOLEAN /\ e.read \in BOOLEAN /\ e.old \in BOOLEAN
                  /\ e.deleted \in BOOLEAN /\ f.seen \in BOOLEAN /\ f.trash \in BOOLEAN
                BY <2>2, <3>3 DEF Entry, File
            <4>5. r \in BOOLEAN /\ o \in BOOLEAN /\ d \in BOOLEAN
                BY <4>1, <4>2, <4>3, <4>4
            <4>6. d => e.deleted \/ f.trash
                BY <4>3, Zenon
            <4>7. x = [e EXCEPT !.path = f, !.read = r, !.old = o, !.deleted = d, !.trash = f.trash]
                BY <3>5, <4>1, <4>2, <4>3 DEF MergedFlags
            <4>8. QED BY <2>2, <3>3, <4>4, <4>5, <4>6, <4>7 DEF Entry
        <3>7. QED BY <2>1, <2>3, <3>2, <3>4, <3>5, <3>6 DEF Id
    <2>4. CASE Vanished(i)
        <3>1. ~Claims(i)
            BY <2>4 DEF Vanished
        <3>2. w[i] = [e EXCEPT !.deleted = TRUE, !.purge = TRUE]
            BY <2>1, <2>4, <3>1 DEF Merged
        <3>3. PICK x : x = [e EXCEPT !.deleted = TRUE, !.purge = TRUE]
            OBVIOUS
        <3>4. x \in Entry /\ x.path = e.path /\ (x.edited => e.edited)
            BY <2>2, <3>3 DEF Entry
        <3>5. QED BY <2>1, <2>4, <3>1, <3>2, <3>3, <3>4 DEF Id
    <2>5. CASE ~Claims(i) /\ ~Vanished(i)
        <3>1. w[i] = e
            BY <2>1, <2>5 DEF Merged
        <3>2. QED BY <2>1, <2>2, <2>5, <3>1 DEF Id
    <2>6. QED BY <2>3, <2>4, <2>5
<1>3. w \in Seq(Entry)
    <2>1. w \in [DOMAIN index -> Entry]
        <3>1. Merged \in [DOMAIN index -> {Merged[i] : i \in DOMAIN index}]
            BY DEF Merged
        <3>2. {w[i] : i \in DOMAIN index} \subseteq Entry
            BY <1>2
        <3>3. QED BY <1>1, <3>1, <3>2
    <2>2. PICK n \in Nat : DOMAIN index = 1 .. n
        BY DEF Types
    <2>3. QED BY <2>1, <2>2
<1>4. QED BY <1>1, <1>2, <1>3

\* A check marks no letter that is there as deleted: it has found its file.
LEMMA MergeSafe ==
    ASSUME Types, Known, LettersInv, CheckMerge
    PROVE  Types' /\ Known' /\ LettersInv'
<1>1. /\ ReadStep /\ index' = WithFiles(Merged, Unclaimed) /\ listed' = {}
      /\ mpc = "merge" /\ mpc' \in {"idle", "save"}
    BY DEF CheckMerge, Merge, Checked, Idle, ReadStep, fateVars
<1>2. PICK w : w = Merged
    OBVIOUS
<1>3. /\ w \in Seq(Entry) /\ DOMAIN w = DOMAIN index
      /\ \A i \in DOMAIN index :
            /\ Id(w, i) = Id(index, i)
            /\ w[i].edited => index[i].edited
            /\ IF Claims(i) THEN \E f \in Named : /\ f.id = Id(index, i) /\ w[i].path = f
                                                  /\ w[i].deleted => index[i].deleted \/ f.trash
               ELSE ~Vanished(i) => w[i] = index[i]
    BY <1>2, MergedIs
<1>4. PICK u : u = Unclaimed
    OBVIOUS
<1>5. u \subseteq listed /\ \A f \in u : f \in Named => \A i \in DOMAIN index : Id(index, i) # f.id
    BY <1>4 DEF Unclaimed, Id
<1>6. index' = WithFiles(w, u)
    BY <1>1, <1>2, <1>4
<1>7. /\ index' \in Seq(Entry) /\ DOMAIN w \subseteq DOMAIN index'
      /\ \A i \in DOMAIN w : index'[i] = w[i]
      /\ \A i \in DOMAIN index' \ DOMAIN w : index'[i].path \in u \cap disk
    BY <1>3, <1>6, WithFilesIs DEF Types
<1>8. Types'
    BY <1>1, <1>7 DEF Types, ReadStep
<1>9. Known'
    <2>1. \A f \in disk' \cup listed' : f.id[1] \in arrived'
        BY <1>1 DEF Known, ReadStep
    <2>2. ASSUME NEW i \in DOMAIN index' PROVE Id(index', i)[1] \in arrived'
        <3>1. CASE i \in DOMAIN w
            <4>1. Id(index', i) = Id(index, i) /\ i \in DOMAIN index
                BY <1>3, <1>7, <3>1 DEF Id
            <4>2. QED BY <1>1, <4>1 DEF Known, ReadStep
        <3>2. CASE i \notin DOMAIN w
            BY <1>1, <1>7, <3>2 DEF Known, ReadStep, Id
        <3>3. QED BY <3>1, <3>2
    <2>3. QED BY <1>1, <2>1, <2>2 DEF Known
<1>10. ASSUME NEW m \in arrived' \ doomed', ~world'.moves
       PROVE  LetterSafe(m)'
    <2>1. LetterSafe(m) /\ Busy = 0 /\ Done = scanned \cap Dirs
        BY <1>1, <1>10 DEF LettersInv, ReadStep, Busy, Done
    <2>2. EntriesSafe(index, disk, m, 0) /\ FilesSafe(disk, m) /\ NamesSafe(listed, disk, m)
          /\ Seen(index, listed, scanned \cap Dirs, m)
        BY <2>1 DEF LetterSafe
    <2>3. \A f \in listed : f.id[1] = m => f \in Named
        BY <2>2 DEF NamesSafe, Named
    <2>4. ASSUME NEW i \in DOMAIN index, Id(index, i)[1] = m, NEW f \in listed, f.id = Id(index, i)
          PROVE  Claims(i)
        <3>1. \E g \in Named : g.id = index[i].path.id
            BY <2>3, <2>4 DEF Id
        <3>2. PICK n \in Nat : DOMAIN index = 1 .. n
            BY DEF Types
        <3>3. ASSUME NEW j \in 1 .. i - 1, index[j].path.id = index[i].path.id PROVE FALSE
            <4>1. i \in 1 .. n /\ j \in 1 .. n /\ j < i
                BY <2>4, <3>2, <3>3
            <4>2. Id(index, j) = Id(index, i) /\ j \in DOMAIN index
                BY <3>2, <3>3, <4>1 DEF Id
            <4>3. i = j
                BY <2>2, <2>4, <4>2 DEF EntriesSafe
            <4>4. QED BY <4>1, <4>3
        <3>4. QED BY <3>1, <3>3 DEF Claims
    <2>5. ASSUME NEW i \in DOMAIN index, Id(index, i)[1] = m
          PROVE  ~Vanished(i)
        <3>1. SUFFICES ASSUME Vanished(i) PROVE FALSE
            OBVIOUS
        <3>2. index[i].path.dir \in scanned \cap Dirs
            BY <3>1, EntryAt DEF Vanished, File
        <3>3. \E f \in listed : f.id = Id(index, i)
            BY <2>2, <2>5, <3>2 DEF Seen
        <3>4. QED BY <2>4, <2>5, <3>1, <3>3 DEF Vanished
    <2>6. ASSUME NEW i \in DOMAIN w, Id(w, i)[1] = m
          PROVE  /\ ~w[i].deleted
                 /\ OnDisk(Id(w, i), w[i].path.dir, disk)
                 /\ w[i].edited => \A f \in disk : f.id # <<m, 1>>
        <3>1. /\ i \in DOMAIN index /\ i # 0 /\ Id(w, i) = Id(index, i) /\ Id(index, i)[1] = m
              /\ w[i].edited => index[i].edited
            BY <1>3, <2>6, EntryAt
        <3>2. /\ ~index[i].deleted /\ OnDisk(Id(index, i), index[i].path.dir, disk)
              /\ index[i].edited => \A f \in disk : f.id # <<m, 1>>
            BY <2>2, <3>1 DEF EntriesSafe
        <3>3. CASE Claims(i)
            <4>1. PICK f \in Named : /\ f.id = Id(index, i) /\ w[i].path = f
                                     /\ w[i].deleted => index[i].deleted \/ f.trash
                BY <1>3, <3>1, <3>3
            <4>2. ~f.trash /\ OnDisk(f.id, f.dir, disk)
                BY <2>2, <3>1, <4>1 DEF Named, NamesSafe
            <4>3. QED BY <3>1, <3>2, <4>1, <4>2
        <3>4. CASE ~Claims(i)
            <4>1. w[i] = index[i]
                BY <1>3, <2>5, <3>1, <3>4
            <4>2. QED BY <3>1, <3>2, <4>1
        <3>5. QED BY <3>3, <3>4
    <2>7. EntriesSafe(w, disk, m, 0)
        <3>1. \A i, j \in DOMAIN w : Id(w, i)[1] = m /\ Id(w, i) = Id(w, j) => i = j
            BY <1>3, <2>2 DEF EntriesSafe
        <3>2. QED BY <2>6, <3>1 DEF EntriesSafe
    <2>8. \A f \in u \cap disk : f.id[1] = m => \A i \in DOMAIN w : Id(w, i) # f.id
        BY <1>3, <1>5, <2>3
    <2>9. EntriesSafe(index', disk, m, 0)
        BY <1>3, <1>6, <2>2, <2>7, <2>8, WithFilesSafe
    <2>10. NamesSafe(listed', disk, m)
        BY <1>1 DEF NamesSafe
    <2>11. Seen(index', listed', Done', m)
        BY <1>1 DEF Seen, Done
    <2>12. QED BY <1>1, <2>1, <2>9, <2>10, <2>11, ReadSafe
<1>11. QED BY <1>8, <1>9, <1>10 DEF LettersInv, ReadStep

-----------------------------------------------------------------------------
(* The user, and what leaves the files alone *)

\* The user edits a letter.
LEMMA EditSafe ==
    ASSUME Types, Known, LettersInv, NEW k \in DOMAIN index, MdEdit(k)
    PROVE  Types' /\ Known' /\ LettersInv'
<1>1. PICK x : x = [index[k] EXCEPT !.edited = TRUE, !.changed = TRUE]
    OBVIOUS
<1>2. index[k] \in Entry /\ index \in Seq(Entry)
    BY EntryAt DEF Types
<1>3. x \in Entry /\ x.path = index[k].path /\ (x.deleted => index[k].deleted)
    BY <1>1, <1>2 DEF Entry
<1>4. /\ ReadStep /\ listed' = listed /\ mpc = "idle" /\ mpc' = "idle"
      /\ \A f \in disk : f.id # <<Id(index, k)[1], 1>>
    BY DEF MdEdit, SetEdited, ReadStep, checkVars, fateVars, Id
<1>5. index' = [index EXCEPT ![k] = x]
    <2>1. index' = [index EXCEPT ![k].edited = TRUE, ![k].changed = TRUE]
        BY DEF MdEdit, SetEdited
    <2>2. QED BY <1>1, <1>2, <2>1
<1>6. /\ index' \in Seq(Entry) /\ index'[k] = x /\ DOMAIN index' = DOMAIN index
      /\ \A i \in DOMAIN index : i # k => index'[i] = index[i]
    BY <1>2, <1>3, <1>5
<1>7. \A i \in DOMAIN index : index'[i].path = index[i].path /\ Id(index', i) = Id(index, i)
    BY <1>3, <1>6 DEF Id
<1>8. Types'
    BY <1>4, <1>6 DEF Types, ReadStep
<1>9. Known'
    BY <1>4, <1>6, <1>7 DEF Known, ReadStep
<1>10. ASSUME NEW m \in arrived' \ doomed', ~world'.moves
       PROVE  LetterSafe(m)'
    <2>1. LetterSafe(m) /\ Busy = 0 /\ listed = {}
        BY <1>4, <1>10 DEF LettersInv, ReadStep, Busy, Known
    <2>2. EntriesSafe(index, disk, m, 0)
        BY <2>1 DEF LetterSafe
    <2>3. ASSUME NEW i \in DOMAIN index', Id(index', i)[1] = m
          PROVE  /\ ~index'[i].deleted
                 /\ OnDisk(Id(index', i), index'[i].path.dir, disk)
                 /\ index'[i].edited => \A f \in disk : f.id # <<m, 1>>
        <3>1. i \in DOMAIN index /\ i # 0 /\ Id(index, i)[1] = m
            BY <1>6, <1>7, <2>3, EntryAt
        <3>2. CASE i = k
            BY <1>3, <1>4, <1>6, <1>7, <2>2, <3>1, <3>2 DEF EntriesSafe
        <3>3. CASE i # k
            BY <1>6, <1>7, <2>2, <3>1, <3>3 DEF EntriesSafe
        <3>4. QED BY <3>2, <3>3
    <2>4. EntriesSafe(index', disk, m, 0)
        BY <1>6, <1>7, <2>2, <2>3 DEF EntriesSafe
    <2>5. NamesSafe(listed', disk, m) /\ Seen(index', listed', Done', m)
        BY <1>4, <2>1 DEF NamesSafe, Seen, Done
    <2>6. QED BY <1>4, <2>1, <2>4, <2>5, ReadSafe
<1>11. QED BY <1>8, <1>9, <1>10 DEF LettersInv, ReadStep

\* The user deletes a letter, or takes it back.
LEMMA DeleteSafe ==
    ASSUME Types, Known, LettersInv, NEW i \in DOMAIN index, NEW d \in BOOLEAN, MdDelete(i, d)
    PROVE  Types' /\ Known' /\ LettersInv'
<1>1. /\ Types' /\ DOMAIN index' = DOMAIN index
      /\ \A j \in DOMAIN index : index'[j].path = index[j].path
    BY DeleteQuiet
<1>2. /\ disk' = disk /\ listed' = listed /\ arrived' = arrived /\ world' = world
      /\ mpc = "idle" /\ mpc' = "idle" /\ doomed \subseteq doomed'
    BY DEF MdDelete, SetDeleted, checkVars
<1>3. Known'
    BY <1>1, <1>2 DEF Known, Id
<1>4. ASSUME NEW m \in arrived' \ doomed', ~world'.moves
      PROVE  LetterSafe(m)'
    <2>1. LetterSafe(m)
        BY <1>2, <1>4 DEF LettersInv
    <2>2. Quiet(m)
        BY <1>4, DeleteQuiet
    <2>3. QED BY <2>1, <2>2, QuietSafe
<1>5. QED BY <1>1, <1>3, <1>4 DEF LettersInv

\* Where the steps that leave the files alone lead.
LEMMA QuietControl ==
    ASSUME Known, QuietStep
    PROVE  /\ world' = world /\ arrived' = arrived /\ doomed' = doomed
           /\ mpc' \in {"listnew", "closed", "stat", "idle", "save", "scannew", "rename"}
           /\ mpc' \in {"listnew", "closed"} => index' = <<>>
           /\ listed' = {}
<1> USE DEF indexVars, callVars, checkVars, fateVars, Known
<1>1. CASE StartOpen \/ StartCheck
    BY <1>1 DEF StartOpen, StartCheck, BeginCheck
<1>2. CASE CheckStat
    BY <1>2 DEF CheckStat, Checked, Idle
<1>3. CASE SaveNothing \/ SaveStat
    BY <1>3 DEF SaveNothing, SaveStat, At, NextMessage
<1>4. CASE RenameFails \/ CopyFailed
    BY <1>4 DEF RenameFails, CopyFailed, At, SyncFails, Idle
<1>5. CASE Die \/ MdCloseAtOnce
    BY <1>5 DEF Die, Leave, MdCloseAtOnce, CloseAtOnce, FastClose
<1>6. CASE MdRequest
    BY <1>6 DEF MdRequest, SetRead, BeginSync, BeginClose
<1>7. CASE SyncEnds
    BY <1>7 DEF SyncEnds, SyncReturns, FastClose, Idle
<1>8. QED BY <1>1, <1>2, <1>3, <1>4, <1>5, <1>6, <1>7 DEF QuietStep

\* The steps that leave the files alone.
LEMMA QuietStepSafe ==
    ASSUME Types, Known, LettersInv, QuietStep
    PROVE  Types' /\ Known' /\ LettersInv'
<1>1. Types' /\ \A m : Quiet(m)
    BY QuietSteps
<1>2. /\ world' = world /\ arrived' = arrived /\ doomed' = doomed /\ disk' = disk
      /\ mpc' \in {"listnew", "closed", "stat", "idle", "save", "scannew", "rename"}
      /\ mpc' \in {"listnew", "closed"} => index' = <<>>
      /\ listed' = {}
    BY <1>1, QuietControl DEF Quiet
<1>3. \A i \in DOMAIN index' : Id(index', i)[1] \in arrived'
    <2>1. CASE index' = <<>>
        BY <2>1
    <2>2. CASE \E m, e : From(index, index', e, m)
        BY <1>2, <2>2 DEF From, Known, Id
    <2>3. QED BY <1>1, <2>1, <2>2 DEF Quiet
<1>4. Known'
    BY <1>2, <1>3 DEF Known
<1>5. LettersInv'
    BY <1>1, <1>2, QuietSafe DEF LettersInv
<1>6. QED BY <1>1, <1>4, <1>5

-----------------------------------------------------------------------------
(* The theorem *)

Inv == Types /\ Known /\ LettersInv

\* No letter is there at first.
LEMMA LettersInit == MaildirInit => Inv
<1>1. SUFFICES ASSUME MaildirInit PROVE Inv
    OBVIOUS
<1>2. /\ index = <<>> /\ disk = {} /\ listed = {} /\ arrived = {} /\ mpc = "closed"
    BY <1>1 DEF MaildirInit, MxInit
<1>3. Types
    BY <1>2, NoEntries, FS_EmptySet DEF Types
<1>4. Known
    BY <1>2 DEF Known
<1>5. LettersInv
    BY <1>2 DEF LettersInv
<1>6. QED BY <1>3, <1>4, <1>5 DEF Inv

\* Every step keeps every letter.
LEMMA LettersStep == Inv /\ [MaildirNext]_maildirVars => Inv'
<1>1. SUFFICES ASSUME Types, Known, LettersInv, [MaildirNext]_maildirVars PROVE Inv'
    BY DEF Inv
<1>2. CASE OtherClients
    BY <1>1, <1>2, ArriveSafe, ClientsSafe DEF OtherClients, Inv
<1>3. CASE Die \/ StartOpen \/ StartCheck \/ CheckStat
    BY <1>1, <1>3, QuietStepSafe DEF QuietStep, Inv
<1>4. CASE ListDir \/ ParseDir \/ ScanDir \/ CheckMerge
    BY <1>1, <1>4, ListSafe, ParseSafe, ScanSafe, MergeSafe DEF Inv
<1>5. CASE MdUser
    <2>1. CASE MdRequest \/ MdCloseAtOnce
        BY <1>1, <2>1, QuietStepSafe DEF QuietStep, Inv
    <2>2. ASSUME NEW i \in DOMAIN index, MdEdit(i) PROVE Inv'
        BY <1>1, <2>2, EditSafe DEF Inv
    <2>3. ASSUME NEW i \in DOMAIN index, NEW d \in BOOLEAN, MdDelete(i, d) PROVE Inv'
        BY <1>1, <2>3, DeleteSafe DEF Inv
    <2>4. QED BY <1>5, <2>1, <2>2, <2>3 DEF MdUser
<1>6. CASE Saver
    <2>1. CASE SaveNothing \/ SaveStat \/ RenameFails \/ CopyFailed \/ SyncEnds
        BY <1>1, <2>1, QuietStepSafe DEF QuietStep, Inv
    <2>2. CASE SaveDeleted \/ SaveRename \/ SaveCopy \/ SaveUnlink
        BY <1>1, <2>2, DeletedSafe, RenameSafe, CopyIsSafe, UnlinkSafe DEF Inv
    <2>3. QED BY <1>6, <2>1, <2>2 DEF Saver
<1>7. CASE UNCHANGED maildirVars
    <2>1. /\ world' = world /\ disk' = disk /\ index' = index /\ mpc' = mpc /\ pos' = pos
          /\ listed' = listed /\ scanned' = scanned /\ arrived' = arrived /\ doomed' = doomed
        BY <1>7 DEF maildirVars, mxVars, indexVars, callVars, checkVars, fateVars
    <2>2. Types' /\ Known'
        BY <1>1, <2>1, OthersKnown DEF FilesOnly, Types, Known
    <2>3. \A m : LetterSafe(m) => LetterSafe(m)'
        BY <2>1, ElsewhereSafe DEF FilesOnly, SameFiles
    <2>4. QED BY <1>1, <2>1, <2>2, <2>3 DEF Inv, LettersInv
<1>8. QED BY <1>1, <1>2, <1>3, <1>4, <1>5, <1>6, <1>7 DEF MaildirNext, Reader

\* LettersKept: a letter that neither the user nor another client gave up is on
\* disk at every moment, whatever order the scans, renames, copies and unlink()s
\* of maildir_check() and maildir_mbox_sync() come in, and after a crash.
THEOREM LettersStay == MaildirSpec => []LettersKept
<1>1. Inv => LettersKept
    BY DEF Inv, LettersInv, LetterSafe, FilesSafe, LettersKept, Present
<1>2. QED BY LettersInit, LettersStep, <1>1, PTL DEF MaildirSpec

-----------------------------------------------------------------------------
(* What NeoMutt shows of the Maildir *)

\* Entry e shows file f.
Shows(e, f) == e.path = f /\ (~e.changed => e.read = f.seen)

ShownIn(v, f) == \E i \in DOMAIN v : Shows(v[i], f)

\* The same of a list whose first entries have been saved: they agree with the
\* files, and what was to be deleted is gone.
SavedIn(v, n, f) ==
    \E i \in DOMAIN v : /\ Shows(v[i], f)
                        /\ i < n => ~v[i].deleted /\ v[i].read = f.seen

Opening == {"closed", "listnew", "parsenew", "listcur", "parsecur"}
Scans == {"scannew", "scancur", "merge"}

\* Every message is one file, and nobody writes one anew.
OneFile ==
    /\ \A f, g \in disk : f.id = g.id => f = g
    /\ mpc # "unlink" /\ \A i \in DOMAIN index : ~index[i].edited

\* Who acts when: not other clients while NeoMutt saves, nor in its check then.
Alone ==
    /\ newer \subseteq Dirs
    /\ mpc \in Opening => newer = Dirs
    /\ mpc \in Scans /\ task # "check" => newer = {}
    /\ mpc \in {"save", "rename"} => task # "check" /\ pos \in Nat
    /\ mpc = "rename" => ~index[pos].deleted

\* A file whose directory looks no newer is shown, or will be by this check:
\* the directory is not scanned and the file is shown, or the file has been
\* read, under the only name that was read of its message.
FileShown(f) ==
    /\ mpc \in {"idle", "stat"} => ShownIn(index, f)
    /\ mpc \in Scans => /\ f.dir \notin scanned => ShownIn(index, f)
                        /\ f.dir \in Done => f \in listed
                        /\ \A g \in listed : g.id = f.id => g = f

FilesShown ==
    /\ \A f \in disk : f.dir \notin newer => FileShown(f)
    /\ mpc \in {"save", "rename"} => \A f \in disk : SavedIn(index, pos, f)

ShownParts == OneFile /\ Alone /\ FilesShown

ShownInv == ~world.midway /\ ~world.edits => ShownParts

\* A file that is not in a directory that looks newer is the file it was.
LEMMA StoreIs ==
    ASSUME NEW new, Store(new)
    PROVE  /\ disk' = new /\ newer \subseteq newer'
           /\ \A f \in disk' : f.dir \notin newer' => f \in disk
BY DEF Store, Touch

-----------------------------------------------------------------------------
(* Other clients *)

\* A step of another client.
Outside ==
    /\ FilesOnly /\ MayAct /\ task' = task /\ world' = world
    /\ newer \subseteq newer' /\ newer' \subseteq Dirs
    /\ \A f \in disk' : f.dir \notin newer' => f \in disk
    /\ \A f, g \in disk' : f.id = g.id => f = g

\* Other clients change files of directories that look newer then.
LEMMA OutsideShown ==
    ASSUME Types, ShownParts, Outside, ~world.midway
    PROVE  ShownParts'
<1>1. mpc \notin {"save", "rename"} /\ (mpc \in Scans => task = "check")
    BY DEF Outside, MayAct, Others, Scans, ShownParts, Alone
<1>2. OneFile'
    BY DEF ShownParts, OneFile, Outside, FilesOnly
<1>3. Alone'
    BY <1>1 DEF ShownParts, Alone, Outside, FilesOnly
<1>4. ASSUME NEW f \in disk', f.dir \notin newer' PROVE FileShown(f)'
    <2>1. FileShown(f)
        BY <1>4 DEF ShownParts, FilesShown, Outside
    <2>2. QED BY <2>1 DEF FileShown, Outside, FilesOnly, ShownIn, Done
<1>5. FilesShown'
    BY <1>1, <1>4 DEF FilesShown, Outside, FilesOnly
<1>6. QED BY <1>2, <1>3, <1>5 DEF ShownParts

\* What other clients do keeps what is shown shown.
LEMMA OtherClientsShown ==
    ASSUME Types, Known, ShownInv, OtherClients
    PROVE  ShownInv'
<1>1. SUFFICES ASSUME ~world.midway, ~world.edits, ShownParts PROVE ShownParts'
    <2>1. world' = world
        BY DEF OtherClients, Arrive, MoveToCur, Refile, Discard
    <2>2. QED BY <2>1 DEF ShownInv
<1>2. \A f, g \in disk : f.id = g.id => f = g
    BY <1>1 DEF ShownParts, OneFile
<1>3. ASSUME NEW new, Store(new), new \subseteq File PROVE newer' \subseteq Dirs
    <2>1. newer \subseteq Dirs
        BY <1>1 DEF ShownParts, Alone
    <2>2. QED BY <1>3, <2>1 DEF Store, Touch, File, Types
<1>4. ASSUME NEW m \in Letter, Arrive(m) PROVE ShownParts'
    <2> DEFINE g == [id |-> <<m, 0>>, dir |-> "new", seen |-> FALSE, trash |-> FALSE]
    <2>1. Store(disk \cup {g}) /\ m \notin arrived
        BY <1>4 DEF Arrive
    <2>2. g \in File /\ g.id[1] = m
        BY DEF File, Unique, Dirs
    <2>3. FilesOnly /\ MayAct /\ task' = task /\ world' = world
        BY <1>4 DEF Arrive, FilesOnly, mxVars, indexVars, callVars, checkVars
    <2> HIDE DEF g
    <2>4. \A f \in disk : f.id # g.id
        BY <2>1, <2>2 DEF Known
    <2>5. disk' = disk \cup {g}
        BY <2>1, StoreIs
    <2>6. \A f, h \in disk' : f.id = h.id => f = h
        BY <1>2, <2>4, <2>5
    <2>7. newer' \subseteq Dirs
        BY <1>3, <2>1, <2>2 DEF Types
    <2>8. Outside
        BY <2>1, <2>3, <2>6, <2>7, StoreIs DEF Outside
    <2>9. QED BY <1>1, <2>8, OutsideShown
<1>5. ASSUME NEW f \in disk, MoveToCur(f) \/ Refile(f) \/ Discard(f) PROVE ShownParts'
    <2> DEFINE a == [f EXCEPT !.dir = "cur"]
    <2> DEFINE b == [f EXCEPT !.seen = TRUE]
    <2> DEFINE c == [f EXCEPT !.trash = TRUE]
    <2>1. /\ f \in File /\ a \in File /\ a.id = f.id /\ b \in File /\ b.id = f.id
          /\ c \in File /\ c.id = f.id
        BY DEF Types, File, Dirs
    <2> HIDE DEF a, b, c
    <2>2. PICK new : /\ Store(new)
                     /\ \/ new = (disk \ {f}) \cup {a}
                        \/ new = (disk \ {f}) \cup {b}
                        \/ new = (disk \ {f}) \cup {c}
                        \/ new = disk \ {f}
        BY <1>5 DEF MoveToCur, Refile, Discard, a, b, c
    <2>3. FilesOnly /\ MayAct /\ task' = task /\ world' = world
        BY <1>5 DEF MoveToCur, Refile, Discard, FilesOnly, mxVars, indexVars, callVars, checkVars
    <2>4. \A g, h \in new : g.id = h.id => g = h
        BY <1>2, <2>1, <2>2
    <2>5. new \subseteq File
        BY <2>1, <2>2 DEF Types
    <2>6. Outside
        BY <1>3, <2>2, <2>3, <2>4, <2>5, StoreIs DEF Outside
    <2>7. QED BY <1>1, <2>6, OutsideShown
<1>6. QED BY <1>4, <1>5 DEF OtherClients

-----------------------------------------------------------------------------
(* The user *)

\* The entries of v under other marks.
Marks(v, w) ==
    /\ DOMAIN w = DOMAIN v
    /\ \A i \in DOMAIN v :
          /\ w[i].path = v[i].path /\ w[i].edited = v[i].edited
          /\ w[i].changed \/ (~v[i].changed /\ w[i].read = v[i].read)

\* A file stays shown when the user marks messages.
LEMMA MarksShow ==
    ASSUME NEW v, NEW w, NEW f, Marks(v, w), ShownIn(v, f)
    PROVE  ShownIn(w, f)
<1>1. PICK i \in DOMAIN v : Shows(v[i], f)
    BY DEF ShownIn
<1>2. Shows(w[i], f) /\ i \in DOMAIN w
    BY <1>1 DEF Marks, Shows
<1>3. QED BY <1>2 DEF ShownIn

\* An entry is marked.
LEMMA OneMark ==
    ASSUME NEW v \in Seq(Entry), NEW k \in DOMAIN v, NEW x \in Entry, NEW w,
           w = [v EXCEPT ![k] = x],
           x.path = v[k].path, x.edited = v[k].edited,
           x.changed \/ (~v[k].changed /\ x.read = v[k].read)
    PROVE  Marks(v, w)
<1>1. DOMAIN w = DOMAIN v /\ \A i \in DOMAIN v : w[i] = IF i = k THEN x ELSE v[i]
    OBVIOUS
<1>2. \A i \in DOMAIN v : v[i] \in Entry
    OBVIOUS
<1>3. \A i \in DOMAIN v : v[i].changed \in BOOLEAN
    BY <1>2 DEF Entry
<1>4. QED BY <1>1, <1>3 DEF Marks

\* Undeleting all messages.
LEMMA UndeleteMarks ==
    ASSUME NEW v \in Seq(Entry)
    PROVE  Marks(v, Undelete(v))
<1>1. PICK w : w = Undelete(v)
    OBVIOUS
<1>2. \A i \in DOMAIN v : v[i] \in Entry
    OBVIOUS
<1>3. DOMAIN w = DOMAIN v /\ \A i \in DOMAIN v : w[i] = [v[i] EXCEPT !.deleted = FALSE, !.purge = FALSE]
    BY <1>1 DEF Undelete
<1>4. \A i \in DOMAIN v : /\ w[i].path = v[i].path /\ w[i].edited = v[i].edited
                          /\ w[i].changed = v[i].changed /\ w[i].read = v[i].read
                          /\ v[i].changed \in BOOLEAN
    BY <1>2, <1>3 DEF Entry
<1>5. Marks(v, w)
    BY <1>3, <1>4 DEF Marks
<1>6. QED BY <1>1, <1>5

\* What is new becomes old.
LEMMA AgedMarks ==
    ASSUME NEW v \in Seq(Entry)
    PROVE  Marks(v, Aged(v))
<1>1. PICK w : w = Aged(v)
    OBVIOUS
<1>2. \A i \in DOMAIN v : v[i] \in Entry
    OBVIOUS
<1>3. DOMAIN w = DOMAIN v
      /\ \A i \in DOMAIN v : w[i] = IF v[i].deleted \/ v[i].old \/ v[i].read THEN v[i]
                                    ELSE [v[i] EXCEPT !.old = TRUE, !.changed = TRUE]
    BY <1>1 DEF Aged
<1>4. \A i \in DOMAIN v : /\ w[i].path = v[i].path /\ w[i].edited = v[i].edited
                          /\ w[i].read = v[i].read /\ (w[i].changed \/ w[i].changed = v[i].changed)
                          /\ v[i].changed \in BOOLEAN
    BY <1>2, <1>3 DEF Entry
<1>5. Marks(v, w)
    BY <1>3, <1>4 DEF Marks
<1>6. QED BY <1>1, <1>5

\* One such marking after another.
LEMMA MarksTwice ==
    ASSUME NEW u, NEW v, NEW w, Marks(u, v), Marks(v, w)
    PROVE  Marks(u, w)
BY DEF Marks

\* Nothing is marked.
LEMMA NoMarks ==
    ASSUME NEW v \in Seq(Entry)
    PROVE  Marks(v, v)
<1>1. \A i \in DOMAIN v : v[i] \in Entry
    OBVIOUS
<1>2. \A i \in DOMAIN v : v[i].changed \in BOOLEAN
    BY <1>1 DEF Entry
<1>3. QED BY <1>2 DEF Marks

\* The user marks messages, and may ask for a check, a sync or a close.
Marking == /\ disk' = disk /\ newer' = newer /\ mpc = "idle" /\ mpc' \in {"idle", "stat"}
           /\ Marks(index, index')

\* What the user does to an open mailbox is marking.
LEMMA UserMarks ==
    ASSUME Types,
           \/ StartCheck \/ MdRequest
           \/ \E i \in DOMAIN index : \E d \in BOOLEAN : MdDelete(i, d)
    PROVE  Marking /\ world' = world
<1>0. index \in Seq(Entry)
    BY DEF Types
<1>1. CASE StartCheck
    BY <1>0, <1>1, NoMarks DEF StartCheck, BeginCheck, Marking, indexVars
<1>2. CASE MdRequest
    <2>0. disk' = disk /\ newer' = newer /\ world' = world
        BY <1>2 DEF MdRequest
    <2>1. ASSUME NEW i \in DOMAIN index, SetRead(i) PROVE Marking
        <3>1. PICK x : x = [index[i] EXCEPT !.read = TRUE, !.changed = TRUE]
            OBVIOUS
        <3>2. index[i] \in Entry
            BY EntryAt
        <3>3. x \in Entry /\ x.path = index[i].path /\ x.edited = index[i].edited /\ x.changed
            BY <3>1, <3>2 DEF Entry
        <3>4. index' = [index EXCEPT ![i] = x]
            BY <2>1, <3>1 DEF SetRead
        <3>5. Marks(index, index')
            BY <1>0, <3>3, <3>4, OneMark
        <3>6. QED BY <2>0, <2>1, <3>5 DEF SetRead, Marking
    <2>2. ASSUME NEW answer \in BOOLEAN, BeginSync(answer) PROVE Marking
        <3>1. index' = index \/ index' = Undelete(index)
            BY <2>2 DEF BeginSync
        <3>2. Marks(index, index')
            BY <1>0, <3>1, NoMarks, UndeleteMarks
        <3>3. QED BY <2>0, <2>2, <3>2 DEF BeginSync, Marking
    <2>3. ASSUME NEW answer \in BOOLEAN, BeginClose(answer) PROVE Marking
        <3>1. index' = Aged(index) \/ index' = Undelete(Aged(index))
            BY <2>3 DEF BeginClose
        <3>2. PICK a : a = Aged(index)
            OBVIOUS
        <3>3. a \in Seq(Entry) /\ Marks(index, a)
            BY <1>0, <3>2, AgedIs, AgedMarks
        <3>4. Marks(a, Undelete(a))
            BY <3>3, UndeleteMarks
        <3>5. PICK b : b = Undelete(a)
            OBVIOUS
        <3>6. Marks(index, b)
            BY <3>3, <3>4, <3>5, MarksTwice
        <3>7. index' = a \/ index' = b
            BY <3>1, <3>2, <3>5
        <3>8. QED BY <2>0, <2>3, <3>3, <3>6, <3>7 DEF BeginClose, Marking
    <2>4. QED BY <1>2, <2>0, <2>1, <2>2, <2>3 DEF MdRequest
<1>3. ASSUME NEW i \in DOMAIN index, NEW d \in BOOLEAN, MdDelete(i, d)
      PROVE  Marking /\ world' = world
    <2>1. PICK x : x = [index[i] EXCEPT !.deleted = d]
        OBVIOUS
    <2>2. index[i] \in Entry
        BY EntryAt
    <2>3. /\ x \in Entry /\ x.path = index[i].path /\ x.edited = index[i].edited
          /\ x.changed \/ (~index[i].changed /\ x.read = index[i].read)
        BY <2>1, <2>2 DEF Entry
    <2>4. index' = [index EXCEPT ![i] = x]
        BY <1>3, <2>1 DEF MdDelete, SetDeleted
    <2>5. Marks(index, index')
        BY <1>0, <2>3, <2>4, OneMark
    <2>6. QED BY <1>3, <2>5 DEF MdDelete, SetDeleted, Marking
<1>4. QED BY <1>1, <1>2, <1>3

\* What is shown stays shown.
LEMMA MarkingShown ==
    ASSUME ShownParts, Marking
    PROVE  ShownParts'
<1>1. OneFile'
    BY DEF ShownParts, OneFile, Marking, Marks
<1>2. Alone'
    BY DEF ShownParts, Alone, Marking, Opening, Scans
<1>3. ASSUME NEW f \in disk', f.dir \notin newer' PROVE FileShown(f)'
    <2>1. ShownIn(index, f)
        BY <1>3 DEF ShownParts, FilesShown, FileShown, Marking
    <2>2. ShownIn(index', f)
        BY <2>1, MarksShow DEF Marking
    <2>3. QED BY <2>2 DEF FileShown, Marking, Scans
<1>4. QED BY <1>1, <1>2, <1>3 DEF ShownParts, FilesShown, Marking

-----------------------------------------------------------------------------
(* Opening, leaving, and the start of a check *)

\* While the mailbox is closed or being opened both directories look newer.
LEMMA OpeningShown ==
    ASSUME Types, Known, ShownParts,
           StartOpen \/ ListDir \/ ParseDir \/ Die \/ MdCloseAtOnce
    PROVE  ShownParts' /\ world' = world
<1>0. disk' = disk /\ world' = world
    BY DEF StartOpen, ListDir, ParseDir, Die, Leave, MdCloseAtOnce
<1>1. newer' = Dirs /\ mpc' \in Opening \cup {"idle"}
    BY DEF StartOpen, ListDir, ParseDir, Die, Leave, FastClose, MdCloseAtOnce, CloseAtOnce,
           ShownParts, Alone, Opening
<1>2. \A i \in DOMAIN index' : ~index'[i].edited
    <2>1. CASE StartOpen \/ ListDir
        BY <2>1 DEF StartOpen, ListDir, indexVars, ShownParts, OneFile
    <2>2. CASE Die \/ MdCloseAtOnce
        BY <2>2 DEF Die, Leave, FastClose, MdCloseAtOnce, CloseAtOnce
    <2>3. CASE ParseDir
        <3>1. index' = WithFiles(index, listed)
            BY <2>3 DEF ParseDir
        <3>2. /\ \A i \in DOMAIN index : index'[i] = index[i]
              /\ \A i \in DOMAIN index' \ DOMAIN index : index'[i] = Parsed(index'[i].path)
            BY <3>1, WithFilesIs DEF Types
        <3>3. \A f : ~Parsed(f).edited
            BY DEF Parsed
        <3>4. QED BY <3>2, <3>3 DEF ShownParts, OneFile
    <2>4. QED BY <2>1, <2>2, <2>3
<1>3. OneFile' /\ Alone'
    BY <1>0, <1>1, <1>2 DEF ShownParts, OneFile, Alone, Opening, Scans
<1>4. \A f \in disk' : f.dir \in newer'
    BY <1>0, <1>1 DEF Types, File
<1>5. FilesShown'
    BY <1>1, <1>4 DEF FilesShown, Opening
<1>6. QED BY <1>0, <1>3, <1>5 DEF ShownParts

\* The times of the directories are noted.
LEMMA StatShown ==
    ASSUME Types, Known, ShownParts, CheckStat
    PROVE  ShownParts' /\ world' = world
<1>1. /\ index' = index /\ disk' = disk /\ world' = world /\ newer' = {} /\ scanned' = newer
      /\ listed' = {} /\ mpc = "stat"
    BY DEF CheckStat, StatDirs, indexVars, Known
<1>2. \/ mpc' = "scannew"
      \/ newer = {} /\ mpc' = "idle"
      \/ newer = {} /\ mpc' = "save" /\ pos' = 1 /\ task' = task /\ task # "check"
    BY DEF CheckStat, Checked, Idle
<1>3. \A f \in disk : f.dir \notin newer => ShownIn(index, f)
    BY <1>1 DEF ShownParts, FilesShown, FileShown
<1>4. OneFile' /\ Alone'
    BY <1>1, <1>2 DEF ShownParts, OneFile, Alone, Opening, Scans
<1>5. ASSUME NEW f \in disk', f.dir \notin newer' PROVE FileShown(f)'
    BY <1>1, <1>2, <1>3 DEF FileShown, Scans, Done
<1>6. ASSUME newer = {}, pos' = 1, NEW f \in disk' PROVE SavedIn(index', pos', f)
    <2>1. PICK i \in DOMAIN index : Shows(index[i], f)
        BY <1>1, <1>3, <1>6 DEF ShownIn
    <2>2. i \in Nat \ {0}
        BY <2>1 DEF Types
    <2>3. QED BY <1>1, <1>6, <2>1, <2>2 DEF SavedIn
<1>7. FilesShown'
    BY <1>2, <1>5, <1>6 DEF FilesShown
<1>8. QED BY <1>1, <1>4, <1>7 DEF ShownParts

\* A directory is scanned.
LEMMA ScanShown ==
    ASSUME Types, Known, ShownParts, ScanDir
    PROVE  ShownParts' /\ world' = world
<1> DEFINE d == IF mpc = "scannew" THEN "new" ELSE "cur"
<1>1. /\ index' = index /\ disk' = disk /\ world' = world /\ newer' = newer /\ scanned' = scanned
      /\ listed' = listed \cup (IF d \in scanned THEN {f \in disk : f.dir = d} ELSE {})
      /\ mpc \in {"scannew", "scancur"} /\ task' = task
      /\ mpc' = IF mpc = "scannew" THEN "scancur" ELSE "merge"
    BY DEF ScanDir, InDir, indexVars, callVars
<1>2. OneFile' /\ Alone'
    BY <1>1 DEF ShownParts, OneFile, Alone, Opening, Scans
<1>3. ASSUME NEW f \in disk', f.dir \notin newer' PROVE FileShown(f)'
    <2>1. FileShown(f) /\ f \in disk
        BY <1>1, <1>3 DEF ShownParts, FilesShown
    <2>2. f.dir \notin scanned => ShownIn(index', f)
        BY <1>1, <2>1 DEF FileShown, Scans
    <2>3. ASSUME f.dir \in Done' PROVE f \in listed'
        <3>1. f.dir \in scanned /\ (f.dir = d \/ f.dir \in Done)
            BY <1>1, <2>3, <2>1 DEF Done, Types, File, Dirs
        <3>2. QED BY <1>1, <2>1, <3>1 DEF FileShown, Scans
    <2>4. ASSUME NEW g \in listed', g.id = f.id PROVE g = f
        <3>1. g \in listed \/ g \in disk
            BY <1>1, <2>4
        <3>2. QED BY <1>1, <2>1, <2>4, <3>1 DEF FileShown, Scans, ShownParts, OneFile
    <2>5. QED BY <1>1, <2>2, <2>3, <2>4 DEF FileShown
<1>4. FilesShown'
    BY <1>1, <1>3 DEF FilesShown
<1>5. QED BY <1>1, <1>2, <1>4 DEF ShownParts

-----------------------------------------------------------------------------
(* The merge *)

\* A set of positive numbers has a least one.
LEMMA LeastOne ==
    ASSUME NEW T, T \subseteq Nat \ {0}, T # {}
    PROVE  \E k \in T : \A j \in T : k <= j
<1>1. SUFFICES ASSUME \A k \in T : \E j \in T : ~(k <= j) PROVE FALSE
    OBVIOUS
<1> DEFINE S == {k \in Nat : \A j \in T : k < j}
<1>2. 0 \in S
    OBVIOUS
<1>3. ASSUME NEW k \in Nat, k \in S PROVE k + 1 \in S
    <2>1. \A j \in T : k < j /\ j \in Nat
        BY <1>3
    <2>2. k + 1 \notin T
        <3>1. SUFFICES ASSUME k + 1 \in T PROVE FALSE
            OBVIOUS
        <3>2. PICK j \in T : ~(k + 1 <= j)
            BY <1>1, <3>1
        <3>3. QED BY <1>3, <2>1, <3>2
    <2>3. ASSUME NEW j \in T PROVE k + 1 < j
        <3>1. k < j /\ j \in Nat /\ j # k + 1
            BY <2>1, <2>2, <2>3
        <3>2. QED BY <1>3, <3>1
    <2>4. QED BY <1>3, <2>3
<1> HIDE DEF S
<1>4. Nat \subseteq S
    BY <1>2, <1>3, NatSetInduction
<1>5. PICK k \in T : TRUE
    OBVIOUS
<1>6. k \in S
    BY <1>4, <1>5
<1>7. k < k /\ k \in Nat
    BY <1>5, <1>6 DEF S
<1>8. QED BY <1>7

\* The entry that claims the only name of its message shows the file.
LEMMA ClaimShows ==
    ASSUME Types, NEW i \in DOMAIN index, Claims(i), NEW f, f.id = Id(index, i),
           \A g \in listed : g.id = f.id => g = f
    PROVE  Shows(Merged[i], f)
<1>1. PICK e : e = index[i]
    OBVIOUS
<1>2. e \in Entry
    BY <1>1, EntryAt
<1>3. \E g \in Named : g.id = e.path.id
    BY <1>1 DEF Claims
<1>4. PICK g : g = NameOf(e)
    OBVIOUS
<1>5. g \in Named /\ g.id = e.path.id
    BY <1>3, <1>4 DEF NameOf
<1>6. g = f
    BY <1>1, <1>5 DEF Named, Id
<1>7. Merged[i] = MergedFlags(e, f)
    <2>1. Merged[i] = MergedFlags(index[i], NameOf(index[i]))
        BY DEF Merged, Vanished
    <2>2. QED BY <1>1, <1>4, <1>6, <2>1
<1>8. PICK x : x = MergedFlags(e, f)
    OBVIOUS
<1>9. x.path = f /\ x.changed = e.changed /\ (~e.changed => x.read = f.seen)
    <2>1. PICK r : r = IF e.changed THEN e.read ELSE f.seen
        OBVIOUS
    <2>2. PICK o : o = IF e.changed THEN e.old ELSE f.dir = "cur"
        OBVIOUS
    <2>3. PICK d : d = IF e.deleted = e.trash THEN f.trash ELSE e.deleted
        OBVIOUS
    <2>4. x = [e EXCEPT !.path = f, !.read = r, !.old = o, !.deleted = d, !.trash = f.trash]
        BY <1>8, <2>1, <2>2, <2>3 DEF MergedFlags
    <2>5. x.path = f /\ x.changed = e.changed /\ x.read = r
        BY <1>2, <2>4 DEF Entry
    <2>6. QED BY <2>1, <2>5
<1>10. QED BY <1>7, <1>8, <1>9 DEF Shows

\* A file that looks no newer is shown after the merge.
LEMMA MergedShown ==
    ASSUME Types, Known, mpc = "merge", NEW f \in disk, FileShown(f)
    PROVE  ShownIn(WithFiles(Merged, Unclaimed), f)
<1>0. PICK w : w = Merged
    OBVIOUS
<1>1. PICK u : u = Unclaimed
    OBVIOUS
<1>2. PICK v : v = WithFiles(w, u)
    OBVIOUS
<1>3. /\ w \in Seq(Entry) /\ DOMAIN w = DOMAIN index
      /\ \A i \in DOMAIN index : ~Claims(i) /\ ~Vanished(i) => w[i] = index[i]
    BY <1>0, MergedIs
<1>4. /\ DOMAIN w \subseteq DOMAIN v /\ \A i \in DOMAIN w : v[i] = w[i]
      /\ \A g \in u \cap disk : \E i \in DOMAIN v : v[i] = Parsed(g)
    BY <1>2, <1>3, WithFilesIs DEF Types
<1>5. ASSUME NEW i \in DOMAIN w, Shows(w[i], f) PROVE ShownIn(v, f)
    <2>1. i \in DOMAIN v /\ Shows(v[i], f)
        BY <1>4, <1>5
    <2>2. QED BY <2>1 DEF ShownIn
<1>6. /\ f.dir \notin scanned => ShownIn(index, f)
      /\ f.dir \in scanned => f \in listed
      /\ \A g \in listed : g.id = f.id => g = f
    <2>1. f.dir \in Dirs
        BY DEF Types, File
    <2>2. QED BY <2>1 DEF FileShown, Scans, Done
<1>7. CASE f \in listed
    <2>1. f \in Named
        BY <1>6, <1>7 DEF Named
    <2>2. CASE \E i \in DOMAIN index : Id(index, i) = f.id
        <3> DEFINE T == {i \in DOMAIN index : Id(index, i) = f.id}
        <3>1. T \subseteq Nat \ {0} /\ T # {}
            BY <2>2 DEF Types
        <3> HIDE DEF T
        <3>2. PICK k \in T : \A j \in T : k <= j
            BY <3>1, LeastOne
        <3>3. k \in DOMAIN index /\ Id(index, k) = f.id
            BY <3>2 DEF T
        <3>4. PICK n \in Nat : DOMAIN index = 1 .. n
            BY DEF Types
        <3>5. ASSUME NEW j \in 1 .. k - 1, index[j].path.id = index[k].path.id PROVE FALSE
            <4>1. j \in DOMAIN index /\ j < k /\ j \in Int /\ k \in Int
                BY <3>3, <3>4, <3>5
            <4>2. j \in T
                BY <3>3, <3>5, <4>1 DEF T, Id
            <4>3. k <= j
                BY <3>2, <4>2
            <4>4. QED BY <4>1, <4>3
        <3>6. Claims(k)
            BY <2>1, <3>3, <3>5 DEF Claims, Id
        <3>7. Shows(w[k], f)
            BY <1>0, <1>6, <3>3, <3>6, ClaimShows
        <3>8. QED BY <1>0, <1>1, <1>2, <1>3, <1>5, <3>3, <3>7
    <2>3. CASE ~\E i \in DOMAIN index : Id(index, i) = f.id
        <3>1. f \in u
            BY <1>1, <1>7, <2>3 DEF Unclaimed, Id
        <3>2. PICK i \in DOMAIN v : v[i] = Parsed(f)
            BY <1>4, <3>1
        <3>3. Shows(Parsed(f), f)
            BY DEF Shows, Parsed
        <3>4. ShownIn(v, f)
            BY <3>2, <3>3 DEF ShownIn
        <3>5. QED BY <1>0, <1>1, <1>2, <3>4
    <2>4. QED BY <2>2, <2>3
<1>8. CASE f \notin listed
    <2>1. f.dir \notin scanned /\ ShownIn(index, f)
        BY <1>6, <1>8
    <2>2. PICK i \in DOMAIN index : Shows(index[i], f)
        BY <2>1 DEF ShownIn
    <2>3. index[i].path = f
        BY <2>2 DEF Shows
    <2>4. ~Claims(i)
        <3>1. SUFFICES ASSUME NEW g \in Named, g.id = index[i].path.id PROVE FALSE
            BY DEF Claims
        <3>2. QED BY <1>6, <1>8, <2>3, <3>1 DEF Named
    <2>5. ~Vanished(i)
        BY <2>1, <2>3 DEF Vanished
    <2>6. w[i] = index[i] /\ i \in DOMAIN w
        BY <1>3, <2>4, <2>5
    <2>7. Shows(w[i], f)
        BY <2>2, <2>6
    <2>8. QED BY <1>0, <1>1, <1>2, <1>5, <2>6, <2>7
<1>9. QED BY <1>7, <1>8

\* What the scans found is merged.
LEMMA MergeShown ==
    ASSUME Types, Known, ShownParts, CheckMerge
    PROVE  ShownParts' /\ world' = world
<1>1. /\ index' = WithFiles(Merged, Unclaimed) /\ disk' = disk /\ world' = world /\ newer' = newer
      /\ mpc = "merge"
    BY DEF CheckMerge, Merge
<1>2. \/ mpc' = "idle"
      \/ mpc' = "save" /\ pos' = 1 /\ task' = task /\ task # "check"
    BY DEF CheckMerge, Merge, Checked, Idle
<1>3. \A i \in DOMAIN index' : ~index'[i].edited
    <2>0. PICK w : w = Merged
        OBVIOUS
    <2>1. /\ w \in Seq(Entry) /\ DOMAIN w = DOMAIN index
          /\ \A i \in DOMAIN index : w[i].edited => index[i].edited
        BY <2>0, MergedIs
    <2>2. PICK u : u = Unclaimed
        OBVIOUS
    <2>3. index' = WithFiles(w, u)
        BY <1>1, <2>0, <2>2
    <2>4. /\ \A i \in DOMAIN w : index'[i] = w[i]
          /\ \A i \in DOMAIN index' \ DOMAIN w : index'[i] = Parsed(index'[i].path)
        BY <2>1, <2>3, WithFilesIs DEF Types
    <2>5. \A f : ~Parsed(f).edited
        BY DEF Parsed
    <2>6. QED BY <2>1, <2>4, <2>5 DEF ShownParts, OneFile
<1>4. OneFile' /\ Alone'
    BY <1>1, <1>2, <1>3 DEF ShownParts, OneFile, Alone, Opening, Scans
<1>5. ASSUME NEW f \in disk, f.dir \notin newer PROVE ShownIn(index', f)
    <2>1. FileShown(f)
        BY <1>5 DEF ShownParts, FilesShown
    <2>2. QED BY <1>1, <2>1, MergedShown
<1>6. ASSUME NEW f \in disk', f.dir \notin newer' PROVE FileShown(f)'
    BY <1>1, <1>2, <1>5, <1>6 DEF FileShown, Scans
<1>7. ASSUME mpc' = "save", NEW f \in disk' PROVE SavedIn(index', pos', f)
    <2>1. newer = {} /\ pos' = 1
        BY <1>1, <1>2, <1>7 DEF ShownParts, Alone, Scans
    <2>2. PICK i \in DOMAIN index' : Shows(index'[i], f)
        BY <1>1, <1>5, <1>7, <2>1 DEF ShownIn
    <2>3. index' \in Seq(Entry)
        <3>1. PICK w : w = Merged
            OBVIOUS
        <3>2. w \in Seq(Entry)
            BY <3>1, MergedIs
        <3>3. PICK u : u = Unclaimed
            OBVIOUS
        <3>4. index' = WithFiles(w, u)
            BY <1>1, <3>1, <3>3
        <3>5. QED BY <3>2, <3>4, WithFilesIs DEF Types
    <2>4. i \in Nat \ {0}
        BY <2>2, <2>3
    <2>5. QED BY <2>1, <2>2, <2>4 DEF SavedIn
<1>8. FilesShown'
    BY <1>2, <1>6, <1>7 DEF FilesShown
<1>9. QED BY <1>1, <1>4, <1>8 DEF ShownParts

-----------------------------------------------------------------------------
(* Saving *)

\* A step of saving message pos, or the last one.
LEMMA SavedControl ==
    ASSUME ShownParts, world' = world, mpc \in {"save", "rename"}, mpc' = "save", task' = task,
           pos' \in Nat, newer' \subseteq Dirs,
           \A f, g \in disk' : f.id = g.id => f = g,
           \A i \in DOMAIN index' : ~index'[i].edited,
           \A f \in disk' : SavedIn(index', pos', f)
    PROVE  ShownParts'
<1>1. OneFile' /\ Alone'
    BY DEF ShownParts, OneFile, Alone, Opening, Scans
<1>2. FilesShown'
    BY DEF FilesShown, FileShown, Scans
<1>3. QED BY <1>1, <1>2 DEF ShownParts

\* What is not in the message that has just been saved.
LEMMA SavedElsewhere ==
    ASSUME Types, NEW f, SavedIn(index, pos, f), pos \in DOMAIN index, index[pos].path # f,
           NEW v, DOMAIN v = DOMAIN index, \A i \in DOMAIN index : i # pos => v[i] = index[i]
    PROVE  SavedIn(v, pos + 1, f)
<1>1. PICK i \in DOMAIN index : /\ Shows(index[i], f)
                                /\ i < pos => ~index[i].deleted /\ index[i].read = f.seen
    BY DEF SavedIn
<1>2. i # pos /\ v[i] = index[i]
    BY <1>1 DEF Shows
<1>3. i \in Int /\ pos \in Int
    BY <1>1 DEF Types
<1>4. i < pos + 1 => i < pos
    BY <1>2, <1>3
<1>5. QED BY <1>1, <1>2, <1>4 DEF SavedIn

\* A deleted message is removed.
LEMMA SaveDeletedShown ==
    ASSUME Types, Known, ShownParts, SaveDeleted
    PROVE  ShownParts' /\ world' = world
<1>1. /\ index' = index /\ world' = world /\ mpc = "save" /\ pos \in DOMAIN index /\ task' = task
      /\ mpc' = "save" /\ pos' = pos + 1 /\ Store(Unlinked)
    BY DEF SaveDeleted, At, NextMessage, indexVars
<1>2. disk' = disk \ {index[pos].path}
    BY <1>1, StoreIs DEF Unlinked, This
<1>3. newer' \subseteq Dirs
    <2>1. newer \subseteq Dirs
        BY DEF ShownParts, Alone
    <2>2. QED BY <1>1, <2>1 DEF Store, Touch, Unlinked, Types, File
<1>4. ASSUME NEW f \in disk' PROVE SavedIn(index', pos', f)
    <2>1. SavedIn(index, pos, f) /\ index[pos].path # f
        BY <1>1, <1>2, <1>4 DEF ShownParts, FilesShown
    <2>2. SavedIn(index, pos + 1, f)
        BY <1>1, <2>1, SavedElsewhere
    <2>3. QED BY <1>1, <2>2
<1>5. /\ \A f, g \in disk' : f.id = g.id => f = g
      /\ \A i \in DOMAIN index' : ~index'[i].edited
      /\ pos' \in Nat
    BY <1>1, <1>2 DEF ShownParts, OneFile, Alone
<1>6. QED BY <1>1, <1>3, <1>4, <1>5, SavedControl

\* A message that need not be saved agrees with its file.
LEMMA SaveNothingShown ==
    ASSUME Types, Known, ShownParts, SaveNothing
    PROVE  ShownParts' /\ world' = world
<1>1. /\ index' = index /\ world' = world /\ mpc = "save" /\ pos \in DOMAIN index /\ task' = task
      /\ mpc' = "save" /\ pos' = pos + 1 /\ disk' = disk /\ newer' = newer
    BY DEF SaveNothing, At, NextMessage, indexVars
<1>2. This = index[pos] /\ index[pos] \in Entry /\ index[pos].path \in File
    BY <1>1, EntryAt DEF This
<1>3. ~index[pos].deleted /\ (index[pos].changed => index[pos].read = index[pos].path.seen)
    <2>1. ~This.deleted /\ (~Unsaved(This) \/ PathOf(This) = This.path)
        BY DEF SaveNothing
    <2>2. ~Unsaved(This) => ~This.changed
        BY DEF Unsaved
    <2>3. PathOf(This).seen = This.read
        BY <1>2 DEF PathOf, File
    <2>4. QED BY <1>2, <2>1, <2>2, <2>3
<1>4. ASSUME NEW f \in disk' PROVE SavedIn(index', pos', f)
    <2>1. SavedIn(index, pos, f)
        BY <1>1, <1>4 DEF ShownParts, FilesShown
    <2>2. CASE index[pos].path # f
        <3>1. SavedIn(index, pos + 1, f)
            BY <1>1, <2>1, <2>2, SavedElsewhere
        <3>2. QED BY <1>1, <3>1
    <2>3. CASE \E i \in DOMAIN index : /\ i # pos /\ Shows(index[i], f)
                                       /\ i < pos => ~index[i].deleted /\ index[i].read = f.seen
        <3>1. PICK i \in DOMAIN index : /\ i # pos /\ Shows(index[i], f)
                                        /\ i < pos => ~index[i].deleted /\ index[i].read = f.seen
            BY <2>3
        <3>2. i \in Int /\ pos \in Int
            BY <1>1, <3>1 DEF Types
        <3>3. i < pos + 1 => i < pos
            BY <3>1, <3>2
        <3>4. QED BY <1>1, <3>1, <3>3 DEF SavedIn
    <2>4. CASE Shows(index[pos], f)
        <3>1. index[pos].path = f /\ (~index[pos].changed => index[pos].read = f.seen)
            BY <2>4 DEF Shows
        <3>2. index[pos].read = f.seen
            BY <1>3, <3>1
        <3>3. QED BY <1>1, <1>3, <2>4, <3>2 DEF SavedIn
    <2>5. QED BY <2>1, <2>2, <2>3, <2>4 DEF SavedIn, Shows
<1>5. /\ \A f, g \in disk' : f.id = g.id => f = g
      /\ \A i \in DOMAIN index' : ~index'[i].edited
      /\ newer' \subseteq Dirs /\ pos' \in Nat
    BY <1>1 DEF ShownParts, OneFile, Alone
<1>6. QED BY <1>1, <1>4, <1>5, SavedControl

\* The file of a message is looked for before it is renamed.
LEMMA SaveStatShown ==
    ASSUME Types, Known, ShownParts, SaveStat
    PROVE  ShownParts' /\ world' = world
<1>1. /\ world' = world /\ mpc = "save" /\ pos \in DOMAIN index /\ task' = task
      /\ disk' = disk /\ newer' = newer /\ ~index[pos].deleted
      /\ IF index[pos].path \in disk THEN mpc' = "rename" /\ pos' = pos
         ELSE mpc' = "save" /\ pos' = pos + 1
    BY DEF SaveStat, At, NextMessage, This, callVars
<1>2. PICK x : x = [index[pos] EXCEPT !.trash = index[pos].deleted]
    OBVIOUS
<1>3. /\ x.path = index[pos].path /\ x.changed = index[pos].changed /\ x.read = index[pos].read
      /\ x.deleted = index[pos].deleted /\ x.edited = index[pos].edited
    <2>1. index[pos] \in Entry
        BY <1>1, EntryAt
    <2>2. QED BY <1>2, <2>1 DEF Entry
<1>4. DOMAIN index' = DOMAIN index /\ \A i \in DOMAIN index : index'[i] = IF i = pos THEN x ELSE index[i]
    <2>1. index' = [index EXCEPT ![pos] = x]
        BY <1>1, <1>2 DEF SaveStat, This
    <2>2. QED BY <1>1, <2>1 DEF Types
<1>5. /\ \A f, g \in disk' : f.id = g.id => f = g
      /\ \A i \in DOMAIN index' : ~index'[i].edited
      /\ newer' \subseteq Dirs /\ pos' \in Nat
    BY <1>1, <1>3, <1>4 DEF ShownParts, OneFile, Alone
<1>6. \A f \in disk : SavedIn(index, pos, f)
    BY <1>1 DEF ShownParts, FilesShown
<1>7. CASE index[pos].path \notin disk
    <2>1. ASSUME NEW f \in disk' PROVE SavedIn(index', pos', f)
        <3>1. SavedIn(index, pos, f) /\ index[pos].path # f
            BY <1>1, <1>6, <1>7, <2>1
        <3>2. SavedIn(index', pos + 1, f)
            BY <1>1, <1>4, <3>1, SavedElsewhere
        <3>3. QED BY <1>1, <1>7, <3>2
    <2>2. QED BY <1>1, <1>5, <1>7, <2>1, SavedControl
<1>8. CASE index[pos].path \in disk
    <2>1. ASSUME NEW f \in disk' PROVE SavedIn(index', pos', f)
        <3>1. PICK i \in DOMAIN index : /\ Shows(index[i], f)
                                        /\ i < pos => ~index[i].deleted /\ index[i].read = f.seen
            BY <1>1, <1>6, <2>1 DEF SavedIn
        <3>2. Shows(index'[i], f) /\ index'[i].deleted = index[i].deleted /\ index'[i].read = index[i].read
            BY <1>3, <1>4, <3>1 DEF Shows
        <3>3. QED BY <1>1, <1>4, <1>8, <3>1, <3>2 DEF SavedIn
    <2>2. OneFile' /\ Alone'
        BY <1>1, <1>3, <1>4, <1>5, <1>8 DEF ShownParts, OneFile, Alone, Opening, Scans
    <2>3. FilesShown'
        BY <1>1, <1>8, <2>1 DEF FilesShown, FileShown, Scans
    <2>4. QED BY <1>1, <2>2, <2>3 DEF ShownParts
<1>9. QED BY <1>7, <1>8

\* A file is renamed, and its entry with it.
LEMMA SaveRenameShown ==
    ASSUME Types, Known, ShownParts, SaveRename
    PROVE  ShownParts' /\ world' = world
<1>1. /\ world' = world /\ mpc = "rename" /\ pos \in DOMAIN index /\ task' = task
      /\ mpc' = "save" /\ pos' = pos + 1 /\ This = index[pos]
      /\ This.path \in disk /\ Store((disk \ {This.path}) \cup {PathOf(This)})
    BY DEF SaveRename, At, NextMessage, This
<1>2. index[pos] \in Entry /\ ~index[pos].deleted /\ ~index[pos].edited
    BY <1>1, EntryAt DEF ShownParts, Alone, OneFile
<1>3. PICK g : g = PathOf(This)
    OBVIOUS
<1>4. g \in File /\ g.id = index[pos].path.id /\ g.seen = index[pos].read
    <2>1. g \in File /\ g.id = index[pos].path.id
        BY <1>1, <1>3, Saving
    <2>2. index[pos].path \in File
        BY <1>1, EntryAt
    <2>3. QED BY <1>1, <1>3, <2>1, <2>2 DEF PathOf, File
<1>5. disk' = (disk \ {index[pos].path}) \cup {g}
    BY <1>1, <1>3, StoreIs
<1>6. PICK x : x = [index[pos] EXCEPT !.path = g]
    OBVIOUS
<1>7. /\ x.path = g /\ x.read = index[pos].read /\ ~x.deleted /\ ~x.edited
    BY <1>2, <1>6 DEF Entry
<1>8. DOMAIN index' = DOMAIN index /\ \A i \in DOMAIN index : index'[i] = IF i = pos THEN x ELSE index[i]
    <2>1. index' = [index EXCEPT ![pos] = x]
        BY <1>1, <1>3, <1>6 DEF SaveRename
    <2>2. QED BY <1>1, <2>1 DEF Types
<1>9. ASSUME NEW f \in disk' PROVE SavedIn(index', pos', f)
    <2>1. CASE f = g
        <3>1. Shows(index'[pos], f) /\ ~index'[pos].deleted /\ index'[pos].read = f.seen
            BY <1>1, <1>4, <1>7, <1>8, <2>1 DEF Shows
        <3>2. pos \in DOMAIN index'
            BY <1>1, <1>8
        <3>3. QED BY <3>1, <3>2 DEF SavedIn
    <2>2. CASE f # g
        <3>1. f \in disk /\ index[pos].path # f
            BY <1>5, <1>9, <2>2
        <3>2. SavedIn(index, pos, f)
            BY <1>1, <3>1 DEF ShownParts, FilesShown
        <3>3. SavedIn(index', pos + 1, f)
            BY <1>1, <1>8, <3>1, <3>2, SavedElsewhere
        <3>4. QED BY <1>1, <3>3
    <2>3. QED BY <2>1, <2>2
<1>10. \A f, h \in disk' : f.id = h.id => f = h
    BY <1>1, <1>4, <1>5 DEF ShownParts, OneFile
<1>11. pos' \in Nat /\ \A i \in DOMAIN index' : ~index'[i].edited
    BY <1>1, <1>7, <1>8 DEF ShownParts, OneFile, Alone
<1>12. newer' \subseteq Dirs
    <2>1. newer \subseteq Dirs
        BY DEF ShownParts, Alone
    <2>2. QED BY <1>1, <1>3, <1>4, <2>1 DEF Store, Touch, Types, File
<1>13. QED BY <1>1, <1>9, <1>10, <1>11, <1>12, SavedControl

\* A failure leaves the rest unsaved.
LEMMA FailureShown ==
    ASSUME Types, Known, ShownParts, RenameFails \/ CopyFailed
    PROVE  ShownParts' /\ world' = world
<1>1. /\ index' = index /\ world' = world /\ disk' = disk /\ newer' = newer
      /\ mpc \in {"save", "rename"} /\ mpc' = "idle"
    BY DEF RenameFails, CopyFailed, At, SyncFails, Idle, indexVars
<1>2. OneFile' /\ Alone'
    BY <1>1 DEF ShownParts, OneFile, Alone, Opening, Scans
<1>3. \A f \in disk' : ShownIn(index', f)
    BY <1>1 DEF ShownParts, FilesShown, SavedIn, ShownIn
<1>4. FilesShown'
    BY <1>1, <1>3 DEF FilesShown, FileShown, Scans
<1>5. QED BY <1>1, <1>2, <1>4 DEF ShownParts

\* When everything is saved, the entries that stay show the files.
LEMMA StayingShows ==
    ASSUME Types, NEW f, NEW i \in DOMAIN index, ~index[i].deleted, index[i].path = f,
           index[i].read = f.seen
    PROVE  ShownIn(Staying(index), f)
<1> DEFINE p == {j \in DOMAIN index : ~index[j].deleted}
<1> DEFINE t == AtPlaces(index, p)
<1>1. t \in Seq(Entry) /\ \E k \in DOMAIN t : t[k] = index[i]
    <2>1. index \in Seq(Entry) /\ i \in p
        BY DEF Types
    <2> HIDE DEF p
    <2>2. t \in Seq(Entry)
        BY <2>1, AtPlacesPicks
    <2>3. \A j \in DOMAIN index : j \in p => \E k \in DOMAIN t : t[k] = index[j]
        BY <2>1, AtPlacesElements
    <2> HIDE DEF t
    <2>4. QED BY <2>1, <2>2, <2>3
<1>2. PICK k \in DOMAIN t : t[k] = index[i]
    BY <1>1
<1>3. PICK w : w = Staying(index)
    OBVIOUS
<1>4. k \in DOMAIN w /\ w[k] = [t[k] EXCEPT !.changed = FALSE]
    BY <1>2, <1>3 DEF Staying
<1> HIDE DEF t
<1>5. w[k].path = f /\ w[k].read = f.seen
    <2>1. index[i] \in Entry
        BY EntryAt
    <2>2. QED BY <1>2, <1>4, <2>1 DEF Entry
<1>6. QED BY <1>3, <1>4, <1>5 DEF ShownIn, Shows

\* The sync ends, and takes note of the times of the directories.
LEMMA SyncEndsShown ==
    ASSUME Types, Known, ShownParts, SyncEnds
    PROVE  ShownParts' /\ world' = world
<1>1. /\ world' = world /\ disk' = disk /\ mpc = "save" /\ pos > Len(index)
      /\ newer' = (IF Closes THEN Dirs ELSE {})
    BY DEF SyncEnds
<1>2. CASE Closes
    <2>1. index' = <<>> /\ mpc' = "closed" /\ newer' = Dirs
        BY <1>1, <1>2 DEF SyncEnds, SyncReturns, FastClose
    <2>2. \A f \in disk' : f.dir \in newer'
        BY <1>1, <2>1 DEF Types, File
    <2>3. OneFile' /\ Alone' /\ FilesShown'
        BY <1>1, <2>1, <2>2 DEF ShownParts, OneFile, Alone, FilesShown, Opening, Scans
    <2>4. QED BY <1>1, <2>3 DEF ShownParts
<1>3. CASE ~Closes
    <2>1. mpc' = "idle" /\ newer' = {} /\ (index' = index \/ index' = Staying(index))
        BY <1>1, <1>3 DEF SyncEnds, SyncReturns, Idle, TablesUpdated, Staying, indexVars
    <2>2. ASSUME NEW f \in disk' PROVE ShownIn(index', f)
        <3>1. PICK i \in DOMAIN index : /\ Shows(index[i], f)
                                        /\ i < pos => ~index[i].deleted /\ index[i].read = f.seen
            BY <1>1, <2>2 DEF ShownParts, FilesShown, SavedIn
        <3>2. i < pos
            <4>1. PICK n \in Nat : n = Len(index)
                BY DEF Types
            <4>2. i \in 1 .. n /\ pos > n /\ pos \in Nat
                BY <1>1, <3>1, <4>1 DEF Types, ShownParts, Alone
            <4>3. QED BY <4>2
        <3>3. CASE index' = index
            BY <3>1, <3>3 DEF ShownIn
        <3>4. CASE index' = Staying(index)
            BY <3>1, <3>2, <3>4, StayingShows DEF Shows
        <3>5. QED BY <2>1, <3>3, <3>4
    <2>3. \A i \in DOMAIN index' : ~index'[i].edited
        <3>1. CASE index' = index
            BY <3>1 DEF ShownParts, OneFile
        <3>2. CASE index' = Staying(index)
            <4> DEFINE p == {j \in DOMAIN index : ~index[j].deleted}
            <4> DEFINE t == AtPlaces(index, p)
            <4>1. t \in Seq(Entry) /\ \A k \in DOMAIN t : \E i \in DOMAIN index : t[k] = index[i]
                <5>1. index \in Seq(Entry)
                    BY DEF Types
                <5> HIDE DEF p
                <5>2. QED BY <5>1, AtPlacesPicks, AtPlacesElements
            <4>2. DOMAIN index' = DOMAIN t /\ \A k \in DOMAIN t : index'[k] = [t[k] EXCEPT !.changed = FALSE]
                BY <3>2 DEF Staying
            <4> HIDE DEF t
            <4>3. \A k \in DOMAIN t : t[k] \in Entry /\ ~t[k].edited
                BY <4>1 DEF ShownParts, OneFile
            <4>4. QED BY <4>2, <4>3 DEF Entry
        <3>3. QED BY <2>1, <3>1, <3>2
    <2>4. OneFile' /\ Alone'
        BY <1>1, <2>1, <2>3 DEF ShownParts, OneFile, Alone, Opening, Scans
    <2>5. FilesShown'
        BY <2>1, <2>2 DEF FilesShown, FileShown, Scans
    <2>6. QED BY <1>1, <2>4, <2>5 DEF ShownParts
<1>4. QED BY <1>2, <1>3

-----------------------------------------------------------------------------

\* Both directories look newer at first.
LEMMA ShownInit == MaildirInit => ShownInv
<1>1. SUFFICES ASSUME MaildirInit PROVE ShownParts
    BY DEF ShownInv
<1>2. index = <<>> /\ disk = {} /\ mpc = "closed" /\ newer = Dirs
    BY <1>1 DEF MaildirInit, MxInit
<1>3. QED BY <1>2 DEF ShownParts, OneFile, Alone, FilesShown, Opening, Scans

\* Every step keeps what is shown shown.
LEMMA ShownStep == Inv /\ ShownInv /\ [MaildirNext]_maildirVars => ShownInv'
<1>1. SUFFICES ASSUME Types, Known, ShownInv, [MaildirNext]_maildirVars PROVE ShownInv'
    BY DEF Inv
<1>2. CASE OtherClients
    BY <1>1, <1>2, OtherClientsShown
<1>3. CASE ~OtherClients
    <2>0. world' = world
        <3>1. CASE UNCHANGED maildirVars
            BY <3>1 DEF maildirVars
        <3>2. CASE Die \/ Reader
            BY <3>2 DEF Die, Reader, StartOpen, ListDir, ParseDir, StartCheck, CheckStat, ScanDir, CheckMerge
        <3>3. CASE MdUser
            BY <3>3 DEF MdUser, MdEdit, MdDelete, MdRequest, MdCloseAtOnce
        <3>4. CASE Saver
            BY <3>4 DEF Saver, SaveDeleted, SaveNothing, SaveStat, SaveRename, RenameFails,
                        SaveCopy, CopyFailed, SaveUnlink, SyncEnds
        <3>5. QED BY <1>1, <1>3, <3>1, <3>2, <3>3, <3>4 DEF MaildirNext
    <2>1. SUFFICES ASSUME ~world.midway, ~world.edits, ShownParts PROVE ShownParts'
        BY <1>1, <2>0 DEF ShownInv
    <2>2. CASE Die \/ StartOpen \/ ListDir \/ ParseDir \/ MdCloseAtOnce
        BY <1>1, <2>1, <2>2, OpeningShown
    <2>3. CASE StartCheck \/ MdRequest \/ \E i \in DOMAIN index : \E d \in BOOLEAN : MdDelete(i, d)
        BY <1>1, <2>1, <2>3, UserMarks, MarkingShown
    <2>4. CASE CheckStat \/ ScanDir \/ CheckMerge
        BY <1>1, <2>1, <2>4, StatShown, ScanShown, MergeShown
    <2>5. CASE \E i \in DOMAIN index : MdEdit(i)
        BY <2>1, <2>5 DEF MdEdit
    <2>6. CASE Saver
        <3>1. CASE SaveCopy \/ SaveUnlink
            BY <2>1, <3>1 DEF SaveCopy, SaveUnlink, At, This, ShownParts, OneFile
        <3>2. CASE SaveDeleted \/ SaveNothing \/ SaveStat \/ SaveRename
            BY <1>1, <2>1, <3>2, SaveDeletedShown, SaveNothingShown, SaveStatShown, SaveRenameShown
        <3>3. CASE RenameFails \/ CopyFailed \/ SyncEnds
            BY <1>1, <2>1, <3>3, FailureShown, SyncEndsShown
        <3>4. QED BY <2>6, <3>1, <3>2, <3>3 DEF Saver
    <2>7. CASE UNCHANGED maildirVars
        <3>1. /\ disk' = disk /\ index' = index /\ mpc' = mpc /\ pos' = pos /\ task' = task
              /\ listed' = listed /\ scanned' = scanned /\ newer' = newer
            BY <2>7 DEF maildirVars, mxVars, indexVars, callVars, checkVars
        <3>2. OneFile' /\ Alone'
            BY <2>1, <3>1 DEF ShownParts, OneFile, Alone
        <3>3. FilesShown'
            BY <2>1, <3>1 DEF ShownParts, FilesShown, FileShown, Done
        <3>4. QED BY <3>2, <3>3 DEF ShownParts
    <2>8. QED BY <1>1, <1>3, <2>2, <2>3, <2>4, <2>5, <2>6, <2>7 DEF MaildirNext, Reader, MdUser
<1>4. QED BY <1>2, <1>3

\* AllShown: when NeoMutt is idle and neither directory looks newer than when
\* maildir_check() or maildir_mbox_sync() last noted its time, every file of the
\* Maildir is in the index, whatever other clients did before, in any number of
\* opens, checks and syncs.
THEOREM EverythingShown == MaildirSpec => [](~world.edits => AllShown)
<1>1. ShownInv => (~world.edits => AllShown)
    BY DEF ShownInv, ShownParts, FilesShown, FileShown, AllShown, ShownIn, Shows
<1>2. QED BY LettersInit, LettersStep, ShownInit, ShownStep, <1>1, PTL DEF MaildirSpec
=============================================================================
