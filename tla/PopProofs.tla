----------------------------- MODULE PopProofs -----------------------------
(***************************************************************************)
(* Four facts about POP mailboxes, for any mail, any number of sessions    *)
(* and every world the hypotheses admit:                                   *)
(*   NumbersOfSession   a number is used in the session it belongs to;     *)
(*   RemovedWereShown   what QUIT removes was shown as deleted, or stored; *)
(*   SyncRemoves        a sync that succeeds removes what it drops;        *)
(*   TextIsOwn          the text kept for a message is its own.            *)
(* PopInv is inductive conjunct by conjunct, each one relying on those     *)
(* before it, and so is CacheInv, which the last needs.  ServerStep and    *)
(* IndexStep say what a step may do to the server and to the index, so     *)
(* that most conjuncts need not look at each action again.                 *)
(***************************************************************************)
EXTENDS Pop, ListsProofs

\* STAT is answered when the mailbox is checked: after a refused one the
\* session goes on with the numbers of another.
StatAnswered == \A w \in PopWorlds : "STAT" \notin w.refuses

\* UIDL is answered: without a list no message has a number, and a sync skips
\* them all.
UidlAnswered == \A w \in PopWorlds : "UIDL" \notin w.refuses

\* Who may change his mind finds a server that deletes what it is told to.
DeleAnswered == \A w \in PopWorlds : "undelete" \in w.user => "DELE" \notin w.refuses

\* Who reads has the mail for himself; and if he deletes messages, a sync that
\* loses its connection goes on with another.
OwnMail ==
    \A w \in PopWorlds : "read" \in w.user =>
        ~w.removes /\ ("delete" \notin w.user \/ ("insist" \in w.user /\ w.refuses = {}))

Message == [uid : Letter, refno : Nat, place : Nat, read : BOOLEAN,
            old : BOOLEAN, deleted : BOOLEAN, purge : BOOLEAN, changed : BOOLEAN]
Session == [state : {"none", "authorization", "transaction"}, list : Seq(Letter), marks : SUBSET Nat]

Uids(v) == {v[i].uid : i \in DOMAIN v}
Distinct(s) == \A i, j \in DOMAIN s : s[i] = s[j] => i = j
DistinctUids(v) == \A i, j \in DOMAIN v : v[i].uid = v[j].uid => i = j

FetchPcs == {"fetch", "fetchdele", "fetchrset", "fetchquit"}

\* Types, and what the state of the server and that of the control flow say of
\* each other.
ServerShape ==
    /\ world \in PopWorlds /\ arrived \subseteq Letter /\ number \in Nat
    /\ box \in Seq(Letter) /\ session \in Session
    /\ session.marks \subseteq DOMAIN session.list
    /\ ~Serves => session.marks = {}
    /\ mpc = "fetchdele" /\ Serves => number \in DOMAIN session.list

ReaderShape ==
    /\ index \in Seq(Message) /\ pos \in Nat
    /\ mpc \in {"closed", "idle", "stat", "connect", "uidl", "reconnect", "retr", "save"} \cup FetchPcs
    /\ task \in {"none", "check", "sync", "close", "read"}
    /\ mpc \in {"closed"} \cup FetchPcs => index = <<>> /\ task = "none"
    /\ mpc = "connect" => link # "connected" /\ task = "check"
    /\ mpc = "reconnect" => task # "check"
    /\ mpc = "reconnect" /\ task \in {"sync", "close"} => pos = 1
    /\ mpc = "save" => task \in {"sync", "close"} /\ pos > 0
    /\ mpc = "retr" => task = "read" /\ pos \in DOMAIN index
    /\ mpc = "reconnect" /\ task = "read" => pos \in DOMAIN index
    /\ mpc = "uidl" => task \in {"none", "check"}

Shape == ServerShape /\ ReaderShape

\* A message is nowhere twice; and one that is in the mailbox and in the index
\* is in the list of the session.
Letters ==
    /\ Distinct(box) /\ ToSet(box) \subseteq arrived
    /\ Distinct(session.list) /\ ToSet(session.list) \subseteq arrived
    /\ DistinctUids(index)
    /\ Uids(index) \subseteq arrived
    /\ Serves => ToSet(box) \cap Uids(index) \subseteq ToSet(session.list)

\* The numbers of the messages of v are those they have in the list.
Current(v, list) ==
    \A i \in DOMAIN v :
        \/ v[i].refno = NumberIn(list, v[i].uid)
        \/ v[i].refno = 0 /\ "UIDL" \in world.refuses

Numbers == link = "connected" /\ Serves /\ mpc # "uidl" => Current(index, session.list)

\* A sync that will not begin anew: every DELE so far was of this session.
Saving == mpc = "save" /\ link = "connected" /\ Serves

MarkedSoFar ==
    Saving => \A i \in 1 .. pos - 1 :
        i \in DOMAIN index /\ index[i].deleted /\ index[i].refno # 0 => index[i].refno \in session.marks

\* What a sync has marked are messages before the one it is at, and nothing
\* stays marked on the server when it is over.
SavedMarks ==
    /\ mpc = "save" =>
          \A n \in session.marks : \E j \in 1 .. pos - 1 :
              j \in DOMAIN index /\ index[j].refno = n /\ index[j].deleted
    /\ session.marks # {} => mpc \in {"save"} \cup FetchPcs

MayUndelete == "undelete" \in world.user
OwnMarks    == MayUndelete => SavedMarks

\* What is marked on the server is shown as deleted, or stored.
Accounted ==
    /\ \A n \in session.marks :
          \/ session.list[n] \in spool
          \/ \E i \in DOMAIN index : index[i].uid = session.list[n] /\ index[i].deleted
    /\ mpc = "fetchdele" /\ Serves => session.list[number] \in spool

PopInv == Shape /\ Letters /\ Numbers /\ MarkedSoFar /\ OwnMarks /\ Accounted

-----------------------------------------------------------------------------
(* The operators of the model *)

\* The number of a letter in a list that has it, and 0 otherwise.
LEMMA NumberInIs ==
    ASSUME NEW list \in Seq(Letter), NEW u
    PROVE  /\ NumberIn(list, u) \in Nat
           /\ NumberIn(list, u) # 0 <=> u \in ToSet(list)
           /\ NumberIn(list, u) # 0 => NumberIn(list, u) \in DOMAIN list /\ list[NumberIn(list, u)] = u
<1>1. CASE u \in ToSet(list)
    <2>1. \E n \in DOMAIN list : list[n] = u
        BY <1>1 DEF ToSet
    <2>2. NumberIn(list, u) = CHOOSE n \in DOMAIN list : list[n] = u
        BY <1>1 DEF NumberIn
    <2>3. NumberIn(list, u) \in DOMAIN list /\ list[NumberIn(list, u)] = u
        BY <2>1, <2>2
    <2>4. QED BY <1>1, <2>3
<1>2. CASE u \notin ToSet(list)
    BY <1>2 DEF NumberIn
<1>3. QED BY <1>1, <1>2

\* w is v with other flags.
Reflagged(v, w) ==
    /\ w \in Seq(Message) /\ DOMAIN w = DOMAIN v
    /\ \A i \in DOMAIN v : w[i].uid = v[i].uid /\ w[i].refno = v[i].refno /\ w[i].place = v[i].place

\* w is v with the numbers of list.
Renumbered(v, w, list) ==
    /\ w \in Seq(Message) /\ DOMAIN w = DOMAIN v
    /\ \A i \in DOMAIN v : w[i].uid = v[i].uid /\ w[i].refno = NumberIn(list, v[i].uid)

\* What is marked deleted in v is so in w.
MarksStay(v, w) == \A i \in DOMAIN v : v[i].deleted => i \in DOMAIN w /\ w[i].deleted

\* What is marked deleted in w was so in v.
NoNewMarks(v, w) == \A i \in DOMAIN w : w[i].deleted => i \in DOMAIN v /\ v[i].deleted

\* The messages of v are kept where they were, and where the list has them.
SamePlaces(v, w) == \A i \in DOMAIN v : w[i].place = v[i].place

NewPlaces(v, w, list) ==
    \A i \in DOMAIN v : LET n == NumberIn(list, v[i].uid)
                        IN  w[i].place = IF n = 0 THEN v[i].place ELSE n

\* An email that is marked or unmarked.
LEMMA FieldMarked ==
    ASSUME NEW m \in Message, NEW d \in BOOLEAN, NEW w, w = [m EXCEPT !.deleted = d]
    PROVE  /\ w \in Message /\ w.uid = m.uid /\ w.refno = m.refno /\ w.place = m.place
           /\ w.deleted <=> d
BY DEF Message

\* An email that is read.
LEMMA FieldRead ==
    ASSUME NEW m \in Message, NEW w, w = [m EXCEPT !.read = TRUE, !.changed = TRUE]
    PROVE  /\ w \in Message /\ w.uid = m.uid /\ w.refno = m.refno /\ w.place = m.place
           /\ w.deleted <=> m.deleted
BY DEF Message

\* An email that has its number from the session.
LEMMA FieldVerified ==
    ASSUME NEW m \in Message, NEW n \in Nat, NEW w, w = [m EXCEPT !.refno = n]
    PROVE  /\ w \in Message /\ w.uid = m.uid /\ w.refno = n /\ w.place = m.place
           /\ w.deleted <=> m.deleted
BY DEF Message

\* The other marks of an email.
LEMMA FieldsElse ==
    ASSUME NEW m \in Message
    PROVE  /\ LET w == [m EXCEPT !.deleted = TRUE] IN
                 w \in Message /\ w.uid = m.uid /\ w.refno = m.refno /\ w.place = m.place /\ w.deleted
           /\ LET w == [m EXCEPT !.deleted = FALSE, !.purge = FALSE] IN
                 /\ w \in Message /\ w.uid = m.uid /\ w.refno = m.refno /\ w.place = m.place
                 /\ ~w.deleted
           /\ LET w == [m EXCEPT !.old = TRUE, !.changed = TRUE] IN
                 /\ w \in Message /\ w.uid = m.uid /\ w.refno = m.refno /\ w.place = m.place
                 /\ w.deleted <=> m.deleted
BY DEF Message

\* A sequence of the same length, element by element.
LEMMA SameLength ==
    ASSUME NEW S, NEW v \in Seq(S), NEW w, w = [i \in DOMAIN v |-> w[i]],
           \A i \in DOMAIN v : w[i] \in S
    PROVE  w \in Seq(S) /\ DOMAIN w = DOMAIN v
OBVIOUS

\* Marks leave the uid, the number and the place of every email alone.
LEMMA FlagsOnly ==
    ASSUME NEW v \in Seq(Message)
    PROVE  /\ Reflagged(v, v) /\ MarksStay(v, v) /\ NoNewMarks(v, v)
           /\ Reflagged(v, Undelete(v)) /\ NoNewMarks(v, Undelete(v))
           /\ Reflagged(v, Aged(v)) /\ MarksStay(v, Aged(v)) /\ NoNewMarks(v, Aged(v))
           /\ Reflagged(v, LostMarked(v)) /\ MarksStay(v, LostMarked(v))
           /\ \A i \in DOMAIN v : LostMarked(v)[i].deleted => v[i].deleted \/ v[i].refno = 0
           /\ \A i \in DOMAIN v : \A d \in BOOLEAN :
                 /\ Reflagged(v, [v EXCEPT ![i].deleted = d])
                 /\ d => MarksStay(v, [v EXCEPT ![i].deleted = d])
                 /\ ~d => NoNewMarks(v, [v EXCEPT ![i].deleted = d])
           /\ \A i \in DOMAIN v : 
                 /\ Reflagged(v, [v EXCEPT ![i].read = TRUE, ![i].changed = TRUE]) 
                 /\ MarksStay(v, [v EXCEPT ![i].read = TRUE, ![i].changed = TRUE])
                 /\ NoNewMarks(v, [v EXCEPT ![i].read = TRUE, ![i].changed = TRUE])
<1>0. \A i \in DOMAIN v : v[i] \in Message
    OBVIOUS
<1>1. Reflagged(v, v) /\ MarksStay(v, v) /\ NoNewMarks(v, v)
    BY DEF Reflagged, MarksStay, NoNewMarks
<1>2. Reflagged(v, Undelete(v)) /\ NoNewMarks(v, Undelete(v))
    <2>1. PICK w : w = Undelete(v)
        OBVIOUS
    <2>2. \A i \in DOMAIN v : /\ w[i] \in Message /\ w[i].uid = v[i].uid /\ w[i].refno = v[i].refno
                              /\ w[i].place = v[i].place /\ ~w[i].deleted
        BY <1>0, <2>1, FieldsElse DEF Undelete
    <2>3. w = [i \in DOMAIN v |-> w[i]]
        BY <2>1 DEF Undelete
    <2>4. QED BY <2>1, <2>2, <2>3, SameLength DEF Reflagged, NoNewMarks
<1>3. Reflagged(v, Aged(v)) /\ MarksStay(v, Aged(v)) /\ NoNewMarks(v, Aged(v))
    <2>1. PICK w : w = Aged(v)
        OBVIOUS
    <2>2. \A i \in DOMAIN v : /\ w[i] \in Message /\ w[i].uid = v[i].uid /\ w[i].refno = v[i].refno
                              /\ w[i].place = v[i].place
                              /\ v[i].deleted <=> w[i].deleted
        BY <1>0, <2>1, FieldsElse DEF Aged
    <2>3. w = [i \in DOMAIN v |-> w[i]]
        BY <2>1 DEF Aged
    <2>4. QED BY <2>1, <2>2, <2>3, SameLength DEF Reflagged, MarksStay, NoNewMarks
<1>4. /\ Reflagged(v, LostMarked(v)) /\ MarksStay(v, LostMarked(v))
      /\ \A i \in DOMAIN v : LostMarked(v)[i].deleted => v[i].deleted \/ v[i].refno = 0
    <2>1. PICK w : w = LostMarked(v)
        OBVIOUS
    <2>2. \A i \in DOMAIN v : /\ w[i] \in Message /\ w[i].uid = v[i].uid /\ w[i].refno = v[i].refno
                              /\ w[i].place = v[i].place
                              /\ v[i].deleted => w[i].deleted
                              /\ w[i].deleted => v[i].deleted \/ v[i].refno = 0
        BY <1>0, <2>1, FieldsElse DEF LostMarked
    <2>3. w = [i \in DOMAIN v |-> w[i]]
        BY <2>1 DEF LostMarked
    <2>4. QED BY <2>1, <2>2, <2>3, SameLength DEF Reflagged, MarksStay
<1>5. ASSUME NEW i \in DOMAIN v, NEW d \in BOOLEAN
      PROVE  /\ Reflagged(v, [v EXCEPT ![i].deleted = d])
             /\ d => MarksStay(v, [v EXCEPT ![i].deleted = d])
             /\ ~d => NoNewMarks(v, [v EXCEPT ![i].deleted = d])
    <2>1. PICK w : w = [v EXCEPT ![i].deleted = d]
        OBVIOUS
    <2>2. \A j \in DOMAIN v : /\ w[j] \in Message /\ w[j].uid = v[j].uid /\ w[j].refno = v[j].refno
                              /\ w[j].place = v[j].place
                              /\ d /\ v[j].deleted => w[j].deleted
                              /\ ~d /\ w[j].deleted => v[j].deleted
        <3>1. w[i] = [v[i] EXCEPT !.deleted = d]
            BY <2>1
        <3>2. /\ w[i] \in Message /\ w[i].uid = v[i].uid /\ w[i].refno = v[i].refno
              /\ w[i].place = v[i].place
              /\ w[i].deleted <=> d
            BY <1>0, <3>1, FieldMarked
        <3>3. \A j \in DOMAIN v : j # i => w[j] = v[j]
            BY <2>1
        <3>4. QED BY <1>0, <3>2, <3>3
    <2>3. w = [j \in DOMAIN v |-> w[j]]
        BY <2>1
    <2>4. QED BY <2>1, <2>2, <2>3, SameLength DEF Reflagged, MarksStay, NoNewMarks
<1>6. ASSUME NEW i \in DOMAIN v
      PROVE  /\ Reflagged(v, [v EXCEPT ![i].read = TRUE, ![i].changed = TRUE]) 
             /\ MarksStay(v, [v EXCEPT ![i].read = TRUE, ![i].changed = TRUE])
             /\ NoNewMarks(v, [v EXCEPT ![i].read = TRUE, ![i].changed = TRUE])
    <2>1. PICK w : w = [v EXCEPT ![i].read = TRUE, ![i].changed = TRUE]
        OBVIOUS
    <2>2. \A j \in DOMAIN v : /\ w[j] \in Message /\ w[j].uid = v[j].uid /\ w[j].refno = v[j].refno
                              /\ w[j].place = v[j].place
                              /\ v[j].deleted <=> w[j].deleted
        <3>1. w[i] = [v[i] EXCEPT !.read = TRUE, !.changed = TRUE]
            BY <2>1
        <3>2. /\ w[i] \in Message /\ w[i].uid = v[i].uid /\ w[i].refno = v[i].refno
              /\ w[i].place = v[i].place
              /\ v[i].deleted <=> w[i].deleted
            BY <1>0, <3>1, FieldRead
        <3>3. \A j \in DOMAIN v : j # i => w[j] = v[j]
            BY <2>1
        <3>4. QED BY <1>0, <3>2, <3>3
    <2>3. w = [j \in DOMAIN v |-> w[j]]
        BY <2>1
    <2>4. Reflagged(v, w) /\ MarksStay(v, w) /\ NoNewMarks(v, w)
        BY <2>2, <2>3, SameLength DEF Reflagged, MarksStay, NoNewMarks
    <2>5. QED BY ONLY <2>1, <2>4, Zenon
<1>7. QED BY <1>1, <1>2, <1>3, <1>4, <1>5, <1>6

\* verify_headers() and pop_fetch_headers() take the numbers from the list.
LEMMA NewNumbers ==
    ASSUME NEW v \in Seq(Message), NEW list \in Seq(Letter)
    PROVE  /\ Renumbered(v, Verified(v, list), list) /\ MarksStay(v, Verified(v, list))
           /\ NoNewMarks(v, Verified(v, list)) /\ SamePlaces(v, Verified(v, list))
           /\ Renumbered(v, Numbered(v, list), list) /\ MarksStay(v, Numbered(v, list))
           /\ NoNewMarks(v, Numbered(v, list)) /\ NewPlaces(v, Numbered(v, list), list)
<1>0. \A i \in DOMAIN v : v[i] \in Message
    OBVIOUS
<1>1. \A i \in DOMAIN v : NumberIn(list, v[i].uid) \in Nat
    BY NumberInIs
<1>2. /\ Renumbered(v, Verified(v, list), list) /\ MarksStay(v, Verified(v, list))
      /\ NoNewMarks(v, Verified(v, list)) /\ SamePlaces(v, Verified(v, list))
    <2>1. PICK w : w = Verified(v, list)
        OBVIOUS
    <2>2. \A i \in DOMAIN v : /\ w[i] \in Message /\ w[i].uid = v[i].uid 
                              /\ w[i].refno = NumberIn(list, v[i].uid)
                              /\ v[i].deleted <=> w[i].deleted
                              /\ w[i].place = v[i].place
        <3> TAKE i \in DOMAIN v
        <3>1. w[i] = [v[i] EXCEPT !.refno = NumberIn(list, v[i].uid)]
            BY <2>1 DEF Verified
        <3>2. v[i] \in Message /\ NumberIn(list, v[i].uid) \in Nat
            BY <1>0, <1>1
        <3>3. QED BY <3>1, <3>2, FieldVerified
    <2>3. w = [i \in DOMAIN v |-> w[i]]
        BY <2>1 DEF Verified
    <2>4. QED BY <2>1, <2>2, <2>3, SameLength DEF Renumbered, MarksStay, NoNewMarks, SamePlaces
<1>3. /\ Renumbered(v, Numbered(v, list), list) /\ MarksStay(v, Numbered(v, list))
      /\ NoNewMarks(v, Numbered(v, list)) /\ NewPlaces(v, Numbered(v, list), list)
    <2>1. PICK w : w = Numbered(v, list)
        OBVIOUS
    <2>2. \A i \in DOMAIN v : /\ w[i] \in Message /\ w[i].uid = v[i].uid 
                              /\ w[i].refno = NumberIn(list, v[i].uid)
                              /\ v[i].deleted <=> w[i].deleted
                              /\ LET n == NumberIn(list, v[i].uid)
                                 IN  w[i].place = IF n = 0 THEN v[i].place ELSE n
        <3> TAKE i \in DOMAIN v
        <3>1. PICK m \in Message : m = v[i]
            BY <1>0
        <3>2. PICK n \in Nat : n = NumberIn(list, m.uid)
            BY <1>1, <3>1
        <3>3. w[i] = [m EXCEPT !.refno = n, !.place = IF n = 0 THEN @ ELSE n]
            BY <2>1, <3>1, <3>2 DEF Numbered
        <3>4. PICK x : x = w[i]
            OBVIOUS
        <3>5. /\ x \in Message /\ x.uid = m.uid /\ x.refno = n /\ (x.deleted <=> m.deleted)
              /\ x.place = IF n = 0 THEN m.place ELSE n
            <4>1. m \in Message /\ n \in Nat
                OBVIOUS
            <4>2. x = [m EXCEPT !.refno = n, !.place = IF n = 0 THEN @ ELSE n]
                BY <3>3, <3>4
            <4>3. QED BY ONLY <4>1, <4>2 DEF Message
        <3>6. QED BY <3>1, <3>2, <3>4, <3>5
    <2>3. w = [i \in DOMAIN v |-> w[i]]
        BY <2>1 DEF Numbered
    <2>4. QED BY <2>1, <2>2, <2>3, SameLength DEF Renumbered, MarksStay, NoNewMarks, NewPlaces
<1>4. QED BY <1>2, <1>3

\* What is left of a list without duplicates has none.
LEMMA AtPlacesDistinct ==
    ASSUME NEW S, NEW s \in Seq(S), NEW places, Distinct(s)
    PROVE  Distinct(AtPlaces(s, places)) /\ ToSet(AtPlaces(s, places)) \subseteq ToSet(s)
<1> DEFINE t == AtPlaces(s, places)
<1>1. t \in Seq(S) /\ \E e : Picks(s, places, e, t, Len(s))
    BY AtPlacesPicks
<1>2. PICK e : Picks(s, places, e, t, Len(s))
    BY <1>1
<1> HIDE DEF t
<1>3. DOMAIN t = 1 .. Len(t) /\ DOMAIN s = 1 .. Len(s) /\ Len(t) \in Nat
    BY <1>1
<1>4. \A m \in DOMAIN t : e[m] \in DOMAIN s /\ t[m] = s[e[m]] /\ e[m] \in Nat
    BY <1>2, <1>3 DEF Picks
<1>5. ASSUME NEW l \in DOMAIN t, NEW m \in DOMAIN t, t[l] = t[m] PROVE l = m
    <2>1. e[l] = e[m]
        BY <1>4, <1>5 DEF Distinct
    <2>2. (l < m => e[l] < e[m]) /\ (m < l => e[m] < e[l])
        BY <1>2, <1>3 DEF Picks
    <2>3. l \in Nat /\ m \in Nat
        BY <1>3
    <2>4. QED BY <1>4, <2>1, <2>2, <2>3
<1>6. ToSet(t) \subseteq ToSet(s)
    BY <1>4 DEF ToSet
<1>7. QED BY <1>5, <1>6 DEF t, Distinct

\* The messages of a list that the index does not have.
LEMMA UnknownIs ==
    ASSUME NEW v \in Seq(Message), NEW list \in Seq(Letter), Distinct(list)
    PROVE  /\ Unknown(v, list) \in Seq(Message)
           /\ DistinctUids(Unknown(v, list))
           /\ Uids(Unknown(v, list)) \subseteq ToSet(list) \ Uids(v)
           /\ \A i \in DOMAIN Unknown(v, list) :
                 /\ Unknown(v, list)[i].refno = NumberIn(list, Unknown(v, list)[i].uid)
                 /\ Unknown(v, list)[i].place = NumberIn(list, Unknown(v, list)[i].uid)
                 /\ ~Unknown(v, list)[i].deleted
<1> DEFINE places == {n \in DOMAIN list : \A i \in DOMAIN v : v[i].uid # list[n]}
           new == AtPlaces(list, places)
           w == [i \in DOMAIN new |-> LET n == NumberIn(list, new[i]) IN
                   [uid |-> new[i], refno |-> n, place |-> n, read |-> FALSE, old |-> FALSE,
                    deleted |-> FALSE, purge |-> FALSE, changed |-> FALSE]]
<1>1. Unknown(v, list) = w
    BY DEF Unknown
<1>2. new \in Seq(Letter) /\ Distinct(new)
    BY AtPlacesPicks, AtPlacesDistinct
<1>3. \A m \in DOMAIN new : \E n \in DOMAIN list : n \in places /\ new[m] = list[n]
    <2> HIDE DEF places
    <2>1. list \in Seq(Letter)
        OBVIOUS
    <2>2. QED BY ONLY <2>1, AtPlacesElements
<1>4. \A i \in DOMAIN new : new[i] \in ToSet(list) /\ new[i] \notin Uids(v)
    BY <1>3 DEF ToSet, Uids
<1> HIDE DEF new
<1>5. \A i \in DOMAIN new : NumberIn(list, new[i]) \in Nat
    BY NumberInIs
<1>6. w \in Seq(Message) /\ DOMAIN w = DOMAIN new
    <2>1. \A i \in DOMAIN new : w[i] \in Message
        BY <1>2, <1>5 DEF Message
    <2>2. DOMAIN w = DOMAIN new /\ w = [i \in DOMAIN w |-> w[i]]
        OBVIOUS
    <2> HIDE DEF w
    <2>3. DOMAIN w = 1 .. Len(new) /\ Len(new) \in Nat
        BY <1>2, <2>2
    <2>4. QED BY <2>1, <2>2, <2>3
<1>7. \A i \in DOMAIN w : /\ w[i].uid = new[i] /\ w[i].refno = NumberIn(list, new[i])
                          /\ w[i].place = NumberIn(list, new[i]) /\ ~w[i].deleted
    OBVIOUS
<1> HIDE DEF w
<1>8. DistinctUids(w)
    BY <1>2, <1>6, <1>7 DEF DistinctUids, Distinct
<1>9. Uids(w) \subseteq ToSet(list) \ Uids(v)
    BY <1>4, <1>6, <1>7 DEF Uids
<1>10. QED BY <1>1, <1>6, <1>7, <1>8, <1>9

\* The first elements of a list.
LEMMA PrefixIs ==
    ASSUME NEW S, NEW s \in Seq(S), NEW k \in 0 .. Len(s)
    PROVE  /\ SubSeq(s, 1, k) \in Seq(S) /\ DOMAIN SubSeq(s, 1, k) = 1 .. k
           /\ \A i \in 1 .. k : i \in DOMAIN s /\ SubSeq(s, 1, k)[i] = s[i]
<1>1. k \in Nat /\ k \in Int /\ 1 \in Int
    OBVIOUS
<1>2. \A i \in 1 .. k : s[i] \in S
    OBVIOUS
<1>3. /\ SubSeq(s, 1, k) \in Seq(S)
      /\ Len(SubSeq(s, 1, k)) = IF 1 <= k THEN k-1+1 ELSE 0
      /\ \A i \in 1 .. k-1+1 : SubSeq(s, 1, k)[i] = s[1+i-1]
    BY ONLY <1>1, <1>2, SubSeqProperties
<1>4. Len(SubSeq(s, 1, k)) = k
    BY <1>1, <1>3
<1>5. ASSUME NEW i \in 1 .. k PROVE SubSeq(s, 1, k)[i] = s[i]
    <2>1. i \in 1 .. k-1+1 /\ 1+i-1 = i
        BY <1>1
    <2>2. SubSeq(s, 1, k)[i] = s[1+i-1]
        BY <1>3, <2>1
    <2>3. QED BY <2>1, <2>2
<1>6. DOMAIN SubSeq(s, 1, k) = 1 .. k
    BY <1>3, <1>4
<1>7. \A i \in 1 .. k : i \in DOMAIN s
    OBVIOUS
<1>8. QED BY <1>3, <1>5, <1>6, <1>7

\* Part of the list of a session names each message once as well.
LEMMA PrefixOfList ==
    ASSUME NEW list \in Seq(Letter), Distinct(list), NEW k \in 0 .. Len(list)
    PROVE  /\ SubSeq(list, 1, k) \in Seq(Letter) /\ Distinct(SubSeq(list, 1, k))
           /\ ToSet(SubSeq(list, 1, k)) \subseteq ToSet(list)
<1> DEFINE t == SubSeq(list, 1, k)
<1>1. t \in Seq(Letter) /\ DOMAIN t = 1 .. k /\ \A i \in 1 .. k : i \in DOMAIN list /\ t[i] = list[i]
    BY PrefixIs
<1> HIDE DEF t
<1>2. Distinct(t) /\ ToSet(t) \subseteq ToSet(list)
    BY <1>1 DEF Distinct, ToSet
<1>3. QED BY <1>1, <1>2 DEF t

\* w is the index v after the list was fetched: the known messages renumbered,
\* those without a number marked, new messages after them.
Fetched(v, w, list) ==
    /\ w \in Seq(Message) /\ DOMAIN v \subseteq DOMAIN w
    /\ MarksStay(v, w) /\ \A i \in DOMAIN v : w[i].uid = v[i].uid
    /\ \A i \in DOMAIN w : /\ w[i].refno = NumberIn(list, w[i].uid)
                           /\ w[i].place = IF w[i].refno = 0 THEN v[i].place ELSE w[i].refno
                           /\ w[i].refno = 0 => i \in DOMAIN v
                           /\ w[i].deleted /\ w[i].refno # 0 => i \in DOMAIN v /\ v[i].deleted
    /\ Uids(w) \subseteq Uids(v) \cup ToSet(list)
    /\ DistinctUids(v) => DistinctUids(w)

\* What pop_fetch_headers() leaves: numbered, marked as lost, and new emails.
LEMMA FetchedIs ==
    ASSUME NEW v \in Seq(Message), NEW list \in Seq(Letter), Distinct(list),
           NEW k \in 0 .. Len(Unknown(v, list))
    PROVE  Fetched(v, LostMarked(Numbered(v, list)) \o SubSeq(Unknown(v, list), 1, k), list)
<1>1. PICK a : a = LostMarked(Numbered(v, list))
    OBVIOUS
<1>2. /\ Renumbered(v, a, list) /\ MarksStay(v, a) /\ NewPlaces(v, a, list)
      /\ \A i \in DOMAIN v : a[i].deleted => v[i].deleted \/ a[i].refno = 0
    <2>1. PICK n : n = Numbered(v, list)
        OBVIOUS
    <2>2. Renumbered(v, n, list) /\ MarksStay(v, n) /\ NoNewMarks(v, n) /\ NewPlaces(v, n, list)
        BY <2>1, NewNumbers
    <2>3. n \in Seq(Message)
        BY <2>2 DEF Renumbered
    <2>4. /\ Reflagged(n, a) /\ MarksStay(n, a)
          /\ \A i \in DOMAIN n : a[i].deleted => n[i].deleted \/ n[i].refno = 0
        BY <1>1, <2>1, <2>3, FlagsOnly
    <2>5. Renumbered(v, a, list)
        BY <2>2, <2>4 DEF Renumbered, Reflagged
    <2>6. MarksStay(v, a)
        BY <2>2, <2>4 DEF MarksStay
    <2>7. NewPlaces(v, a, list)
        BY <2>2, <2>4 DEF Renumbered, Reflagged, NewPlaces
    <2>8. \A i \in DOMAIN v : a[i].deleted => v[i].deleted \/ a[i].refno = 0
        BY <2>2, <2>4 DEF Renumbered, Reflagged, NoNewMarks
    <2>9. QED BY <2>5, <2>6, <2>7, <2>8
<1>3. PICK u : u = Unknown(v, list)
    OBVIOUS
<1>4. /\ u \in Seq(Message) /\ DistinctUids(u) /\ Uids(u) \subseteq ToSet(list) \ Uids(v)
      /\ \A i \in DOMAIN u : /\ u[i].refno = NumberIn(list, u[i].uid)
                             /\ u[i].place = NumberIn(list, u[i].uid) /\ ~u[i].deleted
    BY <1>3, UnknownIs
<1>5. PICK b : b = SubSeq(u, 1, k)
    OBVIOUS
<1>6. b \in Seq(Message) /\ DOMAIN b = 1 .. k /\ \A i \in 1 .. k : i \in DOMAIN u /\ b[i] = u[i]
    BY <1>3, <1>4, <1>5, PrefixIs
<1>7. DistinctUids(b)
    BY <1>4, <1>6 DEF DistinctUids
<1>8. \A i \in DOMAIN b : /\ b[i].refno = NumberIn(list, b[i].uid)
                          /\ b[i].place = NumberIn(list, b[i].uid) /\ ~b[i].deleted
                          /\ b[i].uid \in ToSet(list) /\ b[i].uid \notin Uids(v)
    BY <1>4, <1>6 DEF Uids
<1>9. PICK w : w = a \o b
    OBVIOUS
<1>10. a \in Seq(Message) /\ DOMAIN a = DOMAIN v
    BY <1>2 DEF Renumbered
<1>11. /\ w \in Seq(Message) /\ DOMAIN v \subseteq DOMAIN w
       /\ \A i \in DOMAIN v : w[i] = a[i]
       /\ \A i \in DOMAIN w \ DOMAIN v : i - Len(a) \in DOMAIN b /\ w[i] = b[i - Len(a)] /\ i \in Nat
       /\ Len(a) \in Nat
    BY <1>6, <1>9, <1>10
<1>12. \A i \in DOMAIN v : w[i].uid = v[i].uid /\ w[i].refno = NumberIn(list, w[i].uid)
    BY <1>2, <1>11 DEF Renumbered
<1>13. \A i \in DOMAIN w \ DOMAIN v : /\ w[i].refno = NumberIn(list, w[i].uid) /\ w[i].refno # 0
                                      /\ w[i].place = w[i].refno /\ ~w[i].deleted
                                      /\ w[i].uid \in ToSet(list) /\ w[i].uid \notin Uids(v)
    <2>1. \A i \in DOMAIN b : NumberIn(list, b[i].uid) # 0
        BY <1>8, NumberInIs
    <2>2. QED BY <1>8, <1>11, <2>1
<1>14. MarksStay(v, w)
    BY <1>2, <1>11 DEF MarksStay
<1>15. Uids(w) \subseteq Uids(v) \cup ToSet(list)
    BY <1>12, <1>13 DEF Uids
<1>16. ASSUME DistinctUids(v), NEW i \in DOMAIN w, NEW j \in DOMAIN w, w[i].uid = w[j].uid
       PROVE  i = j
    <2>1. CASE i \in DOMAIN v /\ j \in DOMAIN v
        BY <1>12, <1>16, <2>1 DEF DistinctUids
    <2>2. CASE i \notin DOMAIN v /\ j \notin DOMAIN v
        <3>1. i - Len(a) = j - Len(a)
            BY <1>7, <1>11, <1>16, <2>2 DEF DistinctUids
        <3>2. QED BY <1>11, <2>2, <3>1
    <2>3. CASE i \in DOMAIN v /\ j \notin DOMAIN v
        BY <1>12, <1>13, <1>16, <2>3 DEF Uids
    <2>4. CASE i \notin DOMAIN v /\ j \in DOMAIN v
        BY <1>12, <1>13, <1>16, <2>4 DEF Uids
    <2>5. QED BY <2>1, <2>2, <2>3, <2>4
<1>17. DistinctUids(v) => DistinctUids(w)
    BY <1>16 DEF DistinctUids
<1>18. Fetched(v, w, list)
    <2>1. \A i \in DOMAIN w : /\ w[i].refno = NumberIn(list, w[i].uid)
                              /\ w[i].place = IF w[i].refno = 0 THEN v[i].place ELSE w[i].refno
                              /\ w[i].refno = 0 => i \in DOMAIN v
                              /\ w[i].deleted /\ w[i].refno # 0 => i \in DOMAIN v /\ v[i].deleted
        <3> DEFINE Whole(i) == /\ w[i].refno = NumberIn(list, w[i].uid)
                               /\ w[i].place = IF w[i].refno = 0 THEN v[i].place ELSE w[i].refno
                               /\ w[i].refno = 0 => i \in DOMAIN v
                               /\ w[i].deleted /\ w[i].refno # 0 => i \in DOMAIN v /\ v[i].deleted
        <3>1. ASSUME NEW i \in DOMAIN v PROVE Whole(i)
            <4>1. w[i] = a[i] /\ a[i].uid = v[i].uid /\ a[i].refno = NumberIn(list, v[i].uid)
                BY <1>2, <1>11 DEF Renumbered
            <4>2. a[i].place = IF NumberIn(list, v[i].uid) = 0 THEN v[i].place ELSE NumberIn(list, v[i].uid)
                BY <1>2 DEF NewPlaces
            <4>3. a[i].deleted => v[i].deleted \/ a[i].refno = 0
                BY <1>2
            <4>4. QED BY <4>1, <4>2, <4>3
        <3>2. ASSUME NEW i \in DOMAIN w, i \notin DOMAIN v PROVE Whole(i)
            BY <1>13, <3>2
        <3>3. QED BY <3>1, <3>2
    <2>2. QED BY <1>11, <1>12, <1>14, <1>15, <1>17, <2>1 DEF Fetched
<1>19. QED BY <1>1, <1>3, <1>5, <1>9, <1>18

\* FetchHeaders() takes all the new messages.
LEMMA FetchedAll ==
    ASSUME NEW v \in Seq(Message), NEW list \in Seq(Letter), Distinct(list)
    PROVE  Fetched(v, LostMarked(Numbered(v, list)) \o Unknown(v, list), list)
<1>1. PICK u : u = Unknown(v, list)
    OBVIOUS
<1>2. u \in Seq(Message)
    BY <1>1, UnknownIs
<1>3. Len(u) \in 0 .. Len(u) /\ SubSeq(u, 1, Len(u)) = u
    <2>1. PICK b : b = SubSeq(u, 1, Len(u))
        OBVIOUS
    <2>2. Len(u) \in 0 .. Len(u)
        BY <1>2
    <2>3. b \in Seq(Message) /\ DOMAIN b = 1 .. Len(u) /\ \A i \in 1 .. Len(u) : b[i] = u[i]
        BY <1>2, <2>1, <2>2, PrefixIs
    <2>4. b = u
        BY <1>2, <2>3
    <2>5. QED BY <2>1, <2>2, <2>4
<1>4. QED BY <1>1, <1>3, FetchedIs

\* w holds some of the messages of v, under their numbers.
Sublist(v, w) ==
    /\ w \in Seq(Message)
    /\ \A j \in DOMAIN w : \E i \in DOMAIN v :
          /\ w[j].uid = v[i].uid /\ w[j].refno = v[i].refno /\ w[j].place = v[i].place
          /\ ~v[i].deleted /\ ~w[j].deleted
    /\ DistinctUids(v) => DistinctUids(w)

\* update_tables() leaves a sublist.
LEMMA TablesUpdatedIs ==
    ASSUME index \in Seq(Message), TablesUpdated
    PROVE  Sublist(index, index')
<1> DEFINE places == {i \in DOMAIN index : ~index[i].deleted}
<1>1. PICK t : t = AtPlaces(index, places)
    OBVIOUS
<1>2. t \in Seq(Message) /\ \E e : Picks(index, places, e, t, Len(index))
    <2> HIDE DEF places
    <2>1. QED BY <1>1, AtPlacesPicks
<1>3. PICK e : Picks(index, places, e, t, Len(index))
    BY <1>2
<1>4. PICK w : w = [i \in DOMAIN t |-> [t[i] EXCEPT !.changed = FALSE]]
    OBVIOUS
<1>5. \A i \in DOMAIN t : /\ w[i] \in Message /\ w[i].uid = t[i].uid /\ w[i].refno = t[i].refno
                          /\ w[i].place = t[i].place /\ w[i].deleted = t[i].deleted
    <2>1. \A i \in DOMAIN t : t[i] \in Message
        BY <1>2
    <2>2. QED BY <1>4, <2>1 DEF Message
<1>6. w \in Seq(Message) /\ DOMAIN w = DOMAIN t
    <2>1. w = [i \in DOMAIN t |-> w[i]]
        BY <1>4
    <2>2. QED BY <1>2, <1>5, <2>1, SameLength
<1>7. DOMAIN t = 1 .. Len(t) /\ DOMAIN index = 1 .. Len(index) /\ Len(t) \in Nat
    BY <1>2
<1>8. \A m \in DOMAIN t : e[m] \in DOMAIN index /\ t[m] = index[e[m]] /\ e[m] \in Nat /\ e[m] \in places
    BY <1>3, <1>7 DEF Picks
<1>9. \A j \in DOMAIN w : \E i \in DOMAIN index :
          /\ w[j].uid = index[i].uid /\ w[j].refno = index[i].refno /\ w[j].place = index[i].place
          /\ ~index[i].deleted /\ ~w[j].deleted
    BY <1>5, <1>6, <1>8
<1>10. ASSUME DistinctUids(index), NEW i \in DOMAIN w, NEW j \in DOMAIN w, w[i].uid = w[j].uid
       PROVE  i = j
    <2>1. e[i] = e[j]
        <3>1. t[i].uid = t[j].uid /\ i \in DOMAIN t /\ j \in DOMAIN t
            BY <1>5, <1>6, <1>10
        <3>2. QED BY <1>8, <1>10, <3>1 DEF DistinctUids
    <2>2. (i < j => e[i] < e[j]) /\ (j < i => e[j] < e[i])
        BY <1>3, <1>6, <1>7 DEF Picks
    <2>3. i \in Nat /\ j \in Nat
        BY <1>6, <1>7
    <2>4. QED BY <1>6, <1>8, <2>1, <2>2, <2>3
<1>11. w = index'
    BY <1>1, <1>4 DEF TablesUpdated
<1>12. Sublist(index, w)
    BY <1>6, <1>9, <1>10 DEF Sublist, DistinctUids
<1>13. QED BY <1>11, <1>12

-----------------------------------------------------------------------------
(* What a step does to the server *)

Transaction(list) == [state |-> "transaction", list |-> list, marks |-> {}]
Authorization == [NoSession EXCEPT !.state = "authorization"]

\* The mail and the session: nothing, an end without QUIT, a login, a login
\* refused, a delivery or a removal by others, QUIT, DELE, RSET.
ServerStep ==
    \/ box' = box /\ session' = session
    \/ box' = box /\ session' = NoSession
    \/ box' = box /\ session' = Transaction(box)
    \/ box' = box /\ session' = Authorization /\ "LOGIN" \in world.refuses
    \/ \E m \in Letter : Deliver(m) \/ OthersRemove(m)
    \/ Answered /\ session' = NoSession /\ \E some \in SUBSET session.marks : Removes(some)
    \/ /\ Serves /\ box' = box /\ (Dele \/ FetchDele)
       /\ \E n \in DOMAIN session.list : session' = [session EXCEPT !.marks = @ \cup {n}]
    \/ Serves /\ box' = box /\ session' = [session EXCEPT !.marks = {}]

\* pop_logout() ends the session.
LEMMA LogoutStep ==
    ASSUME ServerShape, Logout PROVE ServerStep
BY DEF ServerShape, Logout, Quits, QuitRefused, Answered, ServerStep

\* QUIT makes the server remove what is marked.
LEMMA QuitStep ==
    ASSUME ServerShape, Answered, Quits \/ QuitRefused PROVE ServerStep
BY DEF ServerShape, Answered, Quits, QuitRefused, ServerStep

\* The history and the instance.
Histories == world' = world /\ (arrived' = arrived \/ \E m \in Letter : Deliver(m))

\* Every step is one of the server, and one of the histories.
LEMMA ServerSteps ==
    ASSUME ServerShape, ReaderShape, [PopNext]_popVars
    PROVE  ServerStep /\ Histories
<1>1. CASE GivesUp
    BY <1>1 DEF GivesUp, ServerStep, Histories
<1>2. CASE \E m \in Letter : Deliver(m) \/ OthersRemove(m)
    BY <1>2 DEF Deliver, OthersRemove, ServerStep, Histories
<1>3. CASE Open
    BY <1>3 DEF Open, Login, Kept, ServerStep, Histories, Transaction
<1>4. CASE StillConnected
    BY <1>4 DEF StillConnected, Kept, netVars, ServerStep, Histories
<1>5. CASE Reconnect
    BY <1>5 DEF Reconnect, Login, Kept, ServerStep, Histories, Transaction
<1>6. CASE ReconnectFails
    BY <1>6 DEF ReconnectFails, Kept, ServerStep, Histories
<1>7. CASE StartCheck
    BY <1>7 DEF StartCheck, Kept, netVars, ServerStep, Histories
<1>8. CASE CheckLogout
    BY <1>8, LogoutStep DEF CheckLogout, Kept, ServerStep, Histories
<1>9. CASE CheckConnect
    BY <1>9 DEF CheckConnect, Login, LoginFails, Lost, AuthRefused, StatRefused, Kept, ServerStep, Histories, Transaction, Authorization
<1>10. CASE FetchHeaders
    BY <1>10 DEF FetchHeaders, Kept, netVars, ServerStep, Histories
<1>11. CASE FetchBreaks
    BY <1>11 DEF FetchBreaks, Lost, Kept, ServerStep, Histories
<1>12. CASE UidlRefused
    BY <1>12, LogoutStep DEF UidlRefused, Kept, netVars, ServerStep, Histories
<1>13. CASE Retrieve
    BY <1>13 DEF Retrieve, Kept, netVars, ServerStep, Histories
<1>14. CASE RetrieveLost
    BY <1>14 DEF RetrieveLost, Lost, Kept, ServerStep, Histories
<1>15. CASE NotRetrieved
    BY <1>15 DEF NotRetrieved, Kept, netVars, ServerStep, Histories
<1>16. CASE \E i \in DOMAIN index : Read(i)
    BY <1>16 DEF Read, Kept, netVars, ServerStep, Histories
<1>17. CASE User
    BY <1>17 DEF User, Kept, netVars, ServerStep, Histories
<1>18. CASE Leave
    BY <1>18, LogoutStep DEF Leave, Kept, ServerStep, Histories
<1>19. CASE Die
    BY <1>19 DEF Die, ServerStep, Histories
<1>20. CASE StartSync
    BY <1>20 DEF StartSync, Kept, netVars, ServerStep, Histories
<1>21. CASE Dele
    <2>1. This.refno \in DOMAIN session.list /\ session' = [session EXCEPT !.marks = @ \cup {This.refno}]
        BY <1>21 DEF Dele
    <2>2. QED BY <1>21, <2>1 DEF Dele, Answered, Kept, ServerStep, Histories
<1>22. CASE SkipMessage
    BY <1>22 DEF SkipMessage, Kept, netVars, ServerStep, Histories
<1>23. CASE SyncLost
    BY <1>23, QuitStep DEF SyncLost, Lost, Kept, ServerStep, Histories
<1>24. CASE DeleRefused
    BY <1>24 DEF DeleRefused, Kept, netVars, ServerStep, Histories
<1>25. CASE SyncEnds
    BY <1>25, QuitStep DEF SyncEnds, Kept, ServerStep, Histories
<1>26. CASE SyncNotEnded
    BY <1>26, QuitStep DEF SyncNotEnded, Kept, ServerStep, Histories
<1>27. CASE FetchMessage
    BY <1>27 DEF FetchMessage, FetchVars, netVars, ServerStep, Histories
<1>28. CASE FetchNotStored
    BY <1>28 DEF FetchNotStored, Fetching, FetchVars, netVars, ServerStep, Histories
<1>29. CASE FetchDele
    BY <1>29 DEF FetchDele, Answered, ServerShape, FetchVars, ServerStep, Histories
<1>30. CASE FetchDeleRefused
    BY <1>30 DEF FetchDeleRefused, FetchVars, netVars, ServerStep, Histories
<1>31. CASE FetchReset
    BY <1>31 DEF FetchReset, Answered, FetchVars, ServerStep, Histories
<1>32. CASE FetchEnds
    BY <1>32, QuitStep DEF FetchEnds, ServerStep, Histories
<1>33. CASE \E answer \in BOOLEAN : FetchMail(answer)
    BY <1>33 DEF FetchMail, Login, ServerStep, Histories, Transaction
<1>34. CASE UNCHANGED popVars
    BY <1>34 DEF popVars, netVars, ServerStep, Histories
<1>35. QED BY <1>1, <1>2, <1>3, <1>4, <1>5, <1>6, <1>7, <1>8, <1>9, <1>10, <1>11, <1>12, <1>13, <1>14, <1>15, <1>16, <1>17, <1>18, <1>19, <1>20, <1>21, <1>22, <1>23, <1>24, <1>25, <1>26, <1>27, <1>28, <1>29, <1>30, <1>31, <1>32, <1>33, <1>34 DEF PopNext, Server, Reader, Saver, Fetcher

-----------------------------------------------------------------------------
(* What a step does to the index *)

\* What of the list arrives before the connection breaks.
Part(list) == \/ list = <<>>
              \/ Serves /\ \E k \in 0 .. Len(session.list) : list = SubSeq(session.list, 1, k)

\* The messages: nothing, flags set by the user, the mailbox closed; numbers
\* verified, in part or in full; the list fetched, in part or in full, or
\* refused; the deleted ones dropped.  The texts go with the mailbox, with the
\* deleted messages, and when the list has one elsewhere than before.
IndexStep ==
    \/ index' = index
    \/ /\ mpc = "idle" /\ mpc' \in {"idle", "stat"} /\ session' = session
       /\ Reflagged(index, index') /\ (MayUndelete \/ MarksStay(index, index'))
       /\ "delete" \in world.user \/ NoNewMarks(index, index')
    \/ index' = <<>> /\ mpc' = "closed" /\ session' = NoSession /\ cache' = Emptied
    \/ /\ mpc = "reconnect" /\ session' = Transaction(box)
       /\ Renumbered(index, index', box) /\ MarksStay(index, index')
       /\ NoNewMarks(index, index') /\ SamePlaces(index, index')
    \/ /\ mpc = "reconnect" /\ mpc' = "idle" /\ session' = NoSession
       /\ (\E list \in Seq(Letter) : Renumbered(index, index', list)) /\ MarksStay(index, index')
       /\ NoNewMarks(index, index') /\ SamePlaces(index, index')
    \/ /\ mpc = "uidl" /\ mpc' = "idle" /\ session' = session /\ Serves
       /\ Fetched(index, index', session.list) /\ CacheAfter(Moved(index, session.list))
    \/ /\ mpc = "uidl" /\ session' = NoSession /\ Serves
       /\ Fetched(index, index', session.list) /\ CacheAfter(Moved(index, session.list))
    \/ /\ mpc = "uidl" /\ session' = NoSession
       /\ \E list \in Seq(Letter) :
             /\ Part(list) /\ Renumbered(index, index', list)
             /\ NewPlaces(index, index', list) /\ CacheAfter(Moved(index, list))
       /\ MarksStay(index, index') /\ NoNewMarks(index, index')
    \/ /\ mpc = "uidl" /\ mpc' = "idle" /\ session' = session /\ (Serves => "UIDL" \in world.refuses)
       /\ Renumbered(index, index', <<>>) /\ MarksStay(index, index')
       /\ NoNewMarks(index, index') /\ SamePlaces(index, index')
    \/ /\ mpc = "save" /\ mpc' = "idle" /\ session' = NoSession /\ Sublist(index, index')
       /\ cache' = Emptied

\* The index may stay as it is.
LEMMA IndexUnchanged ==
    ASSUME UNCHANGED index PROVE IndexStep
BY DEF IndexStep

\* What the user does to the index.
LEMMA UserStep ==
    ASSUME index \in Seq(Message), User PROVE IndexStep
<1> SUFFICES /\ mpc = "idle" /\ mpc' \in {"idle", "stat"}
             /\ Reflagged(index, index') /\ (MayUndelete \/ MarksStay(index, index'))
             /\ "delete" \in world.user \/ NoNewMarks(index, index')
    BY DEF User, netVars, IndexStep
<1>1. CASE \E i \in DOMAIN index : SetRead(i)
    <2>1. PICK i \in DOMAIN index : SetRead(i)
        BY <1>1
    <2>2. PICK w : w = [index EXCEPT ![i].read = TRUE, ![i].changed = TRUE]
        OBVIOUS
    <2>3. Reflagged(index, w) /\ MarksStay(index, w) /\ NoNewMarks(index, w)
        BY <2>2, FlagsOnly
    <2>4. QED BY <2>1, <2>2, <2>3 DEF SetRead
<1>2. CASE "delete" \in world.user /\ \E i \in DOMAIN index : SetDeleted(i, TRUE, FALSE)
    <2>1. PICK i \in DOMAIN index : SetDeleted(i, TRUE, FALSE)
        BY <1>2
    <2>2. PICK w : w = [index EXCEPT ![i].deleted = TRUE]
        OBVIOUS
    <2>3. Reflagged(index, w) /\ MarksStay(index, w)
        BY <2>2, FlagsOnly
    <2>4. QED BY <1>2, <2>1, <2>2, <2>3 DEF SetDeleted
<1>3. CASE MayUndelete /\ \E i \in DOMAIN index : SetDeleted(i, FALSE, FALSE)
    <2>1. PICK i \in DOMAIN index : SetDeleted(i, FALSE, FALSE)
        BY <1>3
    <2>2. PICK w : w = [index EXCEPT ![i].deleted = FALSE]
        OBVIOUS
    <2>3. Reflagged(index, w) /\ NoNewMarks(index, w)
        BY <2>2, FlagsOnly
    <2>4. QED BY <1>3, <2>1, <2>2, <2>3 DEF SetDeleted
<1>4. ASSUME NEW answer \in BOOLEAN, answer \/ MayUndelete, BeginSync(answer)
      PROVE  /\ mpc = "idle" /\ mpc' \in {"idle", "stat"}
             /\ Reflagged(index, index') /\ (MayUndelete \/ MarksStay(index, index'))
             /\ "delete" \in world.user \/ NoNewMarks(index, index')
    <2>1. mpc = "idle" /\ mpc' = "stat" /\ index' = IF answer THEN index ELSE Undelete(index)
        BY <1>4 DEF BeginSync
    <2>2. CASE answer
        BY <2>1, <2>2, FlagsOnly
    <2>3. CASE ~answer
        BY <1>4, <2>1, <2>3, FlagsOnly
    <2>4. QED BY <2>2, <2>3
<1>5. ASSUME NEW answer \in BOOLEAN, answer \/ MayUndelete, BeginClose(answer)
      PROVE  /\ mpc = "idle" /\ mpc' \in {"idle", "stat"}
             /\ Reflagged(index, index') /\ (MayUndelete \/ MarksStay(index, index'))
             /\ "delete" \in world.user \/ NoNewMarks(index, index')
    <2>1. PICK aged : aged = Aged(index)
        OBVIOUS
    <2>2. mpc = "idle" /\ mpc' = "stat" /\ index' = IF answer THEN aged ELSE Undelete(aged)
        BY <1>5, <2>1 DEF BeginClose
    <2>3. Reflagged(index, aged) /\ MarksStay(index, aged) /\ NoNewMarks(index, aged)
        BY <2>1, FlagsOnly
    <2>4. CASE answer
        BY <2>2, <2>3, <2>4
    <2>5. CASE ~answer
        <3>1. Reflagged(aged, index') /\ NoNewMarks(aged, index')
            <4>1. index' = Undelete(aged) /\ aged \in Seq(Message)
                BY <2>2, <2>3, <2>5 DEF Reflagged
            <4>2. QED BY <4>1, FlagsOnly
        <3>2. Reflagged(index, index') /\ NoNewMarks(index, index')
            BY <2>3, <3>1 DEF Reflagged, NoNewMarks
        <3>3. QED BY <1>5, <2>2, <2>5, <3>2
    <2>6. QED BY <2>4, <2>5
<1>6. (\E answer \in {TRUE} \cup (IF MayUndelete THEN {FALSE} ELSE {}) :
          BeginSync(answer) \/ BeginClose(answer))
      => \E answer \in BOOLEAN : (answer \/ MayUndelete) /\ (BeginSync(answer) \/ BeginClose(answer))
    <2>1. \A answer \in {TRUE} \cup (IF MayUndelete THEN {FALSE} ELSE {}) :
              answer \in BOOLEAN /\ (answer \/ MayUndelete)
        OBVIOUS
    <2>2. QED BY <2>1
<1>7. QED
    <2>1. \/ \E i \in DOMAIN index : SetRead(i)
          \/ "delete" \in world.user /\ \E i \in DOMAIN index : SetDeleted(i, TRUE, FALSE)
          \/ MayUndelete /\ \E i \in DOMAIN index : SetDeleted(i, FALSE, FALSE)
          \/ \E answer \in {TRUE} \cup (IF MayUndelete THEN {FALSE} ELSE {}) :
                BeginSync(answer) \/ BeginClose(answer)
        BY DEF User, MayUndelete
    <2>2. QED BY <1>1, <1>2, <1>3, <1>4, <1>5, <1>6, <2>1

\* What a connection that breaks while it fetches does to the index.
LEMMA FetchBreaksStep ==
    ASSUME ServerShape, index \in Seq(Message), Distinct(session.list), FetchBreaks
    PROVE  IndexStep
<1>1. mpc = "uidl" /\ session' = NoSession
    BY DEF FetchBreaks, Lost
<1>2. session.list \in Seq(Letter)
    BY DEF ServerShape, Session
<1>3. PICK known \in (IF Serves THEN {SubSeq(session.list, 1, k) : k \in 0 .. Len(session.list)}
                     ELSE {<<>>}) :
         /\ CacheAfter(Moved(index, known))
         /\ \/ index' = Numbered(index, known)
            \/ /\ Serves /\ known = session.list
               /\ LET new == Unknown(index, known) IN
                  \E k \in 0 .. Len(new) - 1 :
                     index' = LostMarked(Numbered(index, known)) \o SubSeq(new, 1, k)
    BY DEF FetchBreaks
<1>4. known \in Seq(Letter) /\ Part(known)
    <2>1. CASE Serves
        <3>1. PICK k \in 0 .. Len(session.list) : known = SubSeq(session.list, 1, k)
            BY <2>1
        <3>2. known \in Seq(Letter)
            BY <1>2, <3>1, PrefixIs
        <3>3. QED BY <2>1, <3>1, <3>2 DEF Part
    <2>2. CASE ~Serves
        BY <2>2 DEF Part
    <2>3. QED BY <2>1, <2>2
<1>5. CASE index' = Numbered(index, known)
    <2>1. /\ Renumbered(index, index', known) /\ MarksStay(index, index')
          /\ NoNewMarks(index, index') /\ NewPlaces(index, index', known)
        BY <1>4, <1>5, NewNumbers
    <2>2. QED BY <1>1, <1>3, <1>4, <2>1 DEF IndexStep
<1>6. CASE /\ Serves /\ known = session.list
           /\ LET new == Unknown(index, known) IN
              \E k \in 0 .. Len(new) - 1 :
                 index' = LostMarked(Numbered(index, known)) \o SubSeq(new, 1, k)
    <2>1. PICK k \in 0 .. Len(Unknown(index, known)) - 1 :
              index' = LostMarked(Numbered(index, known)) \o SubSeq(Unknown(index, known), 1, k)
        BY <1>6
    <2>2. k \in 0 .. Len(Unknown(index, known))
        <3>1. Unknown(index, known) \in Seq(Message)
            BY <1>2, <1>6, UnknownIs
        <3>2. QED BY <3>1
    <2>3. Fetched(index, index', session.list)
        BY <1>2, <1>6, <2>1, <2>2, FetchedIs
    <2>4. QED BY <1>1, <1>3, <1>6, <2>3 DEF IndexStep
<1>7. QED BY <1>3, <1>5, <1>6

\* Every step is one of the index.
LEMMA IndexSteps ==
    ASSUME ServerShape, index \in Seq(Message), Distinct(session.list), [PopNext]_popVars
    PROVE  IndexStep
<1>1. CASE Server
    BY <1>1, IndexUnchanged DEF Server, GivesUp, Deliver, OthersRemove, mxVars, indexVars
<1>2. CASE Open \/ StillConnected \/ StartCheck \/ CheckLogout \/ CheckConnect
    BY <1>2, IndexUnchanged DEF Open, StillConnected, StartCheck, BeginCheck, CheckLogout, CheckConnect, indexVars
<1>3. CASE Reconnect
    <2>1. mpc = "reconnect" /\ session' = Transaction(box) /\ index' = Verified(index, box)
        BY <1>3 DEF Reconnect, Login, Transaction
    <2>2. /\ Renumbered(index, index', box) /\ MarksStay(index, index')
          /\ NoNewMarks(index, index') /\ SamePlaces(index, index')
        BY <2>1, NewNumbers DEF ServerShape
    <2>3. QED BY <2>1, <2>2 DEF IndexStep
<1>4. CASE ReconnectFails
    <2>1. CASE task = "none"
        BY <1>4, <2>1 DEF ReconnectFails, Shut, FastClose, IndexStep
    <2>2. CASE task # "none" /\ \E k \in 0 .. Len(box) : index' = Verified(index, SubSeq(box, 1, k))
        <3>1. mpc = "reconnect" /\ session' = NoSession /\ mpc' = "idle"
            BY <1>4, <2>2 DEF ReconnectFails, Idle
        <3>2. PICK k \in 0 .. Len(box) : index' = Verified(index, SubSeq(box, 1, k))
            BY <2>2
        <3>3. SubSeq(box, 1, k) \in Seq(Letter)
            BY PrefixIs DEF ServerShape
        <3>4. /\ Renumbered(index, index', SubSeq(box, 1, k)) /\ MarksStay(index, index')
              /\ NoNewMarks(index, index') /\ SamePlaces(index, index')
            BY <3>2, <3>3, NewNumbers
        <3>5. QED BY <3>1, <3>3, <3>4 DEF IndexStep
    <2>3. CASE index' = index
        BY <2>3, IndexUnchanged
    <2>4. QED BY <1>4, <2>1, <2>2, <2>3 DEF ReconnectFails
<1>5. CASE FetchHeaders
    <2>1. /\ mpc = "uidl" /\ mpc' = "idle" /\ session' = session /\ Serves
          /\ index' = LostMarked(Numbered(index, session.list)) \o Unknown(index, session.list)
          /\ CacheAfter(Moved(index, session.list))
        BY <1>5 DEF FetchHeaders, Answered, Idle, netVars
    <2>2. session.list \in Seq(Letter)
        BY DEF ServerShape, Session
    <2>3. Fetched(index, index', session.list)
        BY <2>1, <2>2, FetchedAll
    <2>4. QED BY <2>1, <2>3 DEF IndexStep
<1>6. CASE FetchBreaks
    BY <1>6, FetchBreaksStep
<1>7. CASE UidlRefused
    <2>1. CASE task = "none"
        BY <1>7, <2>1 DEF UidlRefused, Logout, Shut, FastClose, IndexStep
    <2>2. CASE task # "none"
        <3>1. /\ mpc = "uidl" /\ mpc' = "idle" /\ session' = session /\ (Serves => "UIDL" \in world.refuses)
              /\ index' = Numbered(index, <<>>)
            BY <1>7, <2>2 DEF UidlRefused, Refused, Idle, netVars, Serves
        <3>2. /\ Renumbered(index, index', <<>>) /\ MarksStay(index, index')
              /\ NoNewMarks(index, index') /\ SamePlaces(index, index')
            <4>1. <<>> \in Seq(Letter) /\ \A u : NumberIn(<<>>, u) = 0
                BY DEF NumberIn, ToSet
            <4>2. /\ Renumbered(index, index', <<>>) /\ MarksStay(index, index')
                  /\ NoNewMarks(index, index') /\ NewPlaces(index, index', <<>>)
                BY <3>1, <4>1, NewNumbers
            <4>3. SamePlaces(index, index')
                BY <4>1, <4>2 DEF NewPlaces, SamePlaces
            <4>4. QED BY <4>2, <4>3
        <3>3. QED BY <3>1, <3>2 DEF IndexStep
    <2>3. QED BY <2>1, <2>2
<1>8. CASE Retrieve \/ RetrieveLost \/ NotRetrieved \/ \E i \in DOMAIN index : Read(i)
    BY <1>8, IndexUnchanged DEF Retrieve, RetrieveLost, NotRetrieved, Read, indexVars
<1>9. CASE User
    BY <1>9, UserStep
<1>10. CASE Leave \/ Die
    BY <1>10 DEF Leave, Die, Logout, Shut, FastClose, IndexStep
<1>11. CASE StartSync \/ Dele \/ SkipMessage \/ SyncLost \/ DeleRefused \/ SyncNotEnded
    BY <1>11, IndexUnchanged DEF StartSync, Dele, SkipMessage, SyncLost, DeleRefused, SyncNotEnded, SyncFails, indexVars
<1>12. CASE SyncEnds
    <2>1. CASE Closes
        BY <1>12, <2>1 DEF SyncEnds, Quits, Shut, FastClose, IndexStep
    <2>2. CASE ~Closes
        <3>1. mpc = "save" /\ mpc' = "idle" /\ session' = NoSession /\ TablesUpdated /\ cache' = Emptied
            BY <1>12, <2>2 DEF SyncEnds, Quits, Idle, CacheCleared
        <3>2. QED BY <3>1, TablesUpdatedIs DEF IndexStep
    <2>3. QED BY <2>1, <2>2
<1>13. CASE Fetcher
    BY <1>13, IndexUnchanged DEF Fetcher, FetchMessage, FetchNotStored, FetchDele, FetchDeleRefused,
                                 FetchReset, FetchEnds, FetchMail, FetchVars, indexVars
<1>14. CASE UNCHANGED popVars
    BY <1>14, IndexUnchanged DEF popVars, mxVars, indexVars
<1>15. QED
    BY <1>1, <1>2, <1>3, <1>4, <1>5, <1>6, <1>7, <1>8, <1>9, <1>10, <1>11, <1>12, <1>13, <1>14
       DEF PopNext, Reader, Saver

-----------------------------------------------------------------------------
(* Shape and Letters are inductive *)

\* The server keeps its types, and marks only messages it has listed.
LEMMA ServerNext ==
    ASSUME ServerShape, ServerStep, Histories
    PROVE  /\ world' \in PopWorlds /\ arrived' \subseteq Letter
           /\ box' \in Seq(Letter) /\ session' \in Session
           /\ session'.marks \subseteq DOMAIN session'.list
           /\ Serves' \/ session'.marks = {}
<1> USE DEF ServerShape
<1>1. world' \in PopWorlds /\ arrived' \subseteq Letter
    BY DEF Histories, Deliver
<1>2. \A places : AtPlaces(box, places) \in Seq(Letter)
    BY AtPlacesPicks
<1>3. \A list \in Seq(Letter) : /\ Transaction(list) \in Session
                                /\ Transaction(list).state = "transaction" /\ Transaction(list).marks = {}
    BY DEF Session, Transaction
<1>4. NoSession \in Session /\ NoSession.marks = {} /\ Authorization \in Session /\ Authorization.marks = {}
    <2>1. <<>> \in Seq(Letter)
        OBVIOUS
    <2>2. NoSession \in Session /\ NoSession.marks = {}
        BY <2>1 DEF NoSession, Session
    <2>3. Authorization \in Session /\ Authorization.marks = {}
        BY <2>2 DEF Authorization, Session
    <2>4. QED BY <2>2, <2>3
<1>5. DOMAIN session.list \subseteq Nat
    BY DEF Session
<1>6. CASE box' = box /\ session' = session
    BY <1>1, <1>6 DEF Serves
<1>7. CASE box' = box /\ session' = NoSession
    BY <1>1, <1>4, <1>7
<1>8. CASE box' = box /\ session' = Transaction(box)
    BY <1>1, <1>3, <1>8 DEF Serves
<1>9. CASE box' = box /\ session' = Authorization
    BY <1>1, <1>4, <1>9
<1>10. CASE \E m \in Letter : Deliver(m) \/ OthersRemove(m)
    BY <1>1, <1>2, <1>10 DEF Deliver, OthersRemove, Serves
<1>11. CASE session' = NoSession /\ \E some \in SUBSET session.marks : Removes(some)
    BY <1>1, <1>2, <1>4, <1>11 DEF Removes
<1>12. CASE Serves /\ box' = box /\ \E n \in DOMAIN session.list :
                              session' = [session EXCEPT !.marks = @ \cup {n}]
    <2>1. PICK n \in DOMAIN session.list : session' = [session EXCEPT !.marks = @ \cup {n}]
        BY <1>12
    <2>2. /\ session' \in Session /\ session'.list = session.list /\ session'.state = session.state
          /\ session'.marks = session.marks \cup {n}
        BY <1>5, <2>1 DEF Session
    <2>3. QED BY <1>1, <1>12, <2>2 DEF Serves
<1>13. CASE Serves /\ box' = box /\ session' = [session EXCEPT !.marks = {}]
    <2>1. session' \in Session /\ session'.list = session.list /\ session'.marks = {}
        BY <1>13 DEF Session
    <2>2. QED BY <1>1, <1>13, <2>1
<1>14. QED BY <1>6, <1>7, <1>8, <1>9, <1>10, <1>11, <1>12, <1>13 DEF ServerStep

\* The number that pop_fetch_mail() is at.
LEMMA NumberNext ==
    ASSUME ServerShape, [PopNext]_popVars
    PROVE  number' \in Nat /\ (mpc' = "fetchdele" /\ Serves' => number' \in DOMAIN session'.list)
<1> USE DEF ServerShape
<1>1. CASE Server
    <2>1. CASE GivesUp
        BY <2>1 DEF GivesUp, Serves, NoSession
    <2>2. CASE \E m \in Letter : Deliver(m) \/ OthersRemove(m)
        BY <2>2 DEF Deliver, OthersRemove, mxVars, Serves
    <2>3. QED BY <1>1, <2>1, <2>2 DEF Server
<1>2. CASE Reader
    BY <1>2 DEF Reader, Open, StillConnected, Reconnect, ReconnectFails, StartCheck, BeginCheck, CheckLogout,
                CheckConnect, FetchHeaders, FetchBreaks, UidlRefused, Retrieve, RetrieveLost, NotRetrieved, Read,
                Again, Proceed, Shut, FastClose, Idle, Kept
<1>3. CASE User \/ Leave
    BY <1>3 DEF User, Leave, SetRead, SetDeleted, BeginSync, BeginClose, Shut, FastClose, Kept
<1>4. CASE Die
    BY <1>4 DEF Die, Shut, FastClose
<1>5. CASE Saver
    BY <1>5 DEF Saver, StartSync, Dele, SkipMessage, SyncLost, DeleRefused, SyncEnds, SyncNotEnded,
                Again, NextMessage, SyncFails, Shut, FastClose, Idle, Kept
<1>6. CASE FetchMessage
    BY <1>6 DEF FetchMessage, Fetching, netVars, Serves
<1>7. CASE FetchNotStored \/ FetchDele \/ FetchDeleRefused \/ FetchReset \/ FetchEnds \/ \E answer \in BOOLEAN : FetchMail(answer)
    <2>1. CASE FetchNotStored
        BY <2>1 DEF FetchNotStored
    <2>2. CASE FetchDele
        BY <2>2 DEF FetchDele
    <2>3. CASE FetchDeleRefused
        BY <2>3 DEF FetchDeleRefused
    <2>4. CASE FetchReset
        BY <2>4 DEF FetchReset
    <2>5. CASE FetchEnds
        BY <2>5 DEF FetchEnds
    <2>6. CASE \E answer \in BOOLEAN : FetchMail(answer)
        BY <2>6 DEF FetchMail
    <2>7. QED BY <1>7, <2>1, <2>2, <2>3, <2>4, <2>5, <2>6
<1>8. CASE UNCHANGED popVars
    BY <1>8 DEF popVars, mxVars, netVars, Serves
<1>9. QED BY <1>1, <1>2, <1>3, <1>4, <1>5, <1>6, <1>7, <1>8 DEF PopNext, Fetcher

\* The index keeps its type.
LEMMA IndexTyped ==
    ASSUME index \in Seq(Message), IndexStep
    PROVE  index' \in Seq(Message)
<1>1. CASE index' = index \/ index' = <<>>
    <2>1. <<>> \in Seq(Message)
        OBVIOUS
    <2>2. QED BY <1>1, <2>1
<1>2. CASE index' \in Seq(Message)
    BY <1>2
<1>3. QED BY <1>1, <1>2 DEF IndexStep, Reflagged, Renumbered, Fetched, Sublist

\* The control of the reader.
LEMMA ReaderNext ==
    ASSUME ServerShape, ReaderShape, Distinct(session.list), [PopNext]_popVars
    PROVE  ReaderShape'
<1>0. index' \in Seq(Message)
    <2>1. index \in Seq(Message)
        BY DEF ReaderShape
    <2>2. IndexStep
        BY ONLY <2>1, ServerShape, Distinct(session.list), [PopNext]_popVars, IndexSteps
    <2>3. QED BY ONLY <2>1, <2>2, IndexTyped
<1> USE DEF ReaderShape
<1> DEFINE Rest ==
    /\ pos \in Nat
    /\ mpc \in {"closed", "idle", "stat", "connect", "uidl", "reconnect", "retr", "save"} \cup FetchPcs
    /\ task \in {"none", "check", "sync", "close", "read"}
    /\ mpc \in {"closed"} \cup FetchPcs => index = <<>> /\ task = "none"
    /\ mpc = "connect" => link # "connected" /\ task = "check"
    /\ mpc = "reconnect" => task # "check"
    /\ mpc = "reconnect" /\ task \in {"sync", "close"} => pos = 1
    /\ mpc = "save" => task \in {"sync", "close"} /\ pos > 0
    /\ mpc = "retr" => task = "read" /\ pos \in DOMAIN index
    /\ mpc = "reconnect" /\ task = "read" => pos \in DOMAIN index
    /\ mpc = "uidl" => task \in {"none", "check"}
<1> SUFFICES Rest'
    BY <1>0
<1> USE DEF FetchPcs, indexVars, callVars
<1>1. CASE Server
    BY <1>1 DEF Server, GivesUp, Deliver, OthersRemove, mxVars
<1>2. CASE Open \/ StartCheck \/ CheckLogout
    BY <1>2 DEF Open, StartCheck, BeginCheck, CheckLogout, Kept
<1>3. CASE CheckConnect
    BY <1>3 DEF CheckConnect, Idle, Kept
<1>4. CASE StillConnected
    BY <1>4 DEF StillConnected, Proceed, Kept
<1>5. CASE Reconnect
    BY <1>5 DEF Reconnect, Proceed, Verified, Kept
<1>6. CASE ReconnectFails
    BY <1>6 DEF ReconnectFails, Shut, FastClose, Idle
<1>7. CASE FetchHeaders
    BY <1>7 DEF FetchHeaders, Idle
<1>8. CASE FetchBreaks
    BY <1>8 DEF FetchBreaks, Again, Idle
<1>9. CASE UidlRefused
    BY <1>9 DEF UidlRefused, Shut, FastClose, Idle
<1>10. CASE Retrieve \/ RetrieveLost \/ NotRetrieved
    BY <1>10 DEF Retrieve, RetrieveLost, NotRetrieved, Again, Idle, Kept
<1>11. CASE \E i \in DOMAIN index : Read(i)
    BY <1>11 DEF Read
<1>12. CASE User
    BY <1>12 DEF User, SetRead, SetDeleted, BeginSync, BeginClose
<1>13. CASE Leave \/ Die
    <2>1. CASE Leave
        BY <2>1 DEF Leave, Shut, FastClose
    <2>2. CASE Die
        BY <2>2 DEF Die, Shut, FastClose
    <2>3. QED BY <1>13, <2>1, <2>2
<1>14. CASE StartSync \/ Dele \/ SkipMessage
    <2>1. CASE StartSync
        BY <2>1 DEF StartSync
    <2>2. CASE Dele
        BY <2>2 DEF Dele, At, NextMessage
    <2>3. CASE SkipMessage
        BY <2>3 DEF SkipMessage, At, NextMessage
    <2>4. QED BY <1>14, <2>1, <2>2, <2>3
<1>15. CASE SyncLost \/ DeleRefused \/ SyncEnds \/ SyncNotEnded
    <2>1. CASE SyncLost
        BY <2>1 DEF SyncLost, Again
    <2>2. CASE DeleRefused
        BY <2>2 DEF DeleRefused, SyncFails, Idle
    <2>3. CASE SyncEnds
        BY <2>3 DEF SyncEnds, Shut, FastClose, Idle
    <2>4. CASE SyncNotEnded
        BY <2>4 DEF SyncNotEnded, SyncFails, Idle
    <2>5. QED BY <1>15, <2>1, <2>2, <2>3, <2>4
<1>16. CASE Fetcher
    <2>1. CASE FetchMessage
        BY <2>1 DEF FetchMessage, Fetching, FetchVars
    <2>2. CASE FetchNotStored
        BY <2>2 DEF FetchNotStored, Fetching, FetchVars
    <2>3. CASE FetchDele
        BY <2>3 DEF FetchDele, FetchVars
    <2>4. CASE FetchDeleRefused
        BY <2>4 DEF FetchDeleRefused, FetchVars
    <2>5. CASE FetchReset
        BY <2>5 DEF FetchReset, FetchVars
    <2>6. CASE FetchEnds
        BY <2>6 DEF FetchEnds
    <2>7. CASE \E answer \in BOOLEAN : FetchMail(answer)
        BY <2>7 DEF FetchMail
    <2>8. QED BY <1>16, <2>1, <2>2, <2>3, <2>4, <2>5, <2>6, <2>7 DEF Fetcher
<1>17. CASE UNCHANGED popVars
    BY <1>17 DEF popVars, mxVars, netVars
<1>18. QED BY <1>1, <1>2, <1>3, <1>4, <1>5, <1>6, <1>7, <1>8, <1>9, <1>10, <1>11, <1>12, <1>13, <1>14, <1>15, <1>16, <1>17
           DEF PopNext, Reader, Saver

\* The control and the types together.
LEMMA ShapeNext ==
    ASSUME Shape, Distinct(session.list), [PopNext]_popVars PROVE Shape'
<1>1. ServerStep /\ Histories
    BY ServerSteps DEF Shape
<1>2. ServerShape'
    BY <1>1, ServerNext, NumberNext DEF Shape, ServerShape
<1>3. QED BY <1>2, ReaderNext DEF Shape

\* The maildrop and the list of a session name each message once.
LEMMA ListsNext ==
    ASSUME ServerShape, Letters, ServerStep, Histories
    PROVE  /\ arrived \subseteq arrived'
           /\ Distinct(box') /\ ToSet(box') \subseteq arrived'
           /\ Distinct(session'.list) /\ ToSet(session'.list) \subseteq arrived'
<1> USE DEF ServerShape, Letters
<1>1. arrived \subseteq arrived'
    BY DEF Histories, Deliver
<1>2. \A places : Distinct(AtPlaces(box, places)) /\ ToSet(AtPlaces(box, places)) \subseteq ToSet(box)
    BY AtPlacesDistinct
<1>3. Distinct(<<>>) /\ ToSet(<<>>) = {}
    BY DEF Distinct, ToSet
<1>4. /\ Transaction(box).list = box /\ NoSession.list = <<>> /\ Authorization.list = <<>>
    BY DEF Transaction, NoSession, Authorization
<1>5. CASE \E m \in Letter : Deliver(m) \/ OthersRemove(m)
    <2>1. ASSUME NEW m \in Letter, Deliver(m)
          PROVE  Distinct(box') /\ ToSet(box') \subseteq arrived'
        <3>1. m \notin ToSet(box) /\ box' = Append(box, m) /\ arrived' = arrived \cup {m}
            BY <2>1 DEF Deliver
        <3>2. /\ DOMAIN box' = 1 .. Len(box) + 1 /\ Len(box) \in Nat
              /\ \A i \in 1 .. Len(box) : i \in DOMAIN box /\ box'[i] = box[i] /\ box[i] \in ToSet(box)
              /\ box'[Len(box) + 1] = m
            BY <3>1 DEF ToSet
        <3>3. Distinct(box')
            BY <3>1, <3>2 DEF Distinct
        <3>4. ToSet(box') \subseteq arrived'
            BY <3>1, <3>2 DEF ToSet
        <3>5. QED BY <3>3, <3>4
    <2>2. ASSUME NEW m \in Letter, OthersRemove(m)
          PROVE  Distinct(box') /\ ToSet(box') \subseteq arrived'
        BY <1>2, <2>2 DEF OthersRemove
    <2>3. session' = session
        BY <1>5 DEF Deliver, OthersRemove
    <2>4. QED BY <1>1, <1>5, <2>1, <2>2, <2>3
<1>6. CASE session' = NoSession /\ \E some \in SUBSET session.marks : Removes(some)
    BY <1>1, <1>2, <1>3, <1>4, <1>6 DEF Removes
<1>7. CASE box' = box /\ session' \in {session, NoSession, Transaction(box), Authorization}
    BY <1>1, <1>3, <1>4, <1>7
<1>8. CASE box' = box /\ session'.list = session.list
    BY <1>1, <1>8
<1>9. (\E n : session' = [session EXCEPT !.marks = @ \cup {n}]) \/ session' = [session EXCEPT !.marks = {}]
      => session'.list = session.list
    BY DEF Session
<1>10. QED BY <1>5, <1>6, <1>7, <1>8, <1>9 DEF ServerStep

\* No email stands twice in the index.
LEMMA UidsNext ==
    ASSUME ServerShape, index \in Seq(Message), IndexStep
    PROVE  /\ DistinctUids(index) => DistinctUids(index')
           /\ Uids(index') \subseteq Uids(index) \cup ToSet(session.list)
<1>1. CASE index' = index \/ index' = <<>>
    BY <1>1 DEF DistinctUids, Uids
<1>2. CASE DOMAIN index' = DOMAIN index /\ \A i \in DOMAIN index : index'[i].uid = index[i].uid
    BY <1>2 DEF DistinctUids, Uids
<1>3. CASE Fetched(index, index', session.list)
    BY <1>3 DEF Fetched
<1>4. CASE Sublist(index, index')
    BY <1>4 DEF Sublist, Uids
<1>5. QED BY <1>1, <1>2, <1>3, <1>4 DEF IndexStep, Reflagged, Renumbered

\* Both of these, in every step.
LEMMA LettersNext ==
    ASSUME Shape, Letters, [PopNext]_popVars PROVE Letters'
<1> USE DEF Shape, Letters
<1>1. ServerStep /\ Histories /\ IndexStep
    BY ServerSteps, IndexSteps DEF ReaderShape
<1>2. /\ arrived \subseteq arrived'
      /\ Distinct(box') /\ ToSet(box') \subseteq arrived'
      /\ Distinct(session'.list) /\ ToSet(session'.list) \subseteq arrived'
    BY <1>1, ListsNext
<1>3. DistinctUids(index') /\ Uids(index') \subseteq Uids(index) \cup ToSet(session.list)
    BY <1>1, UidsNext DEF ReaderShape
<1>4. Serves' => ToSet(box') \cap Uids(index') \subseteq ToSet(session'.list)
    <2>1. CASE box' = box /\ session'.list = session.list /\ (Serves' => Serves)
        BY <1>3, <2>1
    <2>2. CASE session'.state # "transaction" \/ session'.list = box'
        BY <2>2 DEF Serves
    <2>3. ASSUME NEW m \in Letter, Deliver(m)
          PROVE  Serves' => ToSet(box') \cap Uids(index') \subseteq ToSet(session'.list)
        <3>1. m \notin Uids(index) /\ index' = index /\ session' = session
            BY <2>3 DEF Deliver, mxVars, indexVars
        <3>2. ToSet(box') \subseteq ToSet(box) \cup {m}
            <4>1. box' = Append(box, m) /\ box \in Seq(Letter)
                BY <2>3 DEF Deliver, ServerShape
            <4>2. QED BY <4>1 DEF ToSet
        <3>3. QED BY <3>1, <3>2 DEF Serves
    <2>4. ASSUME NEW m \in Letter, OthersRemove(m)
          PROVE  ~Serves'
        BY <2>4 DEF OthersRemove, Serves
    <2>5. /\ NoSession.state = "none" /\ Authorization.state = "authorization"
          /\ Transaction(box).list = box
        BY DEF NoSession, Authorization, Transaction
    <2>6. (\E n : session' = [session EXCEPT !.marks = @ \cup {n}]) \/ session' = [session EXCEPT !.marks = {}]
          => session'.list = session.list /\ session'.state = session.state
        BY DEF ServerShape, Session
    <2>7. QED BY <1>1, <2>1, <2>2, <2>3, <2>4, <2>5, <2>6 DEF ServerStep, Serves
<1>5. QED BY <1>2, <1>3, <1>4

\* The types, and a message is in no list twice.
LEMMA PopTypes == PopSpec => [](Shape /\ Letters)
<1>1. PopInit => Shape /\ Letters
    <2> SUFFICES ASSUME PopInit PROVE Shape /\ Letters
        OBVIOUS
    <2> USE DEF PopInit, MxInit
    <2>1. <<>> \in Seq(Letter) /\ <<>> \in Seq(Message)
        OBVIOUS
    <2>2. session \in Session /\ session.marks = {} /\ session.list = <<>> /\ ~Serves
        BY <2>1 DEF Session, NoSession, Serves
    <2>3. ServerShape
        BY <2>1, <2>2 DEF ServerShape
    <2>4. ReaderShape
        BY <2>1 DEF ReaderShape, FetchPcs
    <2>5. Letters
        BY <2>2 DEF Letters, Distinct, DistinctUids, ToSet, Uids
    <2>6. QED BY <2>3, <2>4, <2>5 DEF Shape
<1>2. Shape /\ Letters /\ [PopNext]_popVars => (Shape /\ Letters)'
    BY ShapeNext, LettersNext DEF Letters
<1>3. QED BY <1>1, <1>2, PTL DEF PopSpec

-----------------------------------------------------------------------------
(* NumbersAreOfSession *)

\* The session goes on, or ends, and no number changes.
SameNumbers ==
    /\ session'.list = session.list /\ (Serves' => Serves) /\ link' = link
    /\ mpc # "uidl" /\ Reflagged(index, index')

\* Steps that leave the numbers of the emails alone.
LEMMA SameNumbersNext ==
    ASSUME Numbers, world' = world, SameNumbers PROVE Numbers'
BY DEF Numbers, SameNumbers, Current, Reflagged

\* Every step keeps the numbers of an answered session.
LEMMA NumbersNext ==
    ASSUME StatAnswered, Shape, Letters, Numbers, [PopNext]_popVars
    PROVE  Numbers'
<1>1. world' = world /\ IndexStep
    BY ServerSteps, IndexSteps DEF Histories, Shape, ReaderShape, Letters
<1>2. index \in Seq(Message) /\ Reflagged(index, index)
    BY FlagsOnly DEF Shape, ReaderShape
<1>3. SUFFICES ASSUME link' = "connected", Serves', mpc' # "uidl", index' # <<>>
               PROVE  Numbers'
    BY DEF Numbers, Current
<1>4. session' # NoSession
    BY <1>3 DEF NoSession, Serves
<1>5. ASSUME UNCHANGED <<index, session, link>>, mpc # "uidl"
      PROVE  Numbers'
    BY <1>1, <1>2, <1>5, SameNumbersNext DEF SameNumbers, Serves
<1>6. CASE Server
    <2>1. UNCHANGED <<index, session, link, mpc>>
        BY <1>4, <1>6 DEF Server, GivesUp, Deliver, OthersRemove, mxVars, indexVars
    <2>2. QED BY <1>3, <1>5, <2>1
<1>7. CASE Open \/ CheckLogout \/ ReconnectFails \/ FetchBreaks \/ RetrieveLost
    <2>1. mpc' = "uidl" \/ link' # "connected" \/ session' = NoSession
        BY <1>7 DEF Open, CheckLogout, ReconnectFails, FetchBreaks, RetrieveLost, Lost
    <2>2. QED BY <1>3, <1>4, <2>1
<1>8. CASE StillConnected \/ StartCheck \/ Retrieve \/ NotRetrieved \/ (\E i \in DOMAIN index : Read(i))
           \/ StartSync \/ SkipMessage \/ DeleRefused
    <2>1. UNCHANGED <<index, session, link>> /\ mpc # "uidl"
        BY <1>8 DEF StillConnected, StartCheck, BeginCheck, Retrieve, NotRetrieved, Read, StartSync, SkipMessage,
                    DeleRefused, SyncFails, At, indexVars, netVars
    <2>2. QED BY <1>5, <2>1
<1>9. CASE Reconnect
    <2>1. index' = Verified(index, box) /\ session'.list = box
        BY <1>9 DEF Reconnect, Login
    <2>2. Renumbered(index, index', box)
        BY <1>2, <2>1, NewNumbers DEF Shape, ServerShape
    <2>3. Current(index, session.list)'
        BY <2>1, <2>2 DEF Current, Renumbered
    <2>4. QED BY <2>3 DEF Numbers
<1>10. CASE CheckConnect
    <2>1. CASE Login
        <3>1. mpc' = "uidl" \/ StatRefused
            BY <1>3, <1>10, <2>1 DEF CheckConnect, LoginFails, Lost, AuthRefused, Login
        <3>2. ~StatRefused
            BY DEF StatRefused, StatAnswered, Shape, ServerShape
        <3>3. QED BY <1>3, <3>1, <3>2
    <2>2. CASE LoginFails \/ AuthRefused
        BY <1>3, <2>2 DEF LoginFails, Lost, AuthRefused, NoSession, Serves
    <2>3. QED BY <1>10, <2>1, <2>2 DEF CheckConnect, StatRefused
<1>11. CASE FetchHeaders
    <2>1. session' = session /\ Fetched(index, index', session.list)
        <3>1. /\ session' = session
              /\ index' = LostMarked(Numbered(index, session.list)) \o Unknown(index, session.list)
            BY <1>11 DEF FetchHeaders, netVars
        <3>2. session.list \in Seq(Letter) /\ Distinct(session.list)
            BY DEF Shape, ServerShape, Session, Letters
        <3>3. QED BY <1>2, <3>1, <3>2, FetchedAll
    <2>2. Current(index, session.list)'
        BY <2>1 DEF Current, Fetched
    <2>3. QED BY <2>2 DEF Numbers
<1>12. CASE UidlRefused
    <2>1. index' = Numbered(index, <<>>) /\ session' = session /\ "UIDL" \in world.refuses
        <3>1. task # "none"
            BY <1>3, <1>12 DEF UidlRefused, Shut
        <3>2. index' = Numbered(index, <<>>) /\ session' = session
            BY <1>12, <3>1 DEF UidlRefused, netVars
        <3>3. QED BY <1>3, <1>12, <3>2 DEF UidlRefused, Refused, Serves
    <2>2. Renumbered(index, index', <<>>)
        <3>1. <<>> \in Seq(Letter)
            OBVIOUS
        <3>2. QED BY <1>2, <2>1, <3>1, NewNumbers
    <2>3. \A u : NumberIn(<<>>, u) = 0
        BY DEF NumberIn, ToSet
    <2>4. Current(index, session.list)'
        BY <1>1, <2>1, <2>2, <2>3 DEF Current, Renumbered
    <2>5. QED BY <2>4 DEF Numbers
<1>13. CASE User
    <2>1. mpc = "idle" /\ session' = session /\ link' = link
        BY <1>13 DEF User, SetRead, SetDeleted, BeginSync, BeginClose, netVars
    <2>2. Reflagged(index, index')
        BY <1>1, <1>2, <1>3, <2>1 DEF IndexStep
    <2>3. QED BY <1>1, <2>1, <2>2, SameNumbersNext DEF SameNumbers, Serves
<1>14. CASE Leave \/ Die
    BY <1>3, <1>14 DEF Leave, Die, Shut
<1>15. CASE Dele
    <2>1. index' = index /\ session'.list = session.list /\ session'.state = session.state /\ link' = link /\ mpc = "save"
        BY <1>15 DEF Dele, At, indexVars, Shape, ServerShape, Session
    <2>2. QED BY <1>1, <1>2, <2>1, SameNumbersNext DEF SameNumbers, Serves
<1>16. CASE SyncLost \/ SyncEnds \/ SyncNotEnded
    BY <1>4, <1>16 DEF SyncLost, SyncEnds, SyncNotEnded, Lost, Quits, QuitRefused
<1>17. CASE Fetcher
    BY <1>3, <1>17 DEF Fetcher, FetchMessage, Fetching, FetchNotStored, FetchDele, FetchDeleRefused, FetchReset, FetchEnds,
                 FetchMail, FetchVars, indexVars, Shape, ReaderShape, FetchPcs
<1>18. CASE UNCHANGED popVars
    <2>1. UNCHANGED <<index, session, link, mpc>>
        BY <1>18 DEF popVars, mxVars, indexVars, netVars
    <2>2. QED BY <1>3, <1>5, <2>1
<1>19. QED BY <1>6, <1>7, <1>8, <1>9, <1>10, <1>11, <1>12, <1>13, <1>14, <1>15, <1>16, <1>17, <1>18
           DEF PopNext, Reader, Saver

\* The numbers are those of the session.
LEMMA NumbersStay ==
    ASSUME StatAnswered PROVE PopSpec => []Numbers
<1>1. PopInit => Numbers
    BY DEF PopInit, Numbers
<1>2. Shape /\ Letters /\ Numbers /\ [PopNext]_popVars => Numbers'
    BY NumbersNext
<1>3. QED BY <1>1, <1>2, PopTypes, PTL DEF PopSpec

\* Whenever the user may ask for anything, and when a message is fetched or
\* deleted, its number is its own in the session of the server, if the server
\* answers STAT (pop_reconnect(), pop_fetch_headers()).
THEOREM NumbersOfSession ==
    ASSUME StatAnswered PROVE PopSpec => []NumbersAreOfSession
<1>1. Shape /\ Numbers => NumbersAreOfSession
    <2> SUFFICES ASSUME Shape, Numbers, mpc \in {"idle", "save", "retr"}, link = "connected", Serves,
                        NEW i \in DOMAIN index, index[i].refno # 0
                 PROVE  index[i].refno \in DOMAIN session.list /\ session.list[index[i].refno] = index[i].uid
        BY DEF NumbersAreOfSession
    <2>1. index[i].refno = NumberIn(session.list, index[i].uid)
        BY DEF Numbers, Current
    <2>2. session.list \in Seq(Letter)
        BY DEF Shape, ServerShape, Session
    <2>3. QED BY <2>1, <2>2, NumberInIs
<1>2. QED BY <1>1, PopTypes, NumbersStay, PTL

-----------------------------------------------------------------------------
(* RemovedWereMarked *)

\* The steps that save, and those that go to save.
LEMMA SaveSteps ==
    ASSUME Shape, [PopNext]_popVars, mpc' = "save"
    PROVE  \/ Dele \/ SkipMessage
           \/ UNCHANGED <<index, mpc, pos, task, link>> /\ session' \in {session, NoSession}
           \/ mpc = "reconnect" /\ pos' = 1 /\ (session' = session \/ session'.marks = {})
<1> DEFINE Goal ==
           \/ Dele \/ SkipMessage
           \/ UNCHANGED <<index, mpc, pos, task, link>> /\ session' \in {session, NoSession}
           \/ mpc = "reconnect" /\ pos' = 1 /\ (session' = session \/ session'.marks = {})
<1> SUFFICES Goal
    OBVIOUS
<1>1. CASE Server
    BY <1>1 DEF Server, GivesUp, Deliver, OthersRemove, mxVars, indexVars, callVars
<1>2. CASE StillConnected \/ Reconnect
    <2>1. task \in {"sync", "close"} /\ mpc = "reconnect" /\ pos' = pos
        BY <1>2 DEF StillConnected, Reconnect, Proceed, callVars, Shape, ReaderShape
    <2>2. session' = session \/ session'.marks = {}
        BY <1>2 DEF StillConnected, Reconnect, Login, netVars
    <2>3. QED BY <2>1, <2>2 DEF Shape, ReaderShape
<1>3. CASE Reader /\ ~StillConnected /\ ~Reconnect
    <2>1. mpc' # "save"
        BY <1>3 DEF Reader, Open, ReconnectFails, StartCheck, BeginCheck, CheckLogout, CheckConnect, FetchHeaders,
                    FetchBreaks, UidlRefused, Retrieve, RetrieveLost, NotRetrieved, Read, Again, Shut, FastClose, Idle
    <2>2. QED BY <2>1
<1>4. CASE User \/ Leave \/ Die
    <2>1. mpc' # "save"
        BY <1>4 DEF User, Leave, Die, SetRead, SetDeleted, BeginSync, BeginClose, Shut, FastClose
    <2>2. QED BY <2>1
<1>5. CASE Saver
    BY <1>5 DEF Saver, StartSync, SyncLost, DeleRefused, SyncEnds, SyncNotEnded, Again, SyncFails, Shut, FastClose, Idle
<1>6. CASE Fetcher
    <2>1. mpc' # "save"
        BY <1>6 DEF Fetcher, FetchMessage, Fetching, FetchNotStored, FetchDele, FetchDeleRefused, FetchReset, FetchEnds,
                    FetchMail
    <2>2. QED BY <2>1
<1>7. CASE UNCHANGED popVars
    BY <1>7 DEF popVars, mxVars, indexVars, callVars, netVars
<1>8. QED BY <1>1, <1>2, <1>3, <1>4, <1>5, <1>6, <1>7 DEF PopNext

\* The message a sync is at has a number of the session when its DELE is sent.
LEMMA ThisNumber ==
    ASSUME Shape, Numbers, At("save"), ToDelete, Answered
    PROVE  This.refno \in DOMAIN session.list /\ session.list[This.refno] = This.uid
<1>1. This.refno = NumberIn(session.list, This.uid) /\ This.refno # 0
    BY DEF Numbers, Current, At, ToDelete, Answered, This
<1>2. session.list \in Seq(Letter)
    BY DEF Shape, ServerShape, Session
<1>3. QED BY <1>1, <1>2, NumberInIs

\* A DELE is answered, unless the server refuses it: it was not sent before in
\* this session, for each mark is of a message before the one the sync is at.
LEMMA DeleOnce ==
    ASSUME Shape, Letters, Numbers, SavedMarks, DeleRefused, "DELE" \notin world.refuses
    PROVE  session.state = "authorization" /\ session.marks = {}
<1>1. At("save") /\ ToDelete /\ mpc = "save"
    BY DEF DeleRefused, At
<1>2. ASSUME Serves PROVE FALSE
    <2>1. Answered /\ (This.refno \in session.marks \/ This.refno \notin DOMAIN session.list)
        BY <1>2 DEF DeleRefused, Refused, Serves
    <2>2. This.refno \in DOMAIN session.list /\ session.list[This.refno] = This.uid
        BY <1>1, <2>1, ThisNumber
    <2>3. PICK j \in 1 .. pos - 1 : j \in DOMAIN index /\ index[j].refno = This.refno
        BY <1>1, <2>1, <2>2 DEF SavedMarks
    <2>4. session.list \in Seq(Letter) /\ index[j].refno # 0
        BY <2>2, <2>3 DEF Shape, ServerShape, Session
    <2>5. index[j].refno = NumberIn(session.list, index[j].uid)
        BY <1>1, <2>1, <2>3, <2>4 DEF Numbers, Current, Answered
    <2>6. index[j].uid = This.uid
        BY <2>2, <2>3, <2>4, <2>5, NumberInIs
    <2>7. pos \in DOMAIN index
        BY <1>1 DEF At
    <2>8. j = pos
        BY <2>3, <2>6, <2>7 DEF Letters, DistinctUids, This
    <2>9. QED BY <2>3, <2>8 DEF Shape, ReaderShape
<1>3. QED BY <1>2 DEF DeleRefused, Refused, Answered, Shape, ServerShape

\* The marks of a session are those of the sync that goes on, at messages
\* before the one it is at, unless a sync gives up and leaves some.
LEMMA SavedMarksNext ==
    ASSUME Shape, SavedMarks, DeleRefused => session.marks = {}, [PopNext]_popVars
    PROVE  SavedMarks'
<1>1. NoSession.marks = {}
    BY DEF NoSession
<1>2. ASSUME mpc' = "save", NEW n \in session'.marks
      PROVE  \E j \in 1 .. pos' - 1 : j \in DOMAIN index' /\ index'[j].refno = n /\ index'[j].deleted
    <2>1. CASE Dele
        <3>1. /\ index' = index /\ pos' = pos + 1 /\ mpc = "save" /\ pos \in DOMAIN index /\ This.deleted
              /\ session' = [session EXCEPT !.marks = @ \cup {This.refno}]
            BY <2>1 DEF Dele, At, ToDelete, NextMessage, indexVars
        <3>2. session'.marks = session.marks \cup {This.refno}
            BY <3>1 DEF Shape, ServerShape, Session
        <3>3. pos \in Nat /\ pos > 0
            BY <3>1 DEF Shape, ReaderShape
        <3>4. CASE n = This.refno
            <4>1. pos \in 1 .. pos' - 1 /\ index'[pos].refno = n /\ index'[pos].deleted
                BY <3>1, <3>3, <3>4 DEF This
            <4>2. QED BY <3>1, <4>1
        <3>5. CASE n \in session.marks
            <4>1. PICK j \in 1 .. pos - 1 : j \in DOMAIN index /\ index[j].refno = n /\ index[j].deleted
                BY <3>1, <3>5 DEF SavedMarks
            <4>2. j \in 1 .. pos' - 1
                BY <3>1, <3>3
            <4>3. QED BY <3>1, <4>1, <4>2
        <3>6. QED BY <1>2, <3>2, <3>4, <3>5
    <2>2. CASE SkipMessage
        <3>1. index' = index /\ pos' = pos + 1 /\ mpc = "save" /\ session' = session
            BY <2>2 DEF SkipMessage, At, NextMessage, indexVars, netVars
        <3>2. PICK j \in 1 .. pos - 1 : j \in DOMAIN index /\ index[j].refno = n /\ index[j].deleted
            BY <1>2, <3>1 DEF SavedMarks
        <3>3. j \in 1 .. pos' - 1
            BY <3>1 DEF Shape, ReaderShape
        <3>4. QED BY <3>1, <3>2, <3>3
    <2>3. CASE UNCHANGED <<index, mpc, pos, task, link>> /\ session' \in {session, NoSession}
        BY <1>1, <1>2, <2>3 DEF SavedMarks
    <2>4. CASE mpc = "reconnect" /\ (session' = session \/ session'.marks = {})
        BY <1>2, <2>4 DEF SavedMarks, FetchPcs
    <2>5. QED BY <1>2, <2>1, <2>2, <2>3, <2>4, SaveSteps
<1>3. ASSUME session'.marks # {} PROVE mpc' \in {"save"} \cup FetchPcs
    <2>1. session.marks # {} => mpc \in {"save"} \cup FetchPcs
        BY DEF SavedMarks
    <2>2. session' # NoSession
        BY <1>1, <1>3
    <2> USE DEF FetchPcs
    <2>3. CASE Server
        <3>1. session' = session /\ mpc' = mpc
            BY <2>2, <2>3 DEF Server, GivesUp, Deliver, OthersRemove, mxVars
        <3>2. QED BY <1>3, <2>1, <3>1
    <2>4. CASE Reader
        <3>1. mpc \notin {"save"} \cup FetchPcs
            BY <2>4 DEF Reader, Open, StillConnected, Reconnect, ReconnectFails, StartCheck, BeginCheck, CheckLogout,
                        CheckConnect, FetchHeaders, FetchBreaks, UidlRefused, Retrieve, RetrieveLost, NotRetrieved, Read
        <3>2. session.marks = {}
            BY <2>1, <3>1
        <3>3. session' = session \/ session'.marks = {}
            BY <2>2, <2>4 DEF Reader, Open, StillConnected, Reconnect, ReconnectFails, StartCheck, CheckLogout,
                              CheckConnect, FetchHeaders, FetchBreaks, UidlRefused, Retrieve, RetrieveLost, NotRetrieved,
                              Read, Login, LoginFails, Lost, AuthRefused, StatRefused, Logout, NoSession, netVars
        <3>4. QED BY <1>3, <3>2, <3>3
    <2>5. CASE User
        <3>1. mpc = "idle" /\ session' = session
            BY <2>5 DEF User, SetRead, SetDeleted, BeginSync, BeginClose, netVars
        <3>2. QED BY <1>3, <2>1, <3>1
    <2>6. CASE Leave \/ Die \/ SyncLost \/ SyncEnds \/ SyncNotEnded \/ FetchEnds
        BY <2>2, <2>6 DEF Leave, Die, Logout, SyncLost, Lost, SyncEnds, SyncNotEnded, FetchEnds, Quits, QuitRefused
    <2>7. CASE StartSync
        BY <1>3, <2>1, <2>7 DEF StartSync, netVars
    <2>8. CASE Dele \/ SkipMessage
        BY <2>8 DEF Dele, SkipMessage, NextMessage
    <2>9. CASE DeleRefused
        BY <1>3, <2>9 DEF DeleRefused, netVars
    <2>10. CASE FetchMessage \/ FetchNotStored \/ FetchDele \/ FetchDeleRefused \/ FetchReset
        BY <2>10 DEF FetchMessage, Fetching, FetchNotStored, FetchDele, FetchDeleRefused, FetchReset
    <2>11. CASE \E answer \in BOOLEAN : FetchMail(answer)
        BY <2>11 DEF FetchMail
    <2>12. CASE UNCHANGED popVars
        BY <1>3, <2>1, <2>12 DEF popVars, mxVars, netVars
    <2>13. QED BY <2>3, <2>4, <2>5, <2>6, <2>7, <2>8, <2>9, <2>10, <2>11, <2>12 DEF PopNext, Saver, Fetcher
<1>4. QED BY <1>2, <1>3 DEF SavedMarks

\* Where messages may be undeleted, DELE is answered.
LEMMA OwnMarksNext ==
    ASSUME StatAnswered, DeleAnswered, Shape, Letters, Numbers, OwnMarks, [PopNext]_popVars
    PROVE  OwnMarks'
<1>1. world' = world
    BY ServerSteps DEF Histories, Shape
<1>2. MayUndelete => "DELE" \notin world.refuses
    BY DEF DeleAnswered, MayUndelete, Shape, ServerShape
<1>3. QED BY <1>1, <1>2, DeleOnce, SavedMarksNext DEF OwnMarks, MayUndelete

\* A message that is marked deleted stays where it is, and so marked.
LEMMA MarkStays ==
    ASSUME Shape, Letters, OwnMarks, IndexStep, session' = session, session.marks # {},
           NEW i \in DOMAIN index, index[i].deleted
    PROVE  i \in DOMAIN index' /\ index'[i].uid = index[i].uid /\ index'[i].deleted
<1>1. session' # NoSession /\ session' # Transaction(box)
    BY DEF NoSession, Transaction
<1>2. CASE index' = index
    BY <1>2
<1>3. CASE mpc = "idle" /\ Reflagged(index, index') /\ (MayUndelete \/ MarksStay(index, index'))
    <2>1. ~MayUndelete
        BY <1>3 DEF OwnMarks, SavedMarks, FetchPcs
    <2>2. QED BY <1>3, <2>1 DEF Reflagged, MarksStay
<1>4. CASE Fetched(index, index', session.list)
    BY <1>4 DEF Fetched, MarksStay
<1>5. CASE Renumbered(index, index', <<>>) /\ MarksStay(index, index')
    BY <1>5 DEF Renumbered, MarksStay
<1>6. QED BY <1>1, <1>2, <1>3, <1>4, <1>5 DEF IndexStep

\* What fetch_mail() marks on the server is in the spool file.
LEMMA SpoolNext ==
    ASSUME Shape, Accounted, [PopNext]_popVars
    PROVE  /\ spool \subseteq spool'
           /\ mpc' = "fetchdele" /\ Serves' => session'.list[number'] \in spool'
<1> USE DEF Accounted
<1>1. CASE Server
    <2>1. CASE GivesUp
        BY <2>1 DEF GivesUp, Serves, NoSession
    <2>2. CASE \E m \in Letter : Deliver(m) \/ OthersRemove(m)
        BY <2>2 DEF Deliver, OthersRemove, mxVars, Serves
    <2>3. QED BY <1>1, <2>1, <2>2 DEF Server
<1>2. CASE Reader
    BY <1>2 DEF Reader, Open, StillConnected, Reconnect, ReconnectFails, StartCheck, BeginCheck, CheckLogout,
                CheckConnect, FetchHeaders, FetchBreaks, UidlRefused, Retrieve, RetrieveLost, NotRetrieved, Read,
                Again, Proceed, Shut, FastClose, Idle, Kept
<1>3. CASE User \/ Leave
    BY <1>3 DEF User, Leave, SetRead, SetDeleted, BeginSync, BeginClose, Shut, FastClose, Kept
<1>4. CASE Die
    BY <1>4 DEF Die, Shut, FastClose
<1>5. CASE Saver
    BY <1>5 DEF Saver, StartSync, Dele, SkipMessage, SyncLost, DeleRefused, SyncEnds, SyncNotEnded,
                Again, NextMessage, SyncFails, Shut, FastClose, Idle, Kept
<1>6. CASE FetchMessage
    BY <1>6 DEF FetchMessage, Fetching, Stored, netVars
<1>7. CASE FetchNotStored \/ FetchDele \/ FetchDeleRefused \/ FetchReset \/ FetchEnds
           \/ \E answer \in BOOLEAN : FetchMail(answer)
    BY <1>7 DEF FetchNotStored, FetchDele, FetchDeleRefused, FetchReset, FetchEnds, FetchMail
<1>8. CASE UNCHANGED popVars
    BY <1>8 DEF popVars, mxVars, netVars, Serves
<1>9. QED BY <1>1, <1>2, <1>3, <1>4, <1>5, <1>6, <1>7, <1>8 DEF PopNext, Fetcher

\* What a session has marked is shown as deleted, or stored.
LEMMA AccountedNext ==
    ASSUME Shape, Letters, Numbers, OwnMarks, Accounted, [PopNext]_popVars
    PROVE  Accounted'
<1>1. ServerStep /\ IndexStep
    BY ServerSteps, IndexSteps DEF Shape, ReaderShape, Letters
<1>2. spool \subseteq spool' /\ (mpc' = "fetchdele" /\ Serves' => session'.list[number'] \in spool')
    BY SpoolNext
<1>3. ASSUME NEW n \in session'.marks
      PROVE  \/ session'.list[n] \in spool'
             \/ \E i \in DOMAIN index' : index'[i].uid = session'.list[n] /\ index'[i].deleted
    <2>1. CASE session' = session
        <3>1. CASE session.list[n] \in spool
            BY <1>2, <2>1, <3>1
        <3>2. CASE \E i \in DOMAIN index : index[i].uid = session.list[n] /\ index[i].deleted
            <4>1. PICK i \in DOMAIN index : index[i].uid = session.list[n] /\ index[i].deleted
                BY <3>2
            <4>2. i \in DOMAIN index' /\ index'[i].uid = index[i].uid /\ index'[i].deleted
                BY <1>1, <1>3, <2>1, <4>1, MarkStays
            <4>3. QED BY <2>1, <4>1, <4>2
        <3>3. QED BY <1>3, <2>1, <3>1, <3>2 DEF Accounted
    <2>2. CASE session'.marks = {}
        BY <1>3, <2>2
    <2>3. CASE Dele
        <3>1. /\ index' = index /\ At("save") /\ ToDelete /\ Answered
              /\ session'.list = session.list /\ session'.marks = session.marks \cup {This.refno}
            BY <2>3 DEF Dele, indexVars, Shape, ServerShape, Session
        <3>2. CASE n = This.refno
            <4>1. This.uid = session.list[n]
                BY <3>1, <3>2, ThisNumber
            <4>2. pos \in DOMAIN index /\ index[pos].uid = session.list[n] /\ index[pos].deleted
                BY <3>1, <4>1 DEF At, ToDelete, This
            <4>3. QED BY <3>1, <4>2
        <3>3. CASE n \in session.marks
            BY <1>2, <3>1, <3>3 DEF Accounted
        <3>4. QED BY <1>3, <3>1, <3>2, <3>3
    <2>4. CASE FetchDele
        <3>1. /\ index' = index /\ mpc = "fetchdele" /\ Serves
              /\ session'.list = session.list /\ session'.marks = session.marks \cup {number}
            BY <2>4 DEF FetchDele, FetchVars, indexVars, Answered, Shape, ServerShape, Session
        <3>2. session.list[number] \in spool
            BY <3>1 DEF Accounted
        <3>3. QED BY <1>2, <1>3, <3>1, <3>2 DEF Accounted
    <2>5. \A list : NoSession.marks = {} /\ Transaction(list).marks = {} /\ Authorization.marks = {}
        BY DEF NoSession, Transaction, Authorization
    <2>6. session' = [session EXCEPT !.marks = {}] => session'.marks = {}
        BY DEF Shape, ServerShape, Session
    <2>7. (\E m \in Letter : Deliver(m) \/ OthersRemove(m)) => session' = session
        BY DEF Deliver, OthersRemove
    <2>8. QED BY <1>1, <2>1, <2>2, <2>3, <2>4, <2>5, <2>6, <2>7 DEF ServerStep
<1>4. QED BY <1>2, <1>3 DEF Accounted

MarksInv == OwnMarks /\ Accounted

\* Only what was shown as deleted is marked.
LEMMA MarksKept ==
    ASSUME StatAnswered, DeleAnswered PROVE PopSpec => []MarksInv
<1>1. PopInit => MarksInv
    BY DEF PopInit, MxInit, NoSession, Serves, MarksInv, OwnMarks, SavedMarks, Accounted
<1>2. Shape /\ Letters /\ Numbers /\ MarksInv /\ [PopNext]_popVars => MarksInv'
    BY OwnMarksNext, AccountedNext DEF MarksInv
<1>3. QED BY <1>1, <1>2, PopTypes, NumbersStay, PTL DEF PopSpec

\* What is removed is an element that is not among the places left.
LEMMA RemovesIs ==
    ASSUME ServerShape, NEW numbers, Removes(numbers), NEW u \in ToSet(box)
    PROVE  u \in ToSet(box') <=> \A n \in numbers : session.list[n] # u
<1> DEFINE places == {k \in DOMAIN box : \A n \in numbers : session.list[n] # box[k]}
<1>1. box' = AtPlaces(box, places) /\ box \in Seq(Letter)
    BY DEF Removes, ServerShape
<1>2. /\ \A m \in DOMAIN box' : \E i \in DOMAIN box : i \in places /\ box'[m] = box[i]
      /\ \A i \in DOMAIN box : i \in places => \E m \in DOMAIN box' : box'[m] = box[i]
    <2> HIDE DEF places
    <2>1. QED BY <1>1, AtPlacesElements
<1>3. PICK k \in DOMAIN box : box[k] = u
    BY DEF ToSet
<1>4. (\A n \in numbers : session.list[n] # u) => u \in ToSet(box')
    BY <1>2, <1>3 DEF ToSet
<1>5. u \in ToSet(box') => \A n \in numbers : session.list[n] # u
    BY <1>2 DEF ToSet
<1>6. QED BY <1>4, <1>5

\* What the end of a session removes from the server, QUIT carried out in full
\* or in part, was shown as deleted or is in the spool file, if the server
\* answers STAT, and DELE where the user changes his mind (pop_mbox_sync(),
\* pop_fetch_mail()).
THEOREM RemovedWereShown ==
    ASSUME StatAnswered, DeleAnswered PROVE PopSpec => RemovedWereMarked
<1> DEFINE A == session # NoSession /\ session' = NoSession =>
                  \A u \in ToSet(box) \ ToSet(box') :
                      \/ u \in spool
                      \/ \E i \in DOMAIN index : index[i].uid = u /\ index[i].deleted
<1>1. Shape /\ MarksInv /\ [PopNext]_popVars => A
    <2> SUFFICES ASSUME Shape, MarksInv, [PopNext]_popVars, session # NoSession, session' = NoSession,
                        NEW u \in ToSet(box), u \notin ToSet(box')
                 PROVE  \/ u \in spool
                        \/ \E i \in DOMAIN index : index[i].uid = u /\ index[i].deleted
        OBVIOUS
    <2>1. ServerStep
        BY ServerSteps DEF Shape
    <2>2. \E some \in SUBSET session.marks : Removes(some)
        BY <2>1 DEF ServerStep, Deliver, OthersRemove
    <2>3. PICK some \in SUBSET session.marks : Removes(some)
        BY <2>2
    <2>4. PICK n \in some : session.list[n] = u
        BY <2>3, RemovesIs DEF Shape
    <2>5. QED BY <2>4 DEF MarksInv, Accounted
<1>2. QED BY <1>1, PopTypes, MarksKept, PTL DEF PopSpec, RemovedWereMarked

-----------------------------------------------------------------------------
(* SyncRemovesMarked *)

\* In the session in which QUIT is sent, every DELE of the sync was sent: the
\* messages before the one the sync is at are marked, if they are deleted.
LEMMA MarkedSoFarNext ==
    ASSUME Shape, MarkedSoFar, [PopNext]_popVars
    PROVE  MarkedSoFar'
<1> SUFFICES ASSUME mpc' = "save", link' = "connected", Serves', NEW i \in 1 .. pos' - 1,
                    i \in DOMAIN index', index'[i].deleted, index'[i].refno # 0
             PROVE  index'[i].refno \in session'.marks
    BY DEF MarkedSoFar, Saving
<1>1. session' # NoSession
    BY DEF NoSession, Serves
<1>2. pos \in Nat
    BY DEF Shape, ReaderShape
<1>3. CASE Dele
    <2>1. /\ index' = index /\ pos' = pos + 1 /\ At("save") /\ Answered
          /\ session' = [session EXCEPT !.marks = @ \cup {This.refno}]
        BY <1>3 DEF Dele, NextMessage, indexVars
    <2>2. session'.marks = session.marks \cup {This.refno}
        BY <2>1 DEF Shape, ServerShape, Session
    <2>3. CASE i = pos
        BY <2>1, <2>2, <2>3 DEF This
    <2>4. CASE i # pos
        <3>1. i \in 1 .. pos - 1
            BY <1>2, <2>1, <2>4
        <3>2. index[i].refno \in session.marks
            BY <2>1, <3>1 DEF MarkedSoFar, Saving, At, Answered
        <3>3. QED BY <2>1, <2>2, <3>2
    <2>5. QED BY <2>3, <2>4
<1>4. CASE SkipMessage
    <2>1. index' = index /\ pos' = pos + 1 /\ At("save") /\ ~ToDelete /\ session' = session /\ link' = link
        BY <1>4 DEF SkipMessage, NextMessage, indexVars, netVars
    <2>2. i # pos
        BY <2>1 DEF ToDelete, This
    <2>3. i \in 1 .. pos - 1
        BY <1>2, <2>1, <2>2
    <2>4. QED BY <2>1, <2>3 DEF MarkedSoFar, Saving, At, Serves
<1>5. CASE UNCHANGED <<index, mpc, pos, task, link>> /\ session' = session
    BY <1>5 DEF MarkedSoFar, Saving, Serves
<1>6. CASE pos' = 1
    BY <1>6
<1>7. QED BY <1>1, <1>3, <1>4, <1>5, <1>6, SaveSteps

\* A sync has marked what was deleted up to where it is.
LEMMA MarkedSoFarStays == PopSpec => []MarkedSoFar
<1>1. PopInit => MarkedSoFar
    BY DEF PopInit, MxInit, MarkedSoFar, Saving
<1>2. Shape /\ MarkedSoFar /\ [PopNext]_popVars => MarkedSoFar'
    BY MarkedSoFarNext
<1>3. QED BY <1>1, <1>2, PopTypes, PTL DEF PopSpec

\* A sync that succeeds leaves no message on the server that it drops from the
\* index, whatever connections were lost before, if the server answers STAT
\* and UIDL (pop_mbox_sync()).
THEOREM SyncRemoves ==
    ASSUME StatAnswered, UidlAnswered PROVE PopSpec => SyncRemovesMarked
<1> DEFINE A == SyncEnds => \A i \in DOMAIN index : index[i].deleted => index[i].uid \notin ToSet(box')
<1>1. Shape /\ Letters /\ Numbers /\ MarkedSoFar => A
    <2> SUFFICES ASSUME Shape, Letters, Numbers, MarkedSoFar, SyncEnds,
                        NEW i \in DOMAIN index, index[i].deleted
                 PROVE  index[i].uid \notin ToSet(box')
        OBVIOUS
    <2>1. mpc = "save" /\ pos > Len(index) /\ Answered /\ Removes(session.marks)
        BY DEF SyncEnds, Quits
    <2>2. i \in 1 .. pos - 1
        BY <2>1 DEF Shape, ReaderShape
    <2>3. index[i].refno = NumberIn(session.list, index[i].uid)
        <3>1. "UIDL" \notin world.refuses
            BY DEF UidlAnswered, Shape, ServerShape
        <3>2. QED BY <2>1, <3>1 DEF Numbers, Current, Answered
    <2>4. session.list \in Seq(Letter)
        BY DEF Shape, ServerShape, Session
    <2>5. CASE index[i].uid \notin ToSet(box)
        <3>1. ToSet(box') \subseteq ToSet(box)
            <4>1. box \in Seq(Letter) /\ Distinct(box)
                BY DEF Shape, ServerShape, Letters
            <4>2. QED BY <2>1, <4>1, AtPlacesDistinct DEF Removes
        <3>2. QED BY <2>5, <3>1
    <2>6. CASE index[i].uid \in ToSet(box)
        <3>1. index[i].uid \in ToSet(session.list)
            BY <2>1, <2>6 DEF Letters, Uids, Answered
        <3>2. index[i].refno # 0 /\ session.list[index[i].refno] = index[i].uid
            BY <2>3, <2>4, <3>1, NumberInIs
        <3>3. index[i].refno \in session.marks
            BY <2>1, <2>2, <3>2 DEF MarkedSoFar, Saving, Answered
        <3>4. QED BY <2>1, <2>6, <3>2, <3>3, RemovesIs DEF Shape
    <2>7. QED BY <2>5, <2>6
<1>2. QED BY <1>1, PopTypes, NumbersStay, MarkedSoFarStays, PTL DEF PopSpec, SyncRemovesMarked

-----------------------------------------------------------------------------
(* CacheIsOfMessage *)

Reading == "read" \in world.user

\* The places of the messages are places on the server, and who does not read
\* has no text kept.
CacheShape ==
    /\ cache \in [Place -> Letter \cup {None}]
    /\ \A i \in DOMAIN index : index[i].place \in Place
    /\ session.state = "authorization" => "LOGIN" \in world.refuses
    /\ ~Reading => cache = Emptied /\ task # "read"

\* The mail of the server is the list of the session and what came since.
Ordered == \A n \in DOMAIN session.list : n \in DOMAIN box /\ box[n] = session.list[n]

OwnDeleted == "delete" \notin world.user => \A i \in DOMAIN index : ~index[i].deleted

\* A message that is shown is on the server, but for those that a sync has
\* removed that is not over.
Syncing == task \in {"sync", "close"} /\ mpc \in {"reconnect", "save"}
Present == \A i \in DOMAIN index : index[i].uid \in ToSet(box) \/ (index[i].deleted /\ Syncing)

\* No message has the place of another, or one before its own on the server.
AtMost(v, b) == \A i \in DOMAIN v : \A n \in DOMAIN b : b[n] = v[i].uid => n <= v[i].place
Apart(v)     == \A i, j \in DOMAIN v : v[i].place = v[j].place => i = j

\* A text is that of a message, kept at its place.
HeldIn(texts, v) ==
    \A p \in Place : texts[p] # None => \E i \in DOMAIN v : v[i].place = p /\ v[i].uid = texts[p]

\* No text is kept before the mailbox is open.
Fresh == task = "none" /\ mpc # "idle" => cache = Emptied

Listed == SavedMarks /\ Ordered /\ OwnDeleted /\ Present
Kepts  == AtMost(index, box) /\ Apart(index) /\ HeldIn(cache, index) /\ Fresh

ReadInv == Reading => Listed /\ Kepts

-----------------------------------------------------------------------------
(* Places *)

\* A list of different letters is no longer than there are letters.
LEMMA ListFits ==
    ASSUME NEW list \in Seq(Letter), Distinct(list), IsFiniteSet(Letter)
    PROVE  DOMAIN list \subseteq Place
<1>1. list \in [1 .. Len(list) -> Letter] /\ Len(list) \in Nat /\ DOMAIN list = 1 .. Len(list)
    OBVIOUS
<1>2. list \in Injection(1 .. Len(list), Letter)
    BY <1>1 DEF Distinct, Injection, IsInjective
<1>3. Cardinality(1 .. Len(list)) <= Cardinality(Letter)
    BY <1>2, FS_Injection
<1>4. Cardinality(1 .. Len(list)) = Len(list)
    <2>1. 1 \in Int /\ Len(list) \in Int
        BY <1>1
    <2>2. Cardinality(1 .. Len(list)) = IF 1 > Len(list) THEN 0 ELSE Len(list) - 1 + 1
        BY ONLY <2>1, FS_Interval
    <2>3. QED BY <1>1, <2>2
<1>5. Cardinality(Letter) \in Nat
    BY FS_CardinalityType
<1>6. QED BY <1>1, <1>3, <1>4, <1>5 DEF Place

\* What is left of a list is not further behind than it was.
LEMMA AtPlacesBefore ==
    ASSUME NEW S, NEW s \in Seq(S), NEW places, NEW m \in DOMAIN AtPlaces(s, places)
    PROVE  \E n \in DOMAIN s : m <= n /\ AtPlaces(s, places)[m] = s[n]
<1>1. PICK t : t = AtPlaces(s, places)
    OBVIOUS
<1>2. t \in Seq(S) /\ \E e : Picks(s, places, e, t, Len(s))
    BY <1>1, AtPlacesPicks
<1>3. PICK e : Picks(s, places, e, t, Len(s))
    BY <1>2
<1>4. /\ DOMAIN t = 1 .. Len(t) /\ DOMAIN s = 1 .. Len(s) /\ Len(t) \in Nat /\ Len(s) \in Nat
      /\ m \in DOMAIN t
    BY <1>1, <1>2
<1>5. \A k \in 1 .. Len(t) : e[k] \in 1 .. Len(s) /\ t[k] = s[e[k]]
    BY <1>3 DEF Picks
<1> DEFINE T == {k \in Nat : k \in 1 .. Len(t) => k <= e[k]}
<1>6. 0 \in T
    OBVIOUS
<1>7. ASSUME NEW k \in Nat, k \in T PROVE k + 1 \in T
    <2>1. CASE k = 0
        <3>1. 1 \in 1 .. Len(t) => e[1] \in 1 .. Len(s)
            BY <1>5
        <3>2. QED BY <1>4, <2>1, <3>1
    <2>2. CASE k # 0 /\ k + 1 \in 1 .. Len(t)
        <3>1. k \in 1 .. Len(t) /\ k < k + 1
            BY <1>4, <2>2
        <3>2. e[k] < e[k + 1]
            BY <1>3, <2>2, <3>1 DEF Picks
        <3>3. e[k] \in Nat /\ e[k + 1] \in Nat /\ k <= e[k]
            BY <1>5, <1>7, <2>2, <3>1
        <3>4. QED BY <3>2, <3>3
    <2>3. CASE k + 1 \notin 1 .. Len(t)
        BY <2>3
    <2>4. QED BY <2>1, <2>2, <2>3
<1> HIDE DEF T
<1>8. Nat \subseteq T
    BY <1>6, <1>7, NatSetInduction
<1>9. m \in Nat /\ m \in T
    BY <1>4, <1>8
<1>10. m <= e[m]
    BY <1>4, <1>9 DEF T
<1>11. QED BY <1>1, <1>4, <1>5, <1>10

\* The number a letter has in part of the list is its number in the list.
LEMMA PartNumber ==
    ASSUME Shape, Letters, NEW list \in Seq(Letter), Part(list), NEW u
    PROVE  /\ NumberIn(list, u) \in {0} \cup DOMAIN session.list
           /\ NumberIn(list, u) # 0 => session.list[NumberIn(list, u)] = u
           /\ \A n \in DOMAIN session.list : session.list[n] = u /\ NumberIn(list, u) = 0 =>
                 \A v : NumberIn(list, v) < n
<1>1. session.list \in Seq(Letter) /\ Distinct(session.list)
    BY DEF Shape, ServerShape, Session, Letters
<1>2. CASE list = <<>>
    <2>1. \A v : NumberIn(list, v) = 0
        BY <1>2 DEF NumberIn, ToSet
    <2>2. \A n \in DOMAIN session.list : 0 < n
        BY <1>1
    <2>3. QED BY <2>1, <2>2
<1>3. CASE \E k \in 0 .. Len(session.list) : list = SubSeq(session.list, 1, k)
    <2>1. PICK k \in 0 .. Len(session.list) : list = SubSeq(session.list, 1, k)
        BY <1>3
    <2>2. DOMAIN list = 1 .. k /\ \A i \in 1 .. k : i \in DOMAIN session.list /\ list[i] = session.list[i]
        BY <1>1, <2>1, PrefixIs
    <2>3. \A v : NumberIn(list, v) = 0 \/ (NumberIn(list, v) \in 1 .. k /\ list[NumberIn(list, v)] = v)
        BY <2>2, NumberInIs
    <2>4. ASSUME NEW n \in DOMAIN session.list, session.list[n] = u, NumberIn(list, u) = 0, NEW v
          PROVE  NumberIn(list, v) < n
        <3>1. n \notin 1 .. k
            <4>1. ASSUME n \in 1 .. k PROVE FALSE
                <5>1. u \in ToSet(list)
                    BY <2>2, <2>4, <4>1 DEF ToSet
                <5>2. QED BY <2>4, <5>1, NumberInIs
            <4>2. QED BY <4>1
        <3>2. n \in Nat /\ n > k /\ k \in Nat
            BY <1>1, <3>1
        <3>3. QED BY <2>3, <3>2
    <2>5. QED BY <2>2, <2>3, <2>4
<1>4. QED BY <1>2, <1>3 DEF Part

\* Every message keeps its place, or has the number it has in the list.
LEMMA PlaceFrom ==
    ASSUME Shape, Letters, IndexStep, NEW i \in DOMAIN index'
    PROVE  \/ \E j \in DOMAIN index : index'[i].uid = index[j].uid /\ index'[i].place = index[j].place
           \/ index'[i].place \in DOMAIN session.list /\ session.list[index'[i].place] = index'[i].uid
<1> DEFINE Goal ==
           \/ \E j \in DOMAIN index : index'[i].uid = index[j].uid /\ index'[i].place = index[j].place
           \/ index'[i].place \in DOMAIN session.list /\ session.list[index'[i].place] = index'[i].uid
<1>1. CASE index' = index
    BY <1>1
<1>2. CASE Reflagged(index, index')
    BY <1>2 DEF Reflagged
<1>3. CASE (\E list \in Seq(Letter) : Renumbered(index, index', list)) /\ SamePlaces(index, index')
    BY <1>3 DEF Renumbered, SamePlaces
<1>4. CASE Serves /\ Fetched(index, index', session.list)
    <2>1. session.list \in Seq(Letter)
        BY DEF Shape, ServerShape, Session
    <2>2. /\ index'[i].refno = NumberIn(session.list, index'[i].uid)
          /\ index'[i].place = IF index'[i].refno = 0 THEN index[i].place ELSE index'[i].refno
          /\ index'[i].refno = 0 => i \in DOMAIN index
        BY <1>4 DEF Fetched
    <2>3. CASE index'[i].refno = 0
        BY <1>4, <2>2, <2>3 DEF Fetched
    <2>4. CASE index'[i].refno # 0
        BY <2>1, <2>2, <2>4, NumberInIs
    <2>5. QED BY <2>3, <2>4
<1>5. CASE \E list \in Seq(Letter) : Part(list) /\ Renumbered(index, index', list) /\ NewPlaces(index, index', list)
    <2>1. PICK list \in Seq(Letter) : Part(list) /\ Renumbered(index, index', list) /\ NewPlaces(index, index', list)
        BY <1>5
    <2>2. i \in DOMAIN index /\ index'[i].uid = index[i].uid
        BY <2>1 DEF Renumbered
    <2>3. index'[i].place = IF NumberIn(list, index[i].uid) = 0 THEN index[i].place ELSE NumberIn(list, index[i].uid)
        BY <2>1, <2>2 DEF NewPlaces
    <2>4. QED BY <2>1, <2>2, <2>3, PartNumber
<1>6. CASE Sublist(index, index')
    BY <1>6 DEF Sublist
<1>7. CASE index' = <<>>
    BY <1>7
<1>8. Renumbered(index, index', box) /\ SamePlaces(index, index') => Goal
    BY DEF Renumbered, SamePlaces
<1>9. Renumbered(index, index', <<>>) /\ SamePlaces(index, index') => Goal
    BY DEF Renumbered, SamePlaces
<1>10. QED BY <1>1, <1>2, <1>3, <1>4, <1>5, <1>6, <1>7, <1>8, <1>9 DEF IndexStep

-----------------------------------------------------------------------------
(* What a step does to the texts *)

\* The texts stay, go, or one is fetched.
LEMMA TextSteps ==
    ASSUME [PopNext]_popVars
    PROVE  cache' = cache \/ cache' = Emptied \/ (Retrieve /\ index' = index)
<1>1. CASE Server \/ User \/ Fetcher \/ UNCHANGED popVars
    BY <1>1 DEF Server, GivesUp, Deliver, OthersRemove, User, Fetcher, FetchMessage, Fetching, FetchNotStored, FetchDele,
                FetchDeleRefused, FetchReset, FetchEnds, FetchMail, FetchVars, popVars
<1>2. CASE Reader
    <2>1. CASE FetchHeaders
        BY <2>1 DEF FetchHeaders, CacheAfter
    <2>2. CASE FetchBreaks
        <3>1. \E known : CacheAfter(Moved(index, known))
            BY <2>2 DEF FetchBreaks
        <3>2. QED BY <3>1 DEF CacheAfter
    <2>3. CASE UidlRefused
        BY <2>3 DEF UidlRefused, Shut
    <2>4. CASE ReconnectFails
        BY <2>4 DEF ReconnectFails, Shut
    <2>5. CASE Retrieve
        BY <2>5 DEF Retrieve, indexVars
    <2>6. QED BY <1>2, <2>1, <2>2, <2>3, <2>4, <2>5 DEF Reader, Open, StillConnected, Reconnect, StartCheck, CheckLogout,
                CheckConnect, RetrieveLost, NotRetrieved, Read
<1>3. CASE Leave \/ Die
    BY <1>3 DEF Leave, Die, Shut
<1>4. CASE Saver
    BY <1>4 DEF Saver, StartSync, Dele, SkipMessage, SyncLost, DeleRefused, SyncEnds, SyncNotEnded, Shut, CacheCleared
<1>5. QED BY <1>1, <1>2, <1>3, <1>4 DEF PopNext

\* A text is fetched for who reads.
LEMMA ReadSteps ==
    ASSUME ReaderShape, [PopNext]_popVars
    PROVE  /\ task' = "read" => task = "read" \/ Reading
           /\ Retrieve => task = "read"
<1>1. CASE Server \/ Fetcher \/ UNCHANGED popVars
    BY <1>1 DEF Server, GivesUp, Deliver, OthersRemove, Fetcher, FetchMessage, Fetching, FetchNotStored, FetchDele,
                FetchDeleRefused, FetchReset, FetchEnds, FetchMail, FetchVars, popVars, mxVars, callVars,
                Retrieve, ReaderShape
<1>2. CASE Reader
    BY <1>2 DEF Reader, Open, StillConnected, Reconnect, ReconnectFails, StartCheck, BeginCheck, CheckLogout,
                CheckConnect, FetchHeaders, FetchBreaks, UidlRefused, Retrieve, RetrieveLost, NotRetrieved, Read,
                Again, Shut, FastClose, Idle, callVars, Reading, ReaderShape
<1>3. CASE User \/ Leave \/ Die
    BY <1>3 DEF User, Leave, SetRead, SetDeleted, BeginSync, BeginClose, Die, Shut, FastClose, callVars,
                Retrieve, ReaderShape
<1>4. CASE Saver
    BY <1>4 DEF Saver, StartSync, Dele, SkipMessage, SyncLost, DeleRefused, SyncEnds, SyncNotEnded,
                Again, NextMessage, SyncFails, Shut, FastClose, Idle, callVars, Retrieve, ReaderShape
<1>5. QED BY <1>1, <1>2, <1>3, <1>4 DEF PopNext

\* What is fetched is the text of the message.
LEMMA TextFetched ==
    ASSUME Shape, Numbers, CacheShape, Retrieve
    PROVE  /\ pos \in DOMAIN index /\ This.place \in Place /\ This.uid \in Letter
           /\ cache' = [cache EXCEPT ![This.place] = This.uid]
<1>1. pos \in DOMAIN index /\ This.place \in Place
    BY DEF Retrieve, Shape, ReaderShape, CacheShape, This
<1>2. session.list \in Seq(Letter)
    BY DEF Shape, ServerShape, Session
<1>3. This.refno = NumberIn(session.list, This.uid) /\ This.refno # 0
    BY <1>1 DEF Retrieve, Answered, Numbers, Current, This
<1>4. session.list[This.refno] = This.uid
    BY <1>2, <1>3, NumberInIs
<1>5. This.uid \in Letter
    <2>1. index[pos] \in Message
        BY <1>1 DEF Shape, ReaderShape
    <2>2. QED BY <2>1 DEF This, Message
<1>6. QED BY <1>1, <1>4, <1>5 DEF Retrieve

\* The shape of the texts.
LEMMA CacheShapeNext ==
    ASSUME IsFiniteSet(Letter), Shape, Letters, Numbers, CacheShape, [PopNext]_popVars
    PROVE  CacheShape'
<1>1. ServerStep /\ IndexStep /\ world' = world
    BY ServerSteps, IndexSteps DEF Shape, ReaderShape, Letters, Histories
<1>2. Emptied \in [Place -> Letter \cup {None}]
    BY DEF Emptied
<1>3. cache' \in [Place -> Letter \cup {None}]
    <2>1. CASE Retrieve
        <3>1. /\ This.place \in Place /\ This.uid \in Letter /\ cache \in [Place -> Letter \cup {None}]
              /\ cache' = [cache EXCEPT ![This.place] = This.uid]
            BY <2>1, TextFetched DEF CacheShape
        <3>2. QED BY <3>1
    <2>2. QED BY <1>2, <2>1, TextSteps DEF CacheShape
<1>4. ASSUME NEW i \in DOMAIN index' PROVE index'[i].place \in Place
    <2>1. DOMAIN session.list \subseteq Place
        BY ListFits DEF Shape, ServerShape, Session, Letters
    <2>2. \/ \E j \in DOMAIN index : index'[i].place = index[j].place
          \/ index'[i].place \in DOMAIN session.list
        BY <1>1, PlaceFrom
    <2>3. QED BY <2>1, <2>2 DEF CacheShape
<1>5. session'.state = "authorization" => "LOGIN" \in world'.refuses
    <2>1. NoSession.state = "none" /\ \A list : Transaction(list).state = "transaction"
        BY DEF NoSession, Transaction
    <2>2. (\E n : session' = [session EXCEPT !.marks = @ \cup {n}]) \/ session' = [session EXCEPT !.marks = {}]
          => session'.state = session.state
        BY DEF Shape, ServerShape, Session
    <2>3. (\E m \in Letter : Deliver(m) \/ OthersRemove(m)) => session' = session
        BY DEF Deliver, OthersRemove
    <2>4. QED BY <1>1, <2>1, <2>2, <2>3 DEF ServerStep, CacheShape
<1>6. ~Reading' => cache' = Emptied /\ task' # "read"
    BY <1>1, TextSteps, ReadSteps DEF CacheShape, Reading, Shape
<1>7. QED BY <1>3, <1>4, <1>5, <1>6 DEF CacheShape

-----------------------------------------------------------------------------
(* What a step does to the mail of who has it for himself *)

\* The list of a session stays in front of what is delivered.
LEMMA OrderedNext ==
    ASSUME Shape, ServerStep, ~world.removes, Ordered
    PROVE  Ordered'
<1>1. box \in Seq(Letter)
    BY DEF Shape, ServerShape
<1>2. NoSession.list = <<>> /\ Authorization.list = <<>> /\ Transaction(box).list = box
    BY DEF NoSession, Authorization, Transaction
<1>3. (\E n : session' = [session EXCEPT !.marks = @ \cup {n}]) \/ session' = [session EXCEPT !.marks = {}]
      => session'.list = session.list
    BY DEF Shape, ServerShape, Session
<1>4. CASE session'.list = <<>>
    BY <1>4 DEF Ordered
<1>5. CASE box' = box /\ session'.list \in {box, session.list}
    BY <1>5 DEF Ordered
<1>6. ASSUME NEW m \in Letter, Deliver(m) PROVE Ordered'
    <2>1. box' = Append(box, m) /\ session' = session
        BY <1>6 DEF Deliver
    <2>2. \A n \in DOMAIN box : n \in DOMAIN box' /\ box'[n] = box[n]
        BY <1>1, <2>1
    <2>3. QED BY <2>1, <2>2 DEF Ordered
<1>7. \A m \in Letter : ~OthersRemove(m)
    BY DEF OthersRemove
<1>8. QED BY <1>2, <1>3, <1>4, <1>5, <1>6, <1>7 DEF ServerStep

\* What goes from the server was marked deleted by the sync that goes on.
LEMMA RemovedBySync ==
    ASSUME Shape, Letters, Numbers, SavedMarks, ServerStep, ~world.removes,
           NEW u \in ToSet(box), u \notin ToSet(box'), mpc \notin FetchPcs
    PROVE  mpc = "save" /\ \E j \in DOMAIN index : index[j].uid = u /\ index[j].deleted
<1>1. \A m \in Letter : ~OthersRemove(m)
    BY DEF OthersRemove
<1>2. \A m \in Letter : ~Deliver(m)
    <2>1. ASSUME NEW m \in Letter, Deliver(m) PROVE FALSE
        <3>1. box' = Append(box, m) /\ box \in Seq(Letter)
            BY <2>1 DEF Deliver, Shape, ServerShape
        <3>2. \A n \in DOMAIN box : n \in DOMAIN box' /\ box'[n] = box[n]
            BY <3>1
        <3>3. QED BY <3>2 DEF ToSet
    <2>2. QED BY <2>1
<1>3. Answered /\ \E some \in SUBSET session.marks : Removes(some)
    BY <1>1, <1>2 DEF ServerStep
<1>4. PICK some \in SUBSET session.marks : Removes(some)
    BY <1>3
<1>5. PICK n \in some : session.list[n] = u
    BY <1>4, RemovesIs DEF Shape
<1>6. n \in session.marks /\ n \in DOMAIN session.list
    BY <1>5 DEF Shape, ServerShape
<1>7. mpc = "save"
    BY <1>6 DEF SavedMarks
<1>8. PICK j \in 1 .. pos - 1 : j \in DOMAIN index /\ index[j].refno = n /\ index[j].deleted
    BY <1>6, <1>7 DEF SavedMarks
<1>9. session.list \in Seq(Letter)
    BY DEF Shape, ServerShape, Session
<1>10. n # 0
    BY <1>6, <1>9
<1>11. index[j].refno = NumberIn(session.list, index[j].uid)
    BY <1>3, <1>7, <1>8, <1>10 DEF Numbers, Current, Answered
<1>12. index[j].uid = u
    BY <1>5, <1>8, <1>9, <1>10, <1>11, NumberInIs
<1>13. QED BY <1>7, <1>8, <1>12

\* What is on the server was there before, no further in front.
LEMMA BoxBefore ==
    ASSUME Shape, ServerStep, ~world.removes, NEW k \in DOMAIN box', box'[k] \in arrived
    PROVE  \E n \in DOMAIN box : k <= n /\ box[n] = box'[k]
<1>1. box \in Seq(Letter) /\ DOMAIN box = 1 .. Len(box) /\ Len(box) \in Nat
    BY DEF Shape, ServerShape
<1>2. CASE box' = box
    BY <1>1, <1>2
<1>3. ASSUME NEW m \in Letter, Deliver(m)
      PROVE  \E n \in DOMAIN box : k <= n /\ box[n] = box'[k]
    <2>1. box' = Append(box, m) /\ m \notin arrived
        BY <1>3 DEF Deliver
    <2>2. k \in DOMAIN box /\ box'[k] = box[k]
        BY <1>1, <2>1
    <2>3. QED BY <1>1, <2>2
<1>4. \A m \in Letter : ~OthersRemove(m)
    BY DEF OthersRemove
<1>5. CASE \E some \in SUBSET session.marks : Removes(some)
    <2>1. PICK places : box' = AtPlaces(box, places)
        BY <1>5 DEF Removes
    <2>2. QED BY <1>1, <2>1, AtPlacesBefore
<1>6. QED BY <1>2, <1>3, <1>4, <1>5 DEF ServerStep

\* Whoever deletes nothing, or sees every sync through, has each DELE answered.
LEMMA SavedMarksStay ==
    ASSUME OwnMail, Shape, Letters, Numbers, CacheShape, Reading, Listed, [PopNext]_popVars
    PROVE  SavedMarks' /\ ~DeleRefused
<1>1. world \in PopWorlds
    BY DEF Shape, ServerShape
<1>2. ~DeleRefused
    <2>1. CASE "delete" \notin world.user
        BY <2>1 DEF Listed, OwnDeleted, DeleRefused, At, ToDelete, This
    <2>2. CASE "delete" \in world.user
        <3>1. world.refuses = {}
            BY <1>1, <2>2 DEF OwnMail, Reading
        <3>2. QED BY <3>1, DeleOnce DEF Listed, CacheShape
    <2>3. QED BY <2>1, <2>2
<1>3. QED BY <1>2, SavedMarksNext DEF Listed

\* The letters of the list are on the server, and those of the index too unless
\* a sync goes on.
LEMMA ListedLetters ==
    ASSUME Shape, Letters, Listed
    PROVE  /\ ToSet(session.list) \subseteq ToSet(box)
           /\ ~Syncing => Uids(index) \subseteq ToSet(box)
           /\ ~Syncing /\ Serves => Uids(index) \subseteq ToSet(session.list)
<1>1. ToSet(session.list) \subseteq ToSet(box)
    BY DEF Listed, Ordered, ToSet
<1>2. ~Syncing => Uids(index) \subseteq ToSet(box)
    BY DEF Listed, Present, Uids
<1>3. QED BY <1>1, <1>2 DEF Letters

\* Who deletes nothing has nothing marked deleted: not as lost either.
LEMMA OwnDeletedNext ==
    ASSUME Shape, Letters, Listed, IndexStep, world' = world
    PROVE  OwnDeleted'
<1> SUFFICES ASSUME "delete" \notin world.user, NEW i \in DOMAIN index', index'[i].deleted PROVE FALSE
    BY DEF OwnDeleted
<1>1. \A j \in DOMAIN index : ~index[j].deleted
    BY DEF Listed, OwnDeleted
<1>2. CASE index' = index \/ index' = <<>> \/ NoNewMarks(index, index')
    BY <1>1, <1>2 DEF NoNewMarks
<1>3. CASE mpc = "uidl" /\ Serves /\ Fetched(index, index', session.list)
    <2>1. index'[i].refno = 0 /\ i \in DOMAIN index /\ index'[i].refno = NumberIn(session.list, index'[i].uid)
        BY <1>1, <1>3 DEF Fetched
    <2>2. index'[i].uid \in Uids(index)
        BY <1>3, <2>1 DEF Fetched, Uids
    <2>3. index'[i].uid \in ToSet(session.list)
        BY <1>3, <2>2, ListedLetters DEF Syncing
    <2>4. session.list \in Seq(Letter)
        BY DEF Shape, ServerShape, Session
    <2>5. QED BY <2>1, <2>3, <2>4, NumberInIs
<1>4. CASE Sublist(index, index')
    BY <1>4 DEF Sublist
<1>5. QED BY <1>2, <1>3, <1>4 DEF IndexStep

\* A sync that has begun goes on with the same messages, ends with those not
\* deleted or with none, or gives up.
LEMMA SyncingSteps ==
    ASSUME Shape, Syncing, [PopNext]_popVars
    PROVE  \/ index' = <<>>
           \/ Syncing' /\ (index' = index \/ index' = Verified(index, box))
           \/ SyncEnds /\ TablesUpdated
           \/ DeleRefused \/ SyncNotEnded
           \/ ReconnectFails /\ GivesUpReconnecting
<1> USE DEF Syncing
<1>1. CASE Server \/ UNCHANGED popVars
    BY <1>1 DEF Server, GivesUp, Deliver, OthersRemove, popVars, mxVars, indexVars, callVars
<1>2. CASE StillConnected \/ Reconnect
    <2>1. mpc' = "save" /\ task' = task
        BY <1>2 DEF StillConnected, Reconnect, Proceed, callVars, Shape, ReaderShape
    <2>2. index' = index \/ index' = Verified(index, box)
        BY <1>2 DEF StillConnected, Reconnect, indexVars
    <2>3. QED BY <2>1, <2>2
<1>3. CASE ReconnectFails
    BY <1>3 DEF ReconnectFails
<1>4. CASE Reader /\ ~StillConnected /\ ~Reconnect /\ ~ReconnectFails
    BY <1>4 DEF Reader, Open, StartCheck, BeginCheck, CheckLogout, CheckConnect, FetchHeaders, FetchBreaks,
                UidlRefused, Retrieve, RetrieveLost, NotRetrieved, Read
<1>5. CASE User \/ Leave \/ Fetcher
    BY <1>5 DEF User, Leave, SetRead, SetDeleted, BeginSync, BeginClose, Fetcher, FetchMessage, Fetching, FetchNotStored,
                FetchDele, FetchDeleRefused, FetchReset, FetchEnds, FetchMail
<1>6. CASE Die
    BY <1>6 DEF Die, Shut, FastClose
<1>7. CASE StartSync \/ Dele \/ SkipMessage \/ SyncLost
    BY <1>7 DEF StartSync, Dele, SkipMessage, SyncLost, Again, NextMessage, indexVars, Shape, ReaderShape
<1>8. CASE SyncEnds
    BY <1>8 DEF SyncEnds, Shut, FastClose
<1>9. QED BY <1>1, <1>2, <1>3, <1>4, <1>5, <1>6, <1>7, <1>8 DEF PopNext, Saver

\* What is shown is on the server, or deleted by the sync that goes on.
LEMMA PresentNext ==
    ASSUME OwnMail, Shape, Letters, Numbers, CacheShape, Reading, Listed, [PopNext]_popVars
    PROVE  Present'
<1>0. world \in PopWorlds /\ ~world.removes
    BY DEF Shape, ServerShape, OwnMail, Reading
<1>1. ServerStep /\ IndexStep /\ world' = world
    BY ServerSteps, IndexSteps DEF Shape, ReaderShape, Letters, Histories
<1>2. index \in Seq(Message)
    BY DEF Shape, ReaderShape
<1>3. Uids(index') \subseteq Uids(index) \cup ToSet(session.list)
    BY <1>1, <1>2, UidsNext DEF Shape
<1>4. CASE mpc \in FetchPcs
    <2>1. index' = <<>>
        BY <1>1, <1>4 DEF IndexStep, FetchPcs, Shape, ReaderShape
    <2>2. QED BY <2>1 DEF Present
<1>5. ASSUME mpc \notin FetchPcs, NEW u \in ToSet(box), u \notin ToSet(box')
      PROVE  mpc = "save" /\ \E j \in DOMAIN index : index[j].uid = u /\ index[j].deleted
    BY <1>0, <1>1, <1>5, RemovedBySync DEF Listed
<1>6. CASE mpc \notin FetchPcs /\ (~Syncing \/ "delete" \notin world.user)
    <2>1. Uids(index) \subseteq ToSet(box)
        BY <1>6 DEF Listed, Present, OwnDeleted, Uids
    <2>2. Uids(index') \subseteq ToSet(box)
        BY <1>3, <2>1, ListedLetters
    <2>3. ASSUME NEW i \in DOMAIN index' PROVE index'[i].uid \in ToSet(box')
        <3>1. index'[i].uid \in ToSet(box)
            BY <2>2 DEF Uids
        <3>2. ASSUME index'[i].uid \notin ToSet(box') PROVE FALSE
            <4>1. mpc = "save" /\ \E j \in DOMAIN index : index[j].deleted
                BY <1>5, <1>6, <3>1, <3>2
            <4>2. Syncing
                BY <4>1 DEF Syncing, Shape, ReaderShape
            <4>3. QED BY <1>6, <4>1, <4>2 DEF Listed, OwnDeleted
        <3>3. QED BY <3>2
    <2>4. QED BY <2>3 DEF Present
<1>7. CASE mpc \notin FetchPcs /\ Syncing /\ "delete" \in world.user
    <2>1. "insist" \in world.user /\ world.refuses = {}
        BY <1>0, <1>7 DEF OwnMail, Reading
    <2>2. ASSUME NEW i \in DOMAIN index, index[i].uid \notin ToSet(box') PROVE index[i].deleted
        <3>1. CASE index[i].uid \notin ToSet(box)
            BY <3>1 DEF Listed, Present
        <3>2. CASE index[i].uid \in ToSet(box)
            <4>1. PICK j \in DOMAIN index : index[j].uid = index[i].uid /\ index[j].deleted
                BY <1>5, <1>7, <2>2, <3>2
            <4>2. QED BY <4>1 DEF Letters, DistinctUids
        <3>3. QED BY <3>1, <3>2
    <2>3. CASE index' = <<>>
        BY <2>3 DEF Present
    <2>4. CASE Syncing' /\ (index' = index \/ index' = Verified(index, box))
        <3>1. DOMAIN index' = DOMAIN index /\ \A i \in DOMAIN index : index'[i].uid = index[i].uid
            BY <1>2, <2>4, NewNumbers DEF Renumbered, Shape, ServerShape
        <3>2. MarksStay(index, index')
            <4>1. CASE index' = index
                BY <4>1 DEF MarksStay
            <4>2. CASE index' = Verified(index, box)
                BY <1>2, <4>2, NewNumbers DEF Shape, ServerShape
            <4>3. QED BY <2>4, <4>1, <4>2
        <3>3. QED BY <2>2, <2>4, <3>1, <3>2 DEF Present, MarksStay
    <2>5. CASE TablesUpdated
        <3>1. Sublist(index, index')
            BY <1>2, <2>5, TablesUpdatedIs
        <3>2. QED BY <2>2, <3>1 DEF Sublist, Present
    <2>6. ~DeleRefused
        BY SavedMarksStay
    <2>7. ~SyncNotEnded /\ ~GivesUpReconnecting
        BY <2>1 DEF SyncNotEnded, QuitRefused, GivesUpReconnecting
    <2>8. QED BY <1>7, <2>3, <2>4, <2>5, <2>6, <2>7, SyncingSteps
<1>8. QED BY <1>4, <1>6, <1>7

\* The mail that is listed, in every step.
LEMMA ListedNext ==
    ASSUME OwnMail, Shape, Letters, Numbers, CacheShape, Reading, Listed, [PopNext]_popVars
    PROVE  Listed'
<1>1. ServerStep /\ IndexStep /\ world' = world
    BY ServerSteps, IndexSteps DEF Shape, ReaderShape, Letters, Histories
<1>2. ~world.removes
    BY DEF Shape, ServerShape, OwnMail, Reading
<1>3. SavedMarks'
    BY SavedMarksStay
<1>4. Ordered'
    BY <1>1, <1>2, OrderedNext DEF Listed
<1>5. OwnDeleted'
    BY <1>1, OwnDeletedNext
<1>6. Present'
    BY PresentNext
<1>7. QED BY <1>3, <1>4, <1>5, <1>6 DEF Listed

-----------------------------------------------------------------------------
(* Places of their own, and texts at them *)

\* Every message is in the list when it is fetched, so that it has a number.
LEMMA FetchedNumbers ==
    ASSUME Shape, Letters, Listed, mpc = "uidl", Serves, Fetched(index, index', session.list),
           NEW i \in DOMAIN index'
    PROVE  /\ index'[i].place \in DOMAIN session.list /\ session.list[index'[i].place] = index'[i].uid
           /\ i \in DOMAIN index => index'[i].place = NumberIn(session.list, index[i].uid)
<1>1. session.list \in Seq(Letter)
    BY DEF Shape, ServerShape, Session
<1>2. index'[i].uid \in ToSet(session.list)
    <2>1. index'[i].uid \in Uids(index) \cup ToSet(session.list)
        BY DEF Fetched, Uids
    <2>2. QED BY <2>1, ListedLetters DEF Syncing
<1>3. index'[i].refno = NumberIn(session.list, index'[i].uid) /\ index'[i].refno # 0
    BY <1>1, <1>2, NumberInIs DEF Fetched
<1>4. index'[i].place = index'[i].refno
    BY <1>3 DEF Fetched
<1>5. i \in DOMAIN index => index'[i].uid = index[i].uid
    BY DEF Fetched
<1>6. QED BY <1>1, <1>3, <1>4, <1>5, NumberInIs

\* No message is kept before its own place on the server.
LEMMA AtMostNext ==
    ASSUME Shape, Letters, ~world.removes, Ordered, AtMost(index, box), ServerStep, IndexStep, Histories
    PROVE  AtMost(index', box')
<1> SUFFICES ASSUME NEW i \in DOMAIN index', NEW k \in DOMAIN box', box'[k] = index'[i].uid
             PROVE  k <= index'[i].place
    BY DEF AtMost
<1>1. index'[i].uid \in arrived
    <2>1. Uids(index') \subseteq Uids(index) \cup ToSet(session.list)
        BY UidsNext DEF Shape, ReaderShape
    <2>2. QED BY <2>1 DEF Uids, Letters
<1>2. PICK n \in DOMAIN box : k <= n /\ box[n] = index'[i].uid
    BY <1>1, BoxBefore
<1>3. n <= index'[i].place
    <2>1. CASE \E j \in DOMAIN index : index'[i].uid = index[j].uid /\ index'[i].place = index[j].place
        BY <1>2, <2>1 DEF AtMost
    <2>2. CASE index'[i].place \in DOMAIN session.list /\ session.list[index'[i].place] = index'[i].uid
        <3>1. index'[i].place \in DOMAIN box /\ box[index'[i].place] = box[n]
            BY <1>2, <2>2 DEF Ordered
        <3>2. index'[i].place = n
            BY <3>1 DEF Letters, Distinct
        <3>3. n \in Nat
            BY DEF Shape, ServerShape
        <3>4. QED BY <3>2, <3>3
    <2>3. QED BY <2>1, <2>2, PlaceFrom
<1>4. k \in Nat /\ n \in Nat
    <2>1. box' \in Seq(Letter)
        BY ServerNext DEF Shape
    <2>2. box \in Seq(Letter)
        BY DEF Shape, ServerShape
    <2>3. QED BY <2>1, <2>2
<1>5. index'[i].place \in Nat
    <2>1. index \in Seq(Message)
        BY DEF Shape, ReaderShape
    <2>2. index' \in Seq(Message)
        BY <2>1, IndexTyped
    <2>3. index'[i] \in Message
        BY <2>2
    <2>4. QED BY <2>3 DEF Message
<1>6. QED BY <1>2, <1>3, <1>4, <1>5

\* Part of the list gives no message the place of another.
LEMMA PartApart ==
    ASSUME Shape, Letters, Listed, AtMost(index, box), Apart(index), mpc = "uidl",
           NEW list \in Seq(Letter), Part(list), Renumbered(index, index', list), NewPlaces(index, index', list)
    PROVE  Apart(index')
<1> DEFINE num(i) == NumberIn(list, index[i].uid)
<1>1. DOMAIN index' = DOMAIN index
    BY DEF Renumbered
<1>2. \A i \in DOMAIN index : index'[i].place = IF num(i) = 0 THEN index[i].place ELSE num(i)
    BY DEF NewPlaces
<1>3. \A i \in DOMAIN index : num(i) # 0 => num(i) \in DOMAIN session.list /\ session.list[num(i)] = index[i].uid
    BY PartNumber
<1>4. ASSUME NEW i \in DOMAIN index, NEW j \in DOMAIN index, num(i) # 0, num(j) = 0
      PROVE  num(i) < index[j].place
    <2>1. Serves
        <3>1. list # <<>>
            BY <1>4 DEF NumberIn, ToSet
        <3>2. QED BY <3>1 DEF Part
    <2>2. PICK n \in DOMAIN session.list : session.list[n] = index[j].uid
        <3>1. index[j].uid \in ToSet(session.list)
            BY <2>1, ListedLetters DEF Syncing, Uids
        <3>2. QED BY <3>1 DEF ToSet
    <2>3. num(i) < n
        BY <1>4, <2>2, PartNumber
    <2>4. n <= index[j].place
        BY <2>2 DEF Listed, Ordered, AtMost
    <2>5. num(i) \in Nat /\ n \in Nat /\ index[j].place \in Nat
        <3>1. session.list \in Seq(Letter) /\ index[j] \in Message
            BY DEF Shape, ServerShape, ReaderShape, Session
        <3>2. QED BY <3>1, NumberInIs DEF Message
    <2>6. QED BY <2>3, <2>4, <2>5
<1>5. \A i \in DOMAIN index : num(i) \in Nat
    BY NumberInIs
<1> HIDE DEF num
<1>6. ASSUME NEW i \in DOMAIN index, NEW j \in DOMAIN index, index'[i].place = index'[j].place PROVE i = j
    <2>1. CASE num(i) # 0 /\ num(j) # 0
        BY <1>2, <1>3, <1>6, <2>1 DEF Letters, DistinctUids
    <2>2. CASE num(i) = 0 /\ num(j) = 0
        BY <1>2, <1>6, <2>2 DEF Apart
    <2>3. CASE num(i) # 0 /\ num(j) = 0
        <3>1. num(i) < num(i)
            BY <1>2, <1>4, <1>6, <2>3
        <3>2. QED BY <1>5, <3>1
    <2>4. CASE num(i) = 0 /\ num(j) # 0
        <3>1. num(j) < num(j)
            BY <1>2, <1>4, <1>6, <2>4
        <3>2. QED BY <1>5, <3>1
    <2>5. QED BY <2>1, <2>2, <2>3, <2>4
<1>7. QED BY <1>1, <1>6 DEF Apart

\* No message is given the place of another.
LEMMA ApartNext ==
    ASSUME Shape, Letters, Listed, AtMost(index, box), Apart(index), IndexStep
    PROVE  Apart(index')
<1>1. CASE index' = index \/ index' = <<>>
    BY <1>1 DEF Apart
<1>2. CASE DOMAIN index' = DOMAIN index /\ SamePlaces(index, index')
    BY <1>2 DEF Apart, SamePlaces
<1>3. CASE Reflagged(index, index')
    BY <1>3 DEF Apart, Reflagged
<1>4. CASE mpc = "uidl" /\ Serves /\ Fetched(index, index', session.list)
    <2>1. \A i \in DOMAIN index' : session.list[index'[i].place] = index'[i].uid
        BY <1>4, FetchedNumbers
    <2>2. DistinctUids(index')
        BY <1>4 DEF Fetched, Letters
    <2>3. QED BY <2>1, <2>2 DEF Apart, DistinctUids
<1>5. CASE mpc = "uidl" /\ \E list \in Seq(Letter) : /\ Part(list) /\ Renumbered(index, index', list)
                                                   /\ NewPlaces(index, index', list)
    BY <1>5, PartApart
<1>6. CASE Sublist(index, index')
    <2>1. DistinctUids(index')
        BY <1>6 DEF Sublist, Letters
    <2>2. ASSUME NEW i \in DOMAIN index', NEW j \in DOMAIN index', index'[i].place = index'[j].place
          PROVE  i = j
        <3>1. PICK k \in DOMAIN index : index'[i].uid = index[k].uid /\ index'[i].place = index[k].place
            BY <1>6 DEF Sublist
        <3>2. PICK l \in DOMAIN index : index'[j].uid = index[l].uid /\ index'[j].place = index[l].place
            BY <1>6 DEF Sublist
        <3>3. k = l
            BY <2>2, <3>1, <3>2 DEF Apart
        <3>4. QED BY <2>1, <3>1, <3>2, <3>3 DEF DistinctUids
    <2>3. QED BY <2>2 DEF Apart
<1>7. \A list : Renumbered(index, index', list) => DOMAIN index' = DOMAIN index
    BY DEF Renumbered
<1>8. QED BY <1>1, <1>2, <1>3, <1>4, <1>5, <1>6, <1>7 DEF IndexStep

\* A text stays where it is while its message does.
LEMMA HeldThere ==
    ASSUME HeldIn(cache, index), cache' = cache,
           \A i \in DOMAIN index : /\ i \in DOMAIN index'
                                   /\ index'[i].uid = index[i].uid /\ index'[i].place = index[i].place
    PROVE  HeldIn(cache', index')
BY DEF HeldIn

\* New numbers move no text: they are the old ones, or the texts go.
LEMMA HeldUnmoved ==
    ASSUME Shape, HeldIn(cache, index), Fresh, mpc = "uidl", NEW list,
           CacheAfter(Moved(index, list)),
           \A i \in DOMAIN index :
               /\ i \in DOMAIN index' /\ index'[i].uid = index[i].uid
               /\ index'[i].place \in {index[i].place, NumberIn(list, index[i].uid)}
               /\ index'[i].place # 0
    PROVE  cache' = Emptied \/ HeldIn(cache', index')
<1>1. CASE task = "none"
    BY <1>1 DEF Fresh, CacheAfter
<1>2. CASE task # "none"
    <2>1. task = "check"
        BY <1>2 DEF Shape, ReaderShape
    <2>2. CASE Moved(index, list)
        BY <2>1, <2>2 DEF CacheAfter
    <2>3. CASE ~Moved(index, list)
        <3>1. cache' = cache
            BY <2>3 DEF CacheAfter
        <3>2. \A i \in DOMAIN index : index'[i].place = index[i].place
            BY <2>3 DEF Moved
        <3>3. QED BY <3>1, <3>2, HeldThere
    <2>4. QED BY <2>2, <2>3
<1>3. QED BY <1>1, <1>2

\* What the list gives is a place.
LEMMA PlacePositive ==
    ASSUME CacheShape', NEW i \in DOMAIN index' PROVE index'[i].place # 0
BY DEF CacheShape, Place

\* A text is kept for the message whose it is.
LEMMA HeldNext ==
    ASSUME Shape, Letters, Numbers, CacheShape, CacheShape', Listed, HeldIn(cache, index), Fresh, IndexStep,
           [PopNext]_popVars
    PROVE  HeldIn(cache', index')
<1>1. CASE cache' = Emptied
    BY <1>1 DEF HeldIn, Emptied
<1>2. CASE Retrieve /\ index' = index
    <2>1. /\ pos \in DOMAIN index /\ This.place \in Place /\ This.uid \in Letter
          /\ cache' = [cache EXCEPT ![This.place] = This.uid]
        BY <1>2, TextFetched
    <2>2. This = index[pos]
        BY DEF This
    <2>3. cache \in [Place -> Letter \cup {None}]
        BY DEF CacheShape
    <2>4. ASSUME NEW p \in Place, cache'[p] # None
          PROVE  \E i \in DOMAIN index' : index'[i].place = p /\ index'[i].uid = cache'[p]
        <3>1. CASE p = This.place
            BY <1>2, <2>1, <2>2, <2>3, <3>1
        <3>2. CASE p # This.place
            <4>1. cache'[p] = cache[p]
                BY <2>1, <2>3, <3>2
            <4>2. QED BY <1>2, <2>4, <4>1 DEF HeldIn
        <3>3. QED BY <3>1, <3>2
    <2>5. QED BY <2>4 DEF HeldIn
<1>3. CASE cache' = cache
    <2>1. CASE index' = index
        BY <1>3, <2>1, HeldThere
    <2>2. CASE Reflagged(index, index')
        BY <1>3, <2>2, HeldThere DEF Reflagged
    <2>3. CASE (\E list : Renumbered(index, index', list)) /\ SamePlaces(index, index')
        BY <1>3, <2>3, HeldThere DEF Renumbered, SamePlaces
    <2>4. CASE /\ mpc = "uidl" /\ Serves /\ Fetched(index, index', session.list)
               /\ CacheAfter(Moved(index, session.list))
        <3>1. ASSUME NEW i \in DOMAIN index
              PROVE  /\ i \in DOMAIN index' /\ index'[i].uid = index[i].uid
                     /\ index'[i].place \in {index[i].place, NumberIn(session.list, index[i].uid)}
                     /\ index'[i].place # 0
            <4>1. i \in DOMAIN index' /\ index'[i].uid = index[i].uid
                BY <2>4 DEF Fetched
            <4>2. index'[i].place = NumberIn(session.list, index[i].uid)
                BY <2>4, <4>1, FetchedNumbers
            <4>3. QED BY <4>1, <4>2, PlacePositive
        <3>2. QED BY <1>1, <2>4, <3>1, HeldUnmoved
    <2>5. CASE mpc = "uidl" /\ \E list \in Seq(Letter) : /\ Renumbered(index, index', list)
                                                       /\ NewPlaces(index, index', list)
                                                       /\ CacheAfter(Moved(index, list))
        <3>1. PICK list \in Seq(Letter) : /\ Renumbered(index, index', list)
                                          /\ NewPlaces(index, index', list)
                                          /\ CacheAfter(Moved(index, list))
            BY <2>5
        <3>2. ASSUME NEW i \in DOMAIN index
              PROVE  /\ i \in DOMAIN index' /\ index'[i].uid = index[i].uid
                     /\ index'[i].place \in {index[i].place, NumberIn(list, index[i].uid)}
                     /\ index'[i].place # 0
            <4>1. i \in DOMAIN index' /\ index'[i].uid = index[i].uid
                BY <3>1 DEF Renumbered
            <4>2. index'[i].place \in {index[i].place, NumberIn(list, index[i].uid)}
                BY <3>1 DEF NewPlaces
            <4>3. QED BY <4>1, <4>2, PlacePositive
        <3>3. QED BY <1>1, <2>5, <3>1, <3>2, HeldUnmoved
    <2>6. QED BY <1>1, <2>1, <2>2, <2>3, <2>4, <2>5 DEF IndexStep
<1>4. QED BY <1>1, <1>2, <1>3, TextSteps

\* No text is kept before the mailbox is open.
LEMMA FreshNext ==
    ASSUME Shape, Fresh, [PopNext]_popVars
    PROVE  Fresh'
<1> SUFFICES ASSUME task' = "none", mpc' # "idle" PROVE cache' = Emptied
    BY DEF Fresh
<1>1. CASE Server \/ UNCHANGED popVars
    BY <1>1 DEF Server, GivesUp, Deliver, OthersRemove, popVars, mxVars, callVars, Fresh
<1>2. CASE Fetcher
    BY <1>2 DEF Fetcher, FetchMessage, Fetching, FetchNotStored, FetchDele, FetchDeleRefused, FetchReset, FetchEnds,
                FetchMail, FetchVars, Fresh, Shape, ReaderShape
<1>3. CASE Open \/ StillConnected \/ Reconnect \/ StartCheck \/ CheckLogout \/ CheckConnect
    BY <1>3 DEF Open, StillConnected, Reconnect, StartCheck, BeginCheck, CheckLogout, CheckConnect, Idle, callVars,
                Fresh, Shape, ReaderShape
<1>4. CASE ReconnectFails \/ FetchHeaders \/ UidlRefused
    BY <1>4 DEF ReconnectFails, FetchHeaders, UidlRefused, Shut, Idle
<1>5. CASE FetchBreaks
    <2>1. mpc = "uidl" /\ \E known : CacheAfter(Moved(index, known))
        BY <1>5 DEF FetchBreaks
    <2>2. task = "none"
        BY <1>5 DEF FetchBreaks, Again, Idle
    <2>3. QED BY <2>1, <2>2 DEF CacheAfter, Fresh
<1>6. CASE Retrieve \/ RetrieveLost \/ NotRetrieved \/ \E i \in DOMAIN index : Read(i)
    BY <1>6 DEF Retrieve, RetrieveLost, NotRetrieved, Read, Again, Idle, Shape, ReaderShape
<1>7. CASE User
    BY <1>7 DEF User, SetRead, SetDeleted, BeginSync, BeginClose, callVars, Fresh
<1>8. CASE Leave \/ Die
    BY <1>8 DEF Leave, Die, Shut
<1>9. CASE Saver
    BY <1>9 DEF Saver, StartSync, Dele, SkipMessage, SyncLost, DeleRefused, SyncEnds, SyncNotEnded,
                Again, NextMessage, SyncFails, Shut, Idle, At, Shape, ReaderShape
<1>10. QED BY <1>1, <1>2, <1>3, <1>4, <1>5, <1>6, <1>7, <1>8, <1>9 DEF PopNext, Reader

-----------------------------------------------------------------------------
(* Together *)

CacheInv == CacheShape /\ ReadInv

\* The texts, in every step.
LEMMA CacheNext ==
    ASSUME OwnMail, IsFiniteSet(Letter), Shape, Letters, Numbers, CacheInv, [PopNext]_popVars
    PROVE  CacheInv'
<1>1. ServerStep /\ IndexStep /\ Histories /\ world' = world
    BY ServerSteps, IndexSteps DEF Shape, ReaderShape, Letters, Histories
<1>2. CacheShape'
    BY CacheShapeNext DEF CacheInv
<1>3. ASSUME Reading PROVE Listed' /\ Kepts'
    <2>1. Listed /\ AtMost(index, box) /\ Apart(index) /\ HeldIn(cache, index) /\ Fresh /\ CacheShape
        BY <1>3 DEF CacheInv, ReadInv, Kepts
    <2>2. ~world.removes
        BY <1>3 DEF Shape, ServerShape, OwnMail, Reading
    <2>3. Listed'
        BY <1>3, <2>1, ListedNext
    <2>4. AtMost(index', box')
        BY <1>1, <2>1, <2>2, AtMostNext DEF Listed
    <2>5. Apart(index')
        BY <1>1, <2>1, ApartNext
    <2>6. HeldIn(cache', index')
        BY <1>1, <1>2, <2>1, HeldNext
    <2>7. Fresh'
        BY <2>1, FreshNext
    <2>8. QED BY <2>3, <2>4, <2>5, <2>6, <2>7 DEF Kepts
<1>4. Reading' <=> Reading
    BY <1>1 DEF Reading
<1>5. QED BY <1>2, <1>3, <1>4 DEF CacheInv, ReadInv

\* The places and the texts, always.
LEMMA CacheStaysRight ==
    ASSUME StatAnswered, OwnMail, IsFiniteSet(Letter) PROVE PopSpec => []CacheInv
<1>1. PopInit => CacheInv
    <2> SUFFICES ASSUME PopInit PROVE CacheInv
        OBVIOUS
    <2> USE DEF PopInit, MxInit
    <2>1. CacheShape
        BY DEF CacheShape, Emptied, NoSession
    <2>2. Listed
        BY DEF Listed, SavedMarks, Ordered, OwnDeleted, Present, NoSession
    <2>3. Kepts
        BY DEF Kepts, AtMost, Apart, HeldIn, Fresh, Emptied
    <2>4. QED BY <2>1, <2>2, <2>3 DEF CacheInv, ReadInv
<1>2. Shape /\ Letters /\ Numbers /\ CacheInv /\ [PopNext]_popVars => CacheInv'
    BY CacheNext
<1>3. QED BY <1>1, <1>2, PopTypes, NumbersStay, PTL DEF PopSpec

\* A text that is kept for the place of a message is its own, through any
\* number of sessions, for a reader who has the mailbox for himself and sees
\* every sync through (pop_msg_open(), pop_fetch_headers(), pop_mbox_sync()).
THEOREM TextIsOwn ==
    ASSUME StatAnswered, OwnMail, IsFiniteSet(Letter) PROVE PopSpec => []CacheIsOfMessage
<1>1. CacheInv => CacheIsOfMessage
    <2> SUFFICES ASSUME CacheInv, NEW i \in DOMAIN index
                 PROVE  cache[index[i].place] \in {None, index[i].uid}
        BY DEF CacheIsOfMessage
    <2>1. index[i].place \in Place
        BY DEF CacheInv, CacheShape
    <2>2. CASE ~Reading
        BY <2>1, <2>2 DEF CacheInv, CacheShape, Emptied
    <2>3. CASE Reading
        <3>1. Apart(index) /\ HeldIn(cache, index)
            BY <2>3 DEF CacheInv, ReadInv, Kepts
        <3>2. ASSUME cache[index[i].place] # None PROVE cache[index[i].place] = index[i].uid
            <4>1. PICK j \in DOMAIN index :
                      index[j].place = index[i].place /\ index[j].uid = cache[index[i].place]
                BY <2>1, <3>1, <3>2 DEF HeldIn
            <4>2. QED BY <3>1, <4>1 DEF Apart
        <3>3. QED BY <3>2
    <2>4. QED BY <2>2, <2>3
<1>2. QED BY <1>1, CacheStaysRight, PTL
=============================================================================
