-------------------------- MODULE ImapMailboxProofs --------------------------
(***************************************************************************)
(* That message numbers mean the same to the client and to the server, and *)
(* that the table, the numbers in the emails and the hash of UIDs agree.   *)
(*                                                                         *)
(* A line on the wire was true when the server wrote it: it speaks of the  *)
(* mailbox as the lines before it leave it.  Chain says so, for every line *)
(* that the client has not read, and so lets the client's step be compared *)
(* with the server's although others came between.  A number in the table  *)
(* is then kept right by applying each line to it (MatchInv).  That no     *)
(* message is there twice (Distinct) takes that UIDs rise (Rising).        *)
(*                                                                         *)
(* That is for removals reported by EXPUNGE, with no other condition on    *)
(* what the user, other clients or the server do.  VANISHED names a UID    *)
(* instead of a number; the table is moved only when it still has that UID *)
(* (see Vanished in MCImapMailbox).                                        *)
(*                                                                         *)
(* Then that what the user changes is not lost.  The client has one        *)
(* command out at a time (Shape, Turn); where no other client removes or   *)
(* flags anything, the index is purged only by the client's own sync, once *)
(* every change has been sent (Calm).                                      *)
(*                                                                         *)
(* And that what a sync sends is what the user sees, where moreover no     *)
(* STORE is refused (Obliging).  While a sync stores flags or ends, a flag *)
(* in which server and index differ is on its way: in the queue, in the    *)
(* STORE sent or served, or not worth sending since the message is about   *)
(* to be removed (OnItsWay); and no command in the queue says anything but *)
(* what the index shows (Right).  All else in SyncInv serves these two.    *)
(***************************************************************************)
EXTENDS ImapMailbox, ListsProofs, Integers

-----------------------------------------------------------------------------
(* Types.  A user who deletes nothing makes nothing deleted. *)

DeletedSet == IF "delete" \in world.user THEN BOOLEAN ELSE {FALSE}
FlagSet    == [deleted : DeletedSet, flag : BOOLEAN]
EmailSet   == [deleted : DeletedSet, flag : BOOLEAN, changed : BOOLEAN, active : BOOLEAN,
               gone : BOOLEAN, msn : Nat, remote : FlagSet]
CmdSet     == [flag : {"flag"} \cup (IF "delete" \in world.user THEN {"deleted"} ELSE {}),
               on : BOOLEAN, uids : SUBSET Uid]
RequestSet == [kind : {"none", "NOOP", "IDLE"}]
              \cup [kind : {"FETCH"}, begin : Nat, end : Nat]
              \cup [kind : {"UIDFETCH"}, uid : Uid]
              \cup [kind : {"STORE"}, cmds : Seq(CmdSet), expunge : BOOLEAN, res : {"OK", "NO"}]
LineSet    == [kind : {"EXISTS", "EXPUNGE", "VANISHED", "FETCH", "DATA", "tagged"}, n : Nat,
               flags : FlagSet, box : Seq(Uid), res : {"OK", "NO", "BAD"}]

WireTypes   == srv \in Seq(Uid) /\ told \in Seq(Uid) /\ wire \in Seq(LineSet)
FlagTypes   == /\ \E k \in 0 .. MaxUid : sflags \in [1 .. k -> FlagSet]
               /\ \A i \in DOMAIN srv : srv[i] \in DOMAIN sflags
CmdTypes    == serving \in RequestSet /\ req \in RequestSet /\ batch \in Seq(CmdSet)
IndexTypes  == DOMAIN index \subseteq Uid /\ index \in [DOMAIN index -> EmailSet]
TableTypes  == msn \in Seq(Uid \cup {Null})
CountTypes  == newCount \in Nat /\ fetch \in [begin : Nat, end : Nat, sent : Nat]

-----------------------------------------------------------------------------
(* The invariant *)

\* Line l tells of the mailbox after box.
Follows(box, l) ==
    /\ l.kind # "VANISHED"
    /\ l.kind = "EXISTS"  => \E u \in Uid : l.box = Append(box, u)
    /\ l.kind = "EXPUNGE" => l.n \in DOMAIN box /\ l.box = RemoveAt(box, l.n)
    /\ l.kind \in {"FETCH", "DATA", "tagged"} => l.box = box
    /\ l.kind = "DATA" => l.n \in DOMAIN box

BoxBefore(i) == IF i = 1 THEN told ELSE wire[i - 1].box
BoxAfter     == IF wire = <<>> THEN told ELSE wire[Len(wire)].box
Newest(l)    == l.box[Len(l.box)]

Chain == srv = BoxAfter /\ \A i \in DOMAIN wire : Follows(BoxBefore(i), wire[i])

\* Every message announced is newer than all that are known when it is read.
Rising ==
    \A i \in DOMAIN wire : wire[i].kind = "EXISTS" =>
        /\ Newest(wire[i]) \in DOMAIN sflags
        /\ \A p \in DOMAIN told : told[p] < Newest(wire[i])
        /\ \A j \in 1 .. i - 1 : wire[j].kind = "EXISTS" => Newest(wire[j]) < Newest(wire[i])
Known    == \A p \in DOMAIN told : told[p] \in DOMAIN sflags
Distinct == \A p, q \in DOMAIN told : told[p] = told[q] => p = q

\* uid_hash finds every email; what an index purged of deleted emails leaves
\* in it needs a user who deletes.
InHash == /\ DOMAIN index \subseteq hash
          /\ "delete" \notin world.user => hash = DOMAIN index

TypesInv == WireTypes /\ FlagTypes /\ CmdTypes /\ IndexTypes /\ TableTypes /\ CountTypes
BoxInv   == Chain /\ Rising /\ Known /\ Distinct
MatchInv == NumbersAgree /\ NumbersMatch /\ InHash
Inv      == world \in Scenarios /\ TypesInv /\ BoxInv /\ MatchInv

-----------------------------------------------------------------------------
(* Sequences, records *)

LEMMA Removal ==
    ASSUME NEW S, NEW s \in Seq(S), NEW i \in DOMAIN s
    PROVE  /\ RemoveAt(s, i) \in Seq(S)
           /\ Len(RemoveAt(s, i)) = Len(s) - 1
           /\ \A j \in 1 .. Len(s) - 1 :
                 RemoveAt(s, i)[j] = IF j < i THEN s[j] ELSE s[j + 1]
<1>1. PICK n \in Nat : n = Len(s)
  BY LenProperties
<1>2. DOMAIN s = 1 .. n /\ \A k \in 1 .. n : s[k] \in S
  BY <1>1, LenProperties, ElementOfSeq
<1>3. i \in Nat /\ 1 <= i /\ i <= n
  BY <1>2
<1> DEFINE a == SubSeq(s, 1, i - 1)
<1> DEFINE b == SubSeq(s, i + 1, n)
<1>4. /\ a \in Seq(S) /\ Len(a) = i - 1
      /\ \A j \in 1 .. i - 1 : a[j] = s[j]
  <2>1. \A k \in 1 .. i - 1 : s[k] \in S
    BY <1>2, <1>3
  <2>2. i - 1 \in Int /\ 1 \in Int /\ (i - 1) - 1 + 1 = i - 1 /\ \A j \in 1 .. i - 1 : 1 + j - 1 = j
    BY <1>3
  <2>3. /\ a \in Seq(S) /\ Len(a) = IF 1 <= i - 1 THEN (i - 1) - 1 + 1 ELSE 0
        /\ \A j \in 1 .. (i - 1) - 1 + 1 : a[j] = s[1 + j - 1]
    BY <2>1, <2>2, SubSeqProperties
  <2> HIDE DEF a
  <2>4. i = 1 \/ 1 <= i - 1
    BY <1>3
  <2> QED BY <1>3, <2>2, <2>3, <2>4
<1>5. /\ b \in Seq(S) /\ Len(b) = n - i
      /\ \A j \in 1 .. n - i : b[j] = s[i + j]
  <2>1. \A k \in i + 1 .. n : s[k] \in S
    BY <1>2, <1>3
  <2>2. i + 1 \in Int /\ n \in Int /\ n - (i + 1) + 1 = n - i
        /\ \A j \in 1 .. n - i : i + 1 + j - 1 = i + j
    BY <1>1, <1>3
  <2>3. /\ b \in Seq(S) /\ Len(b) = IF i + 1 <= n THEN n - (i + 1) + 1 ELSE 0
        /\ \A j \in 1 .. n - (i + 1) + 1 : b[j] = s[i + 1 + j - 1]
    BY <2>1, <2>2, SubSeqProperties
  <2> HIDE DEF b
  <2>4. i = n \/ i + 1 <= n
    BY <1>1, <1>3
  <2> QED BY <1>1, <1>3, <2>2, <2>3, <2>4
<1>6. RemoveAt(s, i) = a \o b
  BY <1>1 DEF RemoveAt
<1> HIDE DEF a, b
<1>7. /\ a \o b \in Seq(S) /\ Len(a \o b) = Len(a) + Len(b)
      /\ \A j \in 1 .. Len(a) + Len(b) : (a \o b)[j] = IF j <= Len(a) THEN a[j] ELSE b[j - Len(a)]
  BY <1>4, <1>5, ConcatProperties
<1>8. Len(a) + Len(b) = n - 1
  BY <1>1, <1>3, <1>4, <1>5
<1>9. ASSUME NEW j \in 1 .. n - 1
      PROVE  (a \o b)[j] = IF j < i THEN s[j] ELSE s[j + 1]
  <2>1. (a \o b)[j] = IF j <= i - 1 THEN a[j] ELSE b[j - (i - 1)]
    BY <1>4, <1>7, <1>8
  <2>2. j \in Nat /\ 1 <= j /\ j <= n - 1
    BY <1>1
  <2>3. CASE j < i
    <3>1. j <= i - 1 /\ j \in 1 .. i - 1
      BY <1>3, <2>2, <2>3
    <3> QED BY <1>4, <2>1, <2>3, <3>1
  <2>4. CASE ~(j < i)
    <3>1. ~(j <= i - 1) /\ j - (i - 1) \in 1 .. n - i /\ i + (j - (i - 1)) = j + 1
      BY <1>1, <1>3, <2>2, <2>4
    <3>2. b[j - (i - 1)] = s[i + (j - (i - 1))]
      BY <1>5, <3>1
    <3> QED BY <2>1, <2>4, <3>1, <3>2
  <2> QED BY <2>3, <2>4
<1> QED BY <1>1, <1>6, <1>7, <1>8, <1>9

LEMMA Appending ==
    ASSUME NEW S, NEW s \in Seq(S), NEW e \in S
    PROVE  /\ Append(s, e) \in Seq(S) /\ Append(s, e) # <<>>
           /\ Len(Append(s, e)) = Len(s) + 1
           /\ DOMAIN Append(s, e) = 1 .. Len(s) + 1
           /\ \A j \in 1 .. Len(s) : Append(s, e)[j] = s[j]
           /\ Append(s, e)[Len(s) + 1] = e
<1>1. PICK n \in Nat : n = Len(s) /\ DOMAIN s = 1 .. n
  BY LenProperties
<1> QED BY <1>1

LEMMA SameSets ==
    ASSUME world' = world
    PROVE  /\ FlagSet' = FlagSet /\ EmailSet' = EmailSet /\ CmdSet' = CmdSet
           /\ RequestSet' = RequestSet /\ LineSet' = LineSet
BY DEF DeletedSet, FlagSet, EmailSet, CmdSet, RequestSet, LineSet

LEMMA ClearIsFlags == Clear \in FlagSet
BY DEF Clear, FlagSet, DeletedSet

LEMMA PlainLine ==
    ASSUME NEW k \in {"EXISTS", "EXPUNGE", "VANISHED", "FETCH", "DATA"}, NEW n \in Nat,
           NEW f \in FlagSet, srv' \in Seq(Uid)
    PROVE  /\ Line(k, n, f) \in LineSet
           /\ Line(k, n, f).kind = k /\ Line(k, n, f).n = n /\ Line(k, n, f).box = srv'
BY DEF Line, LineSet

LEMMA TaggedLine ==
    ASSUME NEW r \in {"OK", "NO", "BAD"}, srv' \in Seq(Uid)
    PROVE  LET l == [Line("tagged", Null, Clear) EXCEPT !.res = r] IN
           l \in LineSet /\ l.kind = "tagged" /\ l.box = srv'
<1>1. Null \in Nat
  BY DEF Null
<1>2. Line("tagged", Null, Clear) \in LineSet
  BY <1>1, ClearIsFlags DEF Line, LineSet
<1> QED BY <1>2 DEF Line, LineSet

-----------------------------------------------------------------------------
(* What the server does *)

\* The server writes line l.
Sent(l) ==
    /\ wire' = Append(wire, l) /\ l.box = srv' /\ Follows(srv, l)
    /\ l.kind = "EXISTS" => /\ Newest(l) \in DOMAIN sflags'
                            /\ \A v \in DOMAIN sflags : v < Newest(l)

ServerEffect ==
    /\ world' = world /\ UNCHANGED ToClient
    /\ srv' \in Seq(Uid) /\ FlagTypes' /\ CmdTypes'
    /\ DOMAIN sflags \subseteq DOMAIN sflags'
    /\ \/ wire' = wire /\ srv' = srv
       \/ \E l \in LineSet : Sent(l)

LEMMA UidFacts == Uid \subseteq Nat /\ Null \notin Uid /\ Null = 0 /\ MaxUid \in Nat
BY MailboxAssumption DEF Uid, Null

LEMMA FlagTypesKept ==
    ASSUME FlagTypes, world' = world, sflags' = sflags,
           srv' = srv \/ \E i \in DOMAIN srv : srv' = RemoveAt(srv, i), srv \in Seq(Uid)
    PROVE  FlagTypes' /\ srv' \in Seq(Uid)
<1>1. FlagSet' = FlagSet
  BY SameSets
<1>2. CASE srv' = srv
  BY <1>1, <1>2 DEF FlagTypes
<1>3. CASE \E i \in DOMAIN srv : srv' = RemoveAt(srv, i)
  <2>1. PICK i \in DOMAIN srv : srv' = RemoveAt(srv, i)
    BY <1>3
  <2>2. PICK n \in Nat : n = Len(srv) /\ DOMAIN srv = 1 .. n
    BY LenProperties
  <2>3. /\ srv' \in Seq(Uid) /\ Len(srv') = n - 1
        /\ \A j \in 1 .. n - 1 : srv'[j] = IF j < i THEN srv[j] ELSE srv[j + 1]
    BY <2>1, <2>2, Removal
  <2>4. DOMAIN srv' = 1 .. n - 1
    BY <2>3, LenProperties
  <2>5. \A j \in DOMAIN srv' : srv'[j] \in DOMAIN sflags
    <3> TAKE j \in DOMAIN srv'
    <3>1. j \in DOMAIN srv /\ j + 1 \in DOMAIN srv
      BY <2>2, <2>4
    <3> QED BY <2>3, <2>4, <3>1 DEF FlagTypes
  <2> QED BY <1>1, <2>3, <2>5 DEF FlagTypes
<1> QED BY <1>2, <1>3

LEMMA TakeEffect == Inv /\ Take => ServerEffect
<1> SUFFICES ASSUME Inv, Take PROVE ServerEffect
  OBVIOUS
<1>1. /\ world' = world /\ srv' = srv /\ sflags' = sflags /\ wire' = wire /\ UNCHANGED ToClient
      /\ serving' = Taken(req) /\ req' = NoReq /\ batch' = batch
  BY DEF Take, ToClient
<1>2. RequestSet' = RequestSet /\ CmdSet' = CmdSet
  BY <1>1, SameSets
<1>3. NoReq \in RequestSet
  BY DEF NoReq, RequestSet
<1>4. Taken(req) \in RequestSet
  <2>1. req \in RequestSet /\ Len(srv) \in Nat
    BY LenProperties DEF Inv, TypesInv, CmdTypes, WireTypes
  <2>2. CASE req.kind = "FETCH" /\ world.range = "start" /\ req.end > Len(srv)
    <3>1. req \in [kind : {"FETCH"}, begin : Nat, end : Nat]
      BY <2>1, <2>2 DEF RequestSet
    <3>2. Taken(req) = [req EXCEPT !.end = Len(srv)]
      BY <2>2 DEF Taken
    <3> QED BY <2>1, <3>1, <3>2 DEF RequestSet
  <2>3. CASE ~(req.kind = "FETCH" /\ world.range = "start" /\ req.end > Len(srv))
    BY <2>1, <2>3 DEF Taken
  <2> QED BY <2>2, <2>3
<1>5. CmdTypes'
  BY <1>1, <1>2, <1>3, <1>4 DEF Inv, TypesInv, CmdTypes
<1>6. FlagTypes' /\ srv' \in Seq(Uid)
  BY <1>1, FlagTypesKept DEF Inv, TypesInv, WireTypes
<1> QED BY <1>1, <1>5, <1>6 DEF ServerEffect

LEMMA DeliverEffect == Inv /\ Deliver => ServerEffect
<1> SUFFICES ASSUME Inv, Deliver PROVE ServerEffect
  OBVIOUS
<1> DEFINE u == Cardinality(DOMAIN sflags) + 1
<1>1. /\ world' = world /\ UNCHANGED ToClient /\ batch' = batch
      /\ serving' = serving /\ req' = req
      /\ u \in Uid /\ srv' = Append(srv, u)
      /\ sflags' = [v \in DOMAIN sflags \cup {u} |-> IF v = u THEN Clear ELSE sflags[v]]
      /\ Say(Line("EXISTS", Len(srv'), Clear))
  BY DEF Deliver, ToClient
<1>2. /\ RequestSet' = RequestSet /\ CmdSet' = CmdSet /\ FlagSet' = FlagSet
  BY <1>1, SameSets
<1>3. CmdTypes'
  BY <1>1, <1>2 DEF Inv, TypesInv, CmdTypes
<1>4. PICK k \in 0 .. MaxUid : sflags \in [1 .. k -> FlagSet]
  BY DEF Inv, TypesInv, FlagTypes
<1>5. k \in Nat /\ Cardinality(1 .. k) = k
  <2>1. k \in Nat
    BY <1>4, UidFacts
  <2> QED BY <2>1, FS_Interval
<1>6. DOMAIN sflags = 1 .. k /\ u = k + 1
  BY <1>4, <1>5
<1> HIDE DEF u
<1>7. k + 1 \in 0 .. MaxUid
  BY <1>1, <1>6 DEF Uid
<1>8. sflags' \in [1 .. k + 1 -> FlagSet]
  BY <1>1, <1>4, <1>5, <1>6, ClearIsFlags
<1>9. srv \in Seq(Uid) /\ \A i \in DOMAIN srv : srv[i] \in DOMAIN sflags
  BY DEF Inv, TypesInv, WireTypes, FlagTypes
<1>10. /\ srv' \in Seq(Uid) /\ Len(srv') = Len(srv) + 1 /\ DOMAIN srv' = 1 .. Len(srv) + 1
       /\ \A j \in 1 .. Len(srv) : srv'[j] = srv[j]
       /\ srv'[Len(srv) + 1] = u
  BY <1>1, <1>9, Appending
<1>11. Len(srv) \in Nat /\ DOMAIN srv = 1 .. Len(srv)
  BY <1>9, LenProperties
<1>12. FlagTypes'
  <2>1. \A i \in DOMAIN srv' : srv'[i] \in DOMAIN sflags'
    <3> TAKE i \in DOMAIN srv'
    <3>1. DOMAIN sflags' = DOMAIN sflags \cup {u}
      BY <1>1
    <3>2. i \in DOMAIN srv \/ i = Len(srv) + 1
      BY <1>10, <1>11
    <3> QED BY <1>9, <1>10, <1>11, <3>1, <3>2
  <2> QED BY <1>2, <1>7, <1>8, <2>1 DEF FlagTypes
<1> DEFINE l == Line("EXISTS", Len(srv'), Clear)
<1>13. l \in LineSet /\ l.kind = "EXISTS" /\ l.box = srv'
  <2>1. Len(srv') \in Nat
    BY <1>10, <1>11
  <2> QED BY <1>10, <2>1, ClearIsFlags, PlainLine
<1>14. wire' = Append(wire, l)
  BY <1>1 DEF Say
<1> HIDE DEF l
<1>15. Follows(srv, l)
  BY <1>1, <1>13 DEF Follows
<1>16. Newest(l) = u
  BY <1>10, <1>13 DEF Newest
<1>17. u \in DOMAIN sflags' /\ \A v \in DOMAIN sflags : v < u
  BY <1>1, <1>5, <1>6
<1>18. Sent(l)
  BY <1>13, <1>14, <1>15, <1>16, <1>17 DEF Sent
<1>19. DOMAIN sflags \subseteq DOMAIN sflags'
  BY <1>1
<1> QED BY <1>1, <1>3, <1>10, <1>12, <1>13, <1>18, <1>19 DEF ServerEffect

LEMMA RemovedEffect ==
    ASSUME Inv, world.push = "EXPUNGE", world' = world, UNCHANGED ToClient,
           sflags' = sflags, serving' = serving, req' = req,
           \E i \in DOMAIN srv : Removed(i)
    PROVE  ServerEffect
<1>1. PICK i \in DOMAIN srv : Removed(i)
  OBVIOUS
<1>2. srv \in Seq(Uid)
  BY DEF Inv, TypesInv, WireTypes
<1>3. srv' = RemoveAt(srv, i) /\ Say(Line("EXPUNGE", i, Clear))
  BY <1>1 DEF Removed
<1>4. FlagTypes' /\ srv' \in Seq(Uid)
  BY <1>2, <1>3, FlagTypesKept DEF Inv, TypesInv
<1>5. RequestSet' = RequestSet /\ CmdSet' = CmdSet /\ batch' = batch
  BY SameSets DEF ToClient
<1>6. CmdTypes'
  BY <1>5 DEF Inv, TypesInv, CmdTypes
<1> DEFINE l == Line("EXPUNGE", i, Clear)
<1>7. i \in Nat
  BY <1>2, LenProperties
<1>8. l \in LineSet /\ l.kind = "EXPUNGE" /\ l.n = i /\ l.box = srv'
  BY <1>4, <1>7, ClearIsFlags, PlainLine
<1>9. wire' = Append(wire, l)
  BY <1>3 DEF Say
<1> HIDE DEF l
<1>10. Follows(srv, l)
  BY <1>3, <1>8 DEF Follows
<1>11. Sent(l)
  BY <1>8, <1>9, <1>10 DEF Sent
<1> QED BY <1>4, <1>6, <1>8, <1>11 DEF ServerEffect

LEMMA OthersExpungeEffect == Inv /\ world.push = "EXPUNGE" /\ OthersExpunge => ServerEffect
<1> SUFFICES ASSUME Inv, world.push = "EXPUNGE", OthersExpunge PROVE ServerEffect
  OBVIOUS
<1>1. /\ world' = world /\ UNCHANGED ToClient /\ sflags' = sflags
      /\ serving' = serving /\ req' = req
      /\ \E i \in DOMAIN srv : Removed(i)
  BY DEF OthersExpunge
<1> QED BY <1>1, RemovedEffect

LEMMA AnswerExpungeEffect == Inv /\ world.push = "EXPUNGE" /\ AnswerExpunge => ServerEffect
<1> SUFFICES ASSUME Inv, world.push = "EXPUNGE", AnswerExpunge PROVE ServerEffect
  OBVIOUS
<1>1. /\ world' = world /\ UNCHANGED ToClient /\ sflags' = sflags
      /\ serving' = serving /\ req' = req
      /\ \E i \in DOMAIN srv : Removed(i)
  BY DEF AnswerExpunge
<1> QED BY <1>1, RemovedEffect

\* A line that tells of nothing but flags, or of the end of a command.
LEMMA SameBoxEffect ==
    ASSUME Inv, world' = world, UNCHANGED ToClient, srv' = srv, FlagTypes',
           DOMAIN sflags \subseteq DOMAIN sflags', CmdTypes',
           NEW l \in LineSet, wire' = Append(wire, l), l.kind \in {"FETCH", "DATA", "tagged"},
           l.kind = "DATA" => l.n \in DOMAIN srv, l.box = srv'
    PROVE  ServerEffect
<1>1. srv' \in Seq(Uid)
  BY DEF Inv, TypesInv, WireTypes
<1>2. Sent(l)
  BY DEF Sent, Follows
<1> QED BY <1>1, <1>2 DEF ServerEffect

LEMMA FlagChange ==
    ASSUME NEW f \in FlagSet, NEW b \in BOOLEAN
    PROVE  [f EXCEPT !.flag = b] \in FlagSet
BY DEF FlagSet

LEMMA OthersFlagEffect == Inv /\ OthersFlag => ServerEffect
<1> SUFFICES ASSUME Inv, OthersFlag PROVE ServerEffect
  OBVIOUS
<1>1. PICK i \in DOMAIN srv :
          /\ sflags' = [sflags EXCEPT ![srv[i]].flag = ~@]
          /\ srv' = srv /\ Say(Line("FETCH", i, sflags'[srv[i]]))
  BY DEF OthersFlag
<1>2. /\ world' = world /\ UNCHANGED ToClient /\ batch' = batch
      /\ serving' = serving /\ req' = req
  BY DEF OthersFlag, ToClient
<1>3. RequestSet' = RequestSet /\ CmdSet' = CmdSet /\ FlagSet' = FlagSet
  BY <1>2, SameSets
<1>4. CmdTypes'
  BY <1>2, <1>3 DEF Inv, TypesInv, CmdTypes
<1>5. PICK k \in 0 .. MaxUid : sflags \in [1 .. k -> FlagSet]
  BY DEF Inv, TypesInv, FlagTypes
<1>6. srv \in Seq(Uid) /\ i \in Nat /\ srv[i] \in 1 .. k
  <2>1. srv \in Seq(Uid) /\ srv[i] \in DOMAIN sflags
    BY DEF Inv, TypesInv, WireTypes, FlagTypes
  <2> QED BY <1>5, <2>1, LenProperties
<1>7. PICK f : f = [sflags[srv[i]] EXCEPT !.flag = ~@] /\ f \in FlagSet
  <2>1. sflags[srv[i]] \in FlagSet
    BY <1>5, <1>6
  <2>2. (~sflags[srv[i]].flag) \in BOOLEAN
    OBVIOUS
  <2> QED BY <2>1, <2>2, FlagChange
<1>8. sflags' = [sflags EXCEPT ![srv[i]] = f]
  BY <1>1, <1>7
<1>9. sflags' \in [1 .. k -> FlagSet] /\ sflags'[srv[i]] = f
  BY <1>5, <1>6, <1>7, <1>8
<1>10. DOMAIN sflags' = DOMAIN sflags
  BY <1>8
<1>11. FlagTypes'
  BY <1>1, <1>3, <1>9, <1>10 DEF Inv, TypesInv, FlagTypes
<1> DEFINE l == Line("FETCH", i, f)
<1>12. l \in LineSet /\ l.kind = "FETCH" /\ l.box = srv'
  BY <1>1, <1>6, <1>7, PlainLine
<1>13. wire' = Append(wire, l)
  BY <1>1, <1>9 DEF Say
<1> HIDE DEF l
<1> QED BY <1>1, <1>2, <1>4, <1>10, <1>11, <1>12, <1>13, SameBoxEffect

LEMMA TaggedEffect ==
    ASSUME Inv, world' = world, UNCHANGED ToClient, sflags' = sflags, req' = req,
           NEW r \in {"OK", "NO", "BAD"}, Tagged(r)
    PROVE  ServerEffect
<1>1. /\ srv' = srv /\ serving' = NoReq /\ batch' = batch
      /\ Say([Line("tagged", Null, Clear) EXCEPT !.res = r])
  BY DEF Tagged, ToClient
<1>2. RequestSet' = RequestSet /\ CmdSet' = CmdSet
  BY SameSets
<1>3. NoReq \in RequestSet
  BY DEF NoReq, RequestSet
<1>4. CmdTypes'
  BY <1>1, <1>2, <1>3 DEF Inv, TypesInv, CmdTypes
<1>5. FlagTypes' /\ srv' \in Seq(Uid)
  BY <1>1, FlagTypesKept DEF Inv, TypesInv, WireTypes
<1> DEFINE l == [Line("tagged", Null, Clear) EXCEPT !.res = r]
<1>6. l \in LineSet /\ l.kind = "tagged" /\ l.box = srv'
  BY <1>5, TaggedLine
<1>7. wire' = Append(wire, l)
  BY <1>1 DEF Say
<1> HIDE DEF l
<1> QED BY <1>1, <1>4, <1>5, <1>6, <1>7, SameBoxEffect

LEMMA AnswerPlainEffect == Inv /\ AnswerPlain => ServerEffect
<1> SUFFICES ASSUME Inv, AnswerPlain PROVE ServerEffect
  OBVIOUS
<1>1. PICK r \in {"OK", "NO"} : Tagged(r)
  BY DEF AnswerPlain
<1>2. world' = world /\ UNCHANGED ToClient /\ sflags' = sflags /\ req' = req
  BY DEF AnswerPlain
<1> QED BY <1>1, <1>2, TaggedEffect

LEMMA StoreRequest ==
    ASSUME serving \in RequestSet, serving.kind = "STORE"
    PROVE  /\ serving \in [kind : {"STORE"}, cmds : Seq(CmdSet), expunge : BOOLEAN, res : {"OK", "NO"}]
           /\ serving.cmds \in Seq(CmdSet) /\ serving.res \in {"OK", "NO"}
BY DEF RequestSet

LEMMA AnswerBatchEffect == Inv /\ AnswerBatch => ServerEffect
<1> SUFFICES ASSUME Inv, AnswerBatch PROVE ServerEffect
  OBVIOUS
<1>1. serving.res \in {"OK", "NO"}
  BY StoreRequest DEF AnswerBatch, Serving, Inv, TypesInv, CmdTypes
<1>2. PICK r \in {"OK", "NO"} : Tagged(r)
  BY <1>1 DEF AnswerBatch
<1>3. world' = world /\ UNCHANGED ToClient /\ sflags' = sflags /\ req' = req
  BY DEF AnswerBatch
<1> QED BY <1>2, <1>3, TaggedEffect

LEMMA AnswerFetchEffect == Inv /\ AnswerFetch => ServerEffect
<1> SUFFICES ASSUME Inv, AnswerFetch PROVE ServerEffect
  OBVIOUS
<1>1. world' = world /\ UNCHANGED ToClient /\ sflags' = sflags /\ req' = req /\ batch' = batch
  BY DEF AnswerFetch, ToClient
<1>2. serving \in RequestSet /\ serving.kind = "FETCH" /\ srv \in Seq(Uid)
  BY DEF AnswerFetch, Serving, Inv, TypesInv, CmdTypes, WireTypes
<1>3. CASE /\ serving.begin \in DOMAIN srv
           /\ srv' = srv
           /\ Say(Line("DATA", serving.begin, sflags[srv[serving.begin]]))
           /\ serving' = [serving EXCEPT !.begin = @ + 1]
  <2>1. serving \in [kind : {"FETCH"}, begin : Nat, end : Nat]
    BY <1>2 DEF RequestSet
  <2>2. serving' \in RequestSet
    BY <1>3, <2>1 DEF RequestSet
  <2>3. CmdTypes'
    BY <1>1, <2>2, SameSets DEF Inv, TypesInv, CmdTypes
  <2>4. FlagTypes'
    BY <1>1, <1>2, <1>3, FlagTypesKept DEF Inv, TypesInv
  <2> DEFINE f == sflags[srv[serving.begin]]
  <2>5. f \in FlagSet
    <3>1. PICK k \in 0 .. MaxUid : sflags \in [1 .. k -> FlagSet]
      BY DEF Inv, TypesInv, FlagTypes
    <3>2. srv[serving.begin] \in DOMAIN sflags
      BY <1>3 DEF Inv, TypesInv, FlagTypes
    <3> QED BY <3>1, <3>2
  <2> DEFINE l == Line("DATA", serving.begin, f)
  <2>6. l \in LineSet /\ l.kind = "DATA" /\ l.n = serving.begin /\ l.box = srv'
    <3>1. serving.begin \in Nat /\ srv' \in Seq(Uid)
      BY <1>2, <1>3, <2>1
    <3> HIDE DEF f
    <3> QED BY <2>5, <3>1, PlainLine
  <2>7. wire' = Append(wire, l)
    BY <1>3 DEF Say
  <2> HIDE DEF l
  <2> QED BY <1>1, <1>3, <2>3, <2>4, <2>6, <2>7, SameBoxEffect
<1>4. CASE \E r \in {"OK", "BAD"} : Tagged(r)
  BY <1>1, <1>4, TaggedEffect
<1> QED BY <1>3, <1>4 DEF AnswerFetch

LEMMA DeletedKind ==
    ASSUME NEW c \in CmdSet
    PROVE  c.on \in BOOLEAN /\ \/ c.flag = "flag"
                               \/ c.flag = "deleted" /\ DeletedSet = BOOLEAN
BY DEF CmdSet, DeletedSet

LEMMA StoreFlag ==
    ASSUME NEW c \in CmdSet, NEW f \in FlagSet
    PROVE  [f EXCEPT ![c.flag] = c.on] \in FlagSet
<1>1. CASE c.flag = "flag"
  BY <1>1, DeletedKind DEF FlagSet
<1>2. CASE c.flag = "deleted" /\ DeletedSet = BOOLEAN
  BY <1>2, DeletedKind DEF FlagSet
<1> QED BY <1>1, <1>2, DeletedKind

LEMMA AnswerStoreEffect == Inv /\ AnswerStore => ServerEffect
<1> SUFFICES ASSUME Inv, AnswerStore PROVE ServerEffect
  OBVIOUS
<1>1. /\ world' = world /\ UNCHANGED ToClient /\ req' = req /\ batch' = batch
      /\ srv' = srv /\ wire' = wire /\ serving.kind = "STORE" /\ serving.cmds # <<>>
  BY DEF AnswerStore, Serving, ToClient
<1> DEFINE c == Head(serving.cmds)
<1>2. serving \in [kind : {"STORE"}, cmds : Seq(CmdSet), expunge : BOOLEAN, res : {"OK", "NO"}]
  BY <1>1, StoreRequest DEF Inv, TypesInv, CmdTypes
<1>3. c \in CmdSet /\ Tail(serving.cmds) \in Seq(CmdSet)
  BY <1>1, <1>2, HeadTailProperties
<1> HIDE DEF c
<1>4. PICK ok \in BOOLEAN :
          /\ sflags' = IF ok
                       THEN [u \in DOMAIN sflags |->
                                IF u \in c.uids THEN [sflags[u] EXCEPT ![c.flag] = c.on]
                                                ELSE sflags[u]]
                       ELSE sflags
          /\ serving' = [serving EXCEPT !.cmds = Tail(@), !.res = IF ok THEN "OK" ELSE "NO"]
  BY DEF AnswerStore, c
<1>5. serving' \in [kind : {"STORE"}, cmds : Seq(CmdSet), expunge : BOOLEAN, res : {"OK", "NO"}]
  <2>1. PICK r \in {"OK", "NO"} : r = IF ok THEN "OK" ELSE "NO"
    OBVIOUS
  <2>2. serving' = [serving EXCEPT !.cmds = Tail(serving.cmds), !.res = r]
    BY <1>4, <2>1
  <2> QED BY <1>2, <1>3, <2>2
<1>6. CmdTypes'
  <2>1. serving' \in RequestSet
    BY <1>5 DEF RequestSet
  <2> QED BY <1>1, <2>1, SameSets DEF Inv, TypesInv, CmdTypes
<1>7. PICK k \in 0 .. MaxUid : sflags \in [1 .. k -> FlagSet]
  BY DEF Inv, TypesInv, FlagTypes
<1>8. \A u \in 1 .. k : /\ sflags[u] \in FlagSet
                        /\ [sflags[u] EXCEPT ![c.flag] = c.on] \in FlagSet
  BY <1>3, <1>7, StoreFlag
<1>9. sflags' \in [1 .. k -> FlagSet]
  <2>1. CASE ~ok
    BY <1>4, <1>7, <2>1
  <2>2. CASE ok
    <3> DEFINE g(u) == [sflags[u] EXCEPT ![c.flag] = c.on]
    <3>1. sflags' = [u \in 1 .. k |-> IF u \in c.uids THEN g(u) ELSE sflags[u]]
      BY <1>4, <1>7, <2>2
    <3>2. \A u \in 1 .. k : g(u) \in FlagSet
      BY <1>8
    <3> HIDE DEF g
    <3> QED BY <1>8, <3>1, <3>2
  <2> QED BY <2>1, <2>2
<1>10. DOMAIN sflags' = DOMAIN sflags
  BY <1>7, <1>9
<1>11. FlagTypes'
  BY <1>1, <1>9, <1>10, SameSets DEF Inv, TypesInv, FlagTypes
<1>12. srv' \in Seq(Uid)
  BY <1>1 DEF Inv, TypesInv, WireTypes
<1> QED BY <1>1, <1>6, <1>10, <1>11, <1>12 DEF ServerEffect

LEMMA ServerStep == Inv /\ world.push = "EXPUNGE" /\ Server => ServerEffect
BY TakeEffect, DeliverEffect, OthersExpungeEffect, OthersFlagEffect, AnswerPlainEffect,
   AnswerFetchEffect, AnswerStoreEffect, AnswerExpungeEffect, AnswerBatchEffect DEF Server

-----------------------------------------------------------------------------
(* The lines on the wire, when one is written and when one is read *)

LEMMA WireFacts ==
    ASSUME Inv
    PROVE  \E n \in Nat :
              /\ n = Len(wire) /\ DOMAIN wire = 1 .. n /\ \A i \in 1 .. n : wire[i] \in LineSet
              /\ n = 0 <=> wire = <<>>
<1>1. wire \in Seq(LineSet)
  BY DEF Inv, TypesInv, WireTypes
<1>2. PICK n \in Nat : n = Len(wire) /\ DOMAIN wire = 1 .. n
  BY <1>1, LenProperties
<1>3. \A i \in 1 .. n : wire[i] \in LineSet
  BY <1>1, <1>2, ElementOfSeq
<1>4. n = 0 <=> wire = <<>>
  BY <1>1, <1>2, EmptySeq
<1> QED BY <1>2, <1>3, <1>4

LEMMA ServerKeepsBoxes == Inv /\ ServerEffect => WireTypes' /\ BoxInv'
<1> SUFFICES ASSUME Inv, ServerEffect PROVE WireTypes' /\ BoxInv'
  OBVIOUS
<1>1. /\ world' = world /\ told' = told /\ srv' \in Seq(Uid)
      /\ DOMAIN sflags \subseteq DOMAIN sflags'
  BY DEF ServerEffect, ToClient
<1>2. /\ told \in Seq(Uid) /\ srv \in Seq(Uid) /\ wire \in Seq(LineSet) /\ LineSet' = LineSet
      /\ Chain /\ Rising /\ Known /\ Distinct
  BY <1>1, SameSets DEF Inv, TypesInv, WireTypes, BoxInv
<1>3. Known' /\ Distinct'
  BY <1>1, <1>2 DEF Known, Distinct
<1>4. CASE wire' = wire /\ srv' = srv
  <2>1. Chain'
    BY <1>1, <1>2, <1>4 DEF Chain, BoxAfter, BoxBefore
  <2>2. Rising'
    BY <1>1, <1>2, <1>4 DEF Rising
  <2> QED BY <1>1, <1>2, <1>3, <1>4, <2>1, <2>2 DEF WireTypes, BoxInv
<1>5. CASE \E l \in LineSet : Sent(l)
  <2>1. PICK l \in LineSet : Sent(l)
    BY <1>5
  <2>2. /\ wire' = Append(wire, l) /\ l.box = srv' /\ Follows(srv, l)
        /\ l.kind = "EXISTS" => /\ Newest(l) \in DOMAIN sflags'
                                /\ \A v \in DOMAIN sflags : v < Newest(l)
    BY <2>1 DEF Sent
  <2>3. PICK n \in Nat : /\ n = Len(wire) /\ DOMAIN wire = 1 .. n
                         /\ n = 0 <=> wire = <<>>
    BY WireFacts
  <2>4. /\ wire' \in Seq(LineSet) /\ wire' # <<>> /\ Len(wire') = n + 1
        /\ DOMAIN wire' = 1 .. n + 1
        /\ \A j \in 1 .. n : wire'[j] = wire[j]
        /\ wire'[n + 1] = l
    BY <1>2, <2>2, <2>3, Appending
  <2>5. BoxAfter' = srv'
    BY <2>2, <2>4 DEF BoxAfter
  <2>6. \A i \in 1 .. n + 1 : Follows(BoxBefore(i)', wire'[i])
    <3> TAKE i \in 1 .. n + 1
    <3>1. CASE i \in 1 .. n
      <4>1. i = 1 \/ i - 1 \in 1 .. n
        BY <3>1
      <4>2. BoxBefore(i)' = BoxBefore(i)
        BY <1>1, <2>4, <4>1 DEF BoxBefore
      <4>3. Follows(BoxBefore(i), wire[i])
        BY <1>2, <2>3, <3>1 DEF Chain
      <4> QED BY <2>4, <3>1, <4>2, <4>3
    <3>2. CASE i = n + 1
      <4>1. CASE n = 0
        <5>1. i = 1 /\ BoxAfter = told
          BY <2>3, <3>2, <4>1 DEF BoxAfter
        <5>2. BoxBefore(i)' = told
          BY <1>1, <5>1 DEF BoxBefore
        <5> QED BY <1>2, <2>2, <2>4, <3>2, <5>1, <5>2 DEF Chain
      <4>2. CASE n # 0
        <5>1. i # 1 /\ i - 1 = n /\ n \in 1 .. n /\ BoxAfter = wire[n].box
          BY <2>3, <3>2, <4>2 DEF BoxAfter
        <5>2. BoxBefore(i)' = wire[n].box
          BY <2>4, <5>1 DEF BoxBefore
        <5> QED BY <1>2, <2>2, <2>4, <3>2, <5>1, <5>2 DEF Chain
      <4> QED BY <4>1, <4>2
    <3> QED BY <3>1, <3>2
  <2>7. Chain'
    BY <2>4, <2>5, <2>6 DEF Chain
  <2>8. ASSUME NEW i \in 1 .. n + 1, wire'[i].kind = "EXISTS"
        PROVE  /\ Newest(wire'[i]) \in DOMAIN sflags'
               /\ \A p \in DOMAIN told : told[p] < Newest(wire'[i])
               /\ \A j \in 1 .. i - 1 : wire'[j].kind = "EXISTS" => Newest(wire'[j]) < Newest(wire'[i])
    <3>1. CASE i \in 1 .. n
      <4>1. \A j \in 1 .. i - 1 : j \in 1 .. n
        BY <3>1
      <4> QED BY <1>1, <1>2, <2>3, <2>4, <2>8, <3>1, <4>1 DEF Rising
    <3>2. CASE i = n + 1
      <4>1. \A j \in 1 .. i - 1 : j \in 1 .. n /\ j \in DOMAIN wire
        BY <2>3, <3>2
      <4>2. \A v \in DOMAIN sflags : v < Newest(l)
        BY <2>2, <2>4, <2>8, <3>2
      <4>3. \A j \in 1 .. i - 1 : wire'[j].kind = "EXISTS" => Newest(wire'[j]) \in DOMAIN sflags
        BY <1>2, <2>4, <4>1 DEF Rising
      <4>4. \A p \in DOMAIN told : told[p] \in DOMAIN sflags
        BY <1>2 DEF Known
      <4> QED BY <2>2, <2>4, <2>8, <3>2, <4>2, <4>3, <4>4
    <3> QED BY <3>1, <3>2
  <2>9. Rising'
    BY <1>1, <2>4, <2>8 DEF Rising
  <2> QED BY <1>1, <1>2, <1>3, <2>4, <2>7, <2>9 DEF WireTypes, BoxInv
<1> QED BY <1>4, <1>5 DEF ServerEffect

LEMMA FollowsElements ==
    ASSUME NEW box \in Seq(Uid), NEW l \in LineSet, Follows(box, l)
    PROVE  \A p \in DOMAIN l.box :
              \/ \E q \in DOMAIN box : l.box[p] = box[q]
              \/ l.kind = "EXISTS" /\ l.box[p] = Newest(l)
<1>1. PICK n \in Nat : n = Len(box) /\ DOMAIN box = 1 .. n
  BY LenProperties
<1>2. CASE l.kind = "EXISTS"
  <2>1. PICK u \in Uid : l.box = Append(box, u)
    BY <1>2 DEF Follows
  <2>2. /\ Len(l.box) = n + 1 /\ DOMAIN l.box = 1 .. n + 1
        /\ \A j \in 1 .. n : l.box[j] = box[j]
        /\ l.box[n + 1] = u
    BY <1>1, <2>1, Appending
  <2> TAKE p \in DOMAIN l.box
  <2>3. p \in 1 .. n \/ p = n + 1
    BY <2>2
  <2> QED BY <1>1, <1>2, <2>2, <2>3 DEF Newest
<1>3. CASE l.kind = "EXPUNGE"
  <2>1. l.n \in DOMAIN box /\ l.box = RemoveAt(box, l.n)
    BY <1>3 DEF Follows
  <2>2. /\ l.box \in Seq(Uid) /\ Len(l.box) = n - 1
        /\ \A j \in 1 .. n - 1 : l.box[j] = IF j < l.n THEN box[j] ELSE box[j + 1]
    BY <1>1, <2>1, Removal
  <2>3. DOMAIN l.box = 1 .. n - 1
    BY <2>2, LenProperties
  <2> TAKE p \in DOMAIN l.box
  <2>4. p \in 1 .. n /\ p + 1 \in 1 .. n
    BY <2>3
  <2> QED BY <1>1, <2>2, <2>3, <2>4
<1>4. CASE l.kind \in {"FETCH", "DATA", "tagged"}
  BY <1>4 DEF Follows
<1>5. l.kind \in {"EXISTS", "EXPUNGE", "VANISHED", "FETCH", "DATA", "tagged"}
  BY DEF LineSet
<1> QED BY <1>2, <1>3, <1>4, <1>5 DEF Follows

LEMMA FollowsDistinct ==
    ASSUME NEW box \in Seq(Uid), NEW l \in LineSet, Follows(box, l),
           \A p, q \in DOMAIN box : box[p] = box[q] => p = q,
           l.kind = "EXISTS" => \A p \in DOMAIN box : box[p] < Newest(l)
    PROVE  \A p, q \in DOMAIN l.box : l.box[p] = l.box[q] => p = q
<1>1. PICK n \in Nat : n = Len(box) /\ DOMAIN box = 1 .. n
  BY LenProperties
<1>2. CASE l.kind = "EXISTS"
  <2>1. PICK u \in Uid : l.box = Append(box, u)
    BY <1>2 DEF Follows
  <2>2. /\ Len(l.box) = n + 1 /\ DOMAIN l.box = 1 .. n + 1
        /\ \A j \in 1 .. n : l.box[j] = box[j]
        /\ l.box[n + 1] = u
    BY <1>1, <2>1, Appending
  <2>3. \A p \in 1 .. n : box[p] # u
    <3>1. Newest(l) = u
      BY <2>2 DEF Newest
    <3>2. \A p \in 1 .. n : box[p] < u /\ box[p] \in Nat
      BY <1>1, <1>2, <3>1, ElementOfSeq, UidFacts
    <3>3. u \in Nat
      BY UidFacts
    <3> QED BY <3>2, <3>3
  <2> TAKE p, q \in DOMAIN l.box
  <2> HAVE l.box[p] = l.box[q]
  <2>4. (p \in 1 .. n \/ p = n + 1) /\ (q \in 1 .. n \/ q = n + 1)
    BY <2>2
  <2> QED BY <1>1, <2>2, <2>3, <2>4
<1>3. CASE l.kind = "EXPUNGE"
  <2>1. l.n \in DOMAIN box /\ l.box = RemoveAt(box, l.n) /\ l.n \in 1 .. n
    BY <1>1, <1>3 DEF Follows
  <2>2. /\ l.box \in Seq(Uid) /\ Len(l.box) = n - 1
        /\ \A j \in 1 .. n - 1 : l.box[j] = IF j < l.n THEN box[j] ELSE box[j + 1]
    <3>1. PICK i \in DOMAIN box : i = l.n
      BY <2>1
    <3>2. /\ RemoveAt(box, i) \in Seq(Uid) /\ Len(RemoveAt(box, i)) = Len(box) - 1
          /\ \A j \in 1 .. Len(box) - 1 :
                RemoveAt(box, i)[j] = IF j < i THEN box[j] ELSE box[j + 1]
      BY Removal
    <3> QED BY <1>1, <2>1, <3>1, <3>2
  <2>3. DOMAIN l.box = 1 .. n - 1
    BY <2>2, LenProperties
  <2> TAKE p, q \in DOMAIN l.box
  <2> HAVE l.box[p] = l.box[q]
  <2> DEFINE o(j) == IF j < l.n THEN j ELSE j + 1
  <2>4. o(p) \in 1 .. n /\ o(q) \in 1 .. n
    BY <2>1, <2>3
  <2>5. l.box[p] = box[o(p)] /\ l.box[q] = box[o(q)]
    BY <2>2, <2>3
  <2>6. o(p) = o(q)
    <3> HIDE DEF o
    <3> QED BY <1>1, <2>4, <2>5
  <2> QED BY <2>1, <2>3, <2>6
<1>4. CASE l.kind \in {"FETCH", "DATA", "tagged"}
  BY <1>4 DEF Follows
<1>5. l.kind \in {"EXISTS", "EXPUNGE", "VANISHED", "FETCH", "DATA", "tagged"}
  BY DEF LineSet
<1> QED BY <1>2, <1>3, <1>4, <1>5 DEF Follows

LEMMA ReadingKeepsBoxes ==
    ASSUME Inv, world' = world, srv' = srv, sflags' = sflags,
           wire # <<>>, wire' = Tail(wire), told' = Head(wire).box
    PROVE  WireTypes' /\ BoxInv'
<1>1. PICK n \in Nat : /\ n = Len(wire) /\ DOMAIN wire = 1 .. n
                       /\ \A i \in 1 .. n : wire[i] \in LineSet
                       /\ n # 0
  BY WireFacts
<1>2. /\ told \in Seq(Uid) /\ srv \in Seq(Uid) /\ wire \in Seq(LineSet) /\ LineSet' = LineSet
      /\ Chain /\ Rising /\ Known /\ Distinct
  BY SameSets DEF Inv, TypesInv, WireTypes, BoxInv
<1>3. /\ wire' \in Seq(LineSet) /\ Len(wire') = n - 1 /\ DOMAIN wire' = 1 .. n - 1
      /\ \A i \in 1 .. n - 1 : wire'[i] = wire[i + 1]
      /\ Head(wire) = wire[1] /\ 1 \in 1 .. n
  <2>1. /\ wire' \in Seq(LineSet) /\ Len(wire') = n - 1
        /\ \A i \in 1 .. n - 1 : wire'[i] = wire[i + 1]
    BY <1>1, <1>2, HeadTailProperties
  <2> QED BY <1>1, <1>2, <2>1, LenProperties
<1> DEFINE l == wire[1]
<1>4. l \in LineSet /\ Follows(told, l) /\ told' = l.box
  BY <1>1, <1>2, <1>3 DEF Chain, BoxBefore
<1>5. told' \in Seq(Uid)
  BY <1>4 DEF LineSet
<1>6. l.kind = "EXISTS" => /\ Newest(l) \in DOMAIN sflags
                           /\ \A p \in DOMAIN told : told[p] < Newest(l)
  BY <1>1, <1>2, <1>3 DEF Rising
<1>7. \A p \in DOMAIN told' :
         \/ \E q \in DOMAIN told : told'[p] = told[q]
         \/ l.kind = "EXISTS" /\ told'[p] = Newest(l)
  <2> HIDE DEF l
  <2> QED BY <1>2, <1>4, FollowsElements
<1>8. Known'
  BY <1>2, <1>6, <1>7 DEF Known
<1>9. Distinct'
  <2> HIDE DEF l
  <2>1. \A p, q \in DOMAIN l.box : l.box[p] = l.box[q] => p = q
    BY <1>2, <1>4, <1>6, FollowsDistinct DEF Distinct
  <2> QED BY <1>4, <2>1 DEF Distinct
<1>10. Chain'
  <2>1. BoxAfter' = BoxAfter
    <3>1. CASE n = 1
      <4>1. wire' = <<>>
        BY <1>3, <3>1, EmptySeq
      <4> QED BY <1>1, <1>3, <3>1, <4>1 DEF BoxAfter
    <3>2. CASE n # 1
      <4>1. n - 1 \in 1 .. n - 1 /\ (n - 1) + 1 = n
        BY <1>1, <3>2
      <4>2. wire' # <<>>
        <5>1. Len(wire') # 0 /\ Len(<<>>) = 0
          BY <1>1, <1>3, <3>2, EmptySeq
        <5> QED BY <5>1
      <4> QED BY <1>1, <1>3, <4>1, <4>2 DEF BoxAfter
    <3> QED BY <3>1, <3>2
  <2>2. ASSUME NEW i \in 1 .. n - 1
        PROVE  Follows(BoxBefore(i)', wire'[i])
    <3>1. i + 1 \in 1 .. n /\ i + 1 # 1 /\ (i + 1) - 1 = i /\ (i = 1 \/ i - 1 \in 1 .. n - 1)
          /\ (i - 1) + 1 = i
      BY <1>1
    <3>2. BoxBefore(i + 1) = wire[i].box
      BY <3>1 DEF BoxBefore
    <3>3. BoxBefore(i)' = wire[i].box
      BY <1>3, <3>1 DEF BoxBefore
    <3>4. Follows(BoxBefore(i + 1), wire[i + 1])
      BY <1>1, <1>2, <3>1 DEF Chain
    <3> QED BY <1>3, <3>2, <3>3, <3>4
  <2> QED BY <1>2, <1>3, <2>1, <2>2 DEF Chain
<1>11. Rising'
  <2>1. ASSUME NEW i \in 1 .. n - 1, wire'[i].kind = "EXISTS"
        PROVE  /\ Newest(wire'[i]) \in DOMAIN sflags
               /\ \A p \in DOMAIN told' : told'[p] < Newest(wire'[i])
               /\ \A j \in 1 .. i - 1 : wire'[j].kind = "EXISTS" => Newest(wire'[j]) < Newest(wire'[i])
    <3>1. i + 1 \in 1 .. n /\ 1 \in 1 .. (i + 1) - 1 /\ wire'[i] = wire[i + 1]
      BY <1>1, <1>3
    <3>2. /\ Newest(wire[i + 1]) \in DOMAIN sflags
          /\ \A p \in DOMAIN told : told[p] < Newest(wire[i + 1])
          /\ \A j \in 1 .. (i + 1) - 1 : wire[j].kind = "EXISTS" => Newest(wire[j]) < Newest(wire[i + 1])
      BY <1>1, <1>2, <2>1, <3>1 DEF Rising
    <3>3. \A p \in DOMAIN told' : told'[p] < Newest(wire'[i])
      BY <1>7, <3>1, <3>2
    <3>4. \A j \in 1 .. i - 1 : wire'[j].kind = "EXISTS" => Newest(wire'[j]) < Newest(wire'[i])
      <4> TAKE j \in 1 .. i - 1
      <4>1. j + 1 \in 1 .. (i + 1) - 1 /\ j \in 1 .. n - 1
        BY <1>1
      <4> QED BY <1>3, <3>1, <3>2, <4>1
    <3> QED BY <3>1, <3>2, <3>3, <3>4
  <2> QED BY <1>3, <2>1 DEF Rising
<1> QED BY <1>2, <1>3, <1>5, <1>8, <1>9, <1>10, <1>11 DEF WireTypes, BoxInv

-----------------------------------------------------------------------------
(* Steps of the client and the user that leave the numbers alone *)

Reads ==
    \/ wire' = wire
    \/ wire # <<>> /\ Head(wire).kind = "tagged" /\ wire' = Tail(wire)

SameNumbers ==
    /\ msn' = msn /\ hash' = hash /\ DOMAIN index' = DOMAIN index
    /\ \A u \in DOMAIN index : index'[u].msn = index[u].msn /\ index'[u].gone = index[u].gone

PlainEffect ==
    /\ world' = world /\ srv' = srv /\ sflags' = sflags /\ told' = told /\ Reads
    /\ CmdTypes' /\ CountTypes' /\ IndexTypes' /\ SameNumbers

NumberVars == <<world, srv, sflags, told, serving, index, msn, hash>>

LEMMA ReadsKeepsBoxes ==
    ASSUME Inv, world' = world, srv' = srv, sflags' = sflags, told' = told, Reads
    PROVE  WireTypes' /\ BoxInv'
<1>1. CASE wire' = wire
  <2>1. Chain'
    BY <1>1 DEF Inv, BoxInv, Chain, BoxAfter, BoxBefore
  <2>2. Rising' /\ Known' /\ Distinct'
    BY <1>1 DEF Inv, BoxInv, Rising, Known, Distinct
  <2>3. WireTypes'
    BY <1>1, SameSets DEF Inv, TypesInv, WireTypes
  <2> QED BY <2>1, <2>2, <2>3 DEF BoxInv
<1>2. CASE wire # <<>> /\ Head(wire).kind = "tagged" /\ wire' = Tail(wire)
  <2>1. PICK n \in Nat : n = Len(wire) /\ DOMAIN wire = 1 .. n /\ n # 0
    BY <1>2, WireFacts
  <2>2. Head(wire) = wire[1] /\ 1 \in DOMAIN wire
    BY <2>1 DEF Inv, TypesInv, WireTypes
  <2>3. Follows(told, Head(wire))
    BY <2>2 DEF Inv, BoxInv, Chain, BoxBefore
  <2>4. told' = Head(wire).box
    BY <1>2, <2>3 DEF Follows
  <2> QED BY <1>2, <2>4, ReadingKeepsBoxes
<1> QED BY <1>1, <1>2 DEF Reads

LEMMA PlainKeeps == Inv /\ PlainEffect => Inv'
<1> SUFFICES ASSUME Inv, PlainEffect PROVE Inv'
  OBVIOUS
<1>1. WireTypes' /\ BoxInv'
  BY ReadsKeepsBoxes DEF PlainEffect
<1>2. SameNumbers /\ world' = world /\ told' = told /\ srv' = srv /\ sflags' = sflags
  BY DEF PlainEffect
<1>3. TypesInv'
  <2>1. FlagTypes' /\ TableTypes'
    BY <1>2, SameSets DEF Inv, TypesInv, FlagTypes, TableTypes, SameNumbers
  <2> QED BY <1>1, <2>1 DEF TypesInv, PlainEffect
<1>4. NumbersAgree'
  BY <1>2 DEF Inv, MatchInv, NumbersAgree, SameNumbers
<1>5. NumbersMatch'
  BY <1>2 DEF Inv, MatchInv, NumbersMatch, SameNumbers, Slot
<1>6. InHash'
  BY <1>2 DEF Inv, MatchInv, InHash, SameNumbers
<1> QED BY <1>1, <1>2, <1>3, <1>4, <1>5, <1>6 DEF Inv, MatchInv

LEMMA UntouchedKeeps ==
    ASSUME Inv, UNCHANGED NumberVars, Reads, CmdTypes', CountTypes'
    PROVE  PlainEffect
<1>1. IndexTypes'
  BY SameSets DEF Inv, TypesInv, IndexTypes, NumberVars
<1> QED BY <1>1 DEF PlainEffect, SameNumbers, NumberVars

LEMMA QuietKeeps ==
    ASSUME Inv, UNCHANGED NumberVars, UNCHANGED <<req, batch, newCount, fetch>>, Reads
    PROVE  PlainEffect
<1>1. CmdTypes' /\ CountTypes'
  BY SameSets DEF Inv, TypesInv, CmdTypes, CountTypes, NumberVars
<1> QED BY <1>1, UntouchedKeeps

Quiet == Completed \/ NotAllowed \/ NothingToFetch \/ AllFetched \/ Polled \/ TooSoon \/ Status
         \/ Disallow \/ StoreFailed \/ Expunged \/ Check \/ Sync

LEMMA QuietEffect == Inv /\ Quiet => PlainEffect
<1> SUFFICES ASSUME Inv, Quiet PROVE PlainEffect
  OBVIOUS
<1> USE DEF NumberVars, Reads, srvVars, idxVars, mboxVars
<1> DEFINE Same == UNCHANGED NumberVars /\ UNCHANGED <<req, batch, newCount, fetch>> /\ Reads
<1>1. CASE Completed
  BY <1>1, QuietKeeps DEF Completed
<1>2. CASE NotAllowed
  BY <1>2, QuietKeeps DEF NotAllowed
<1>3. CASE NothingToFetch
  BY <1>3, QuietKeeps DEF NothingToFetch
<1>4. CASE AllFetched
  BY <1>4, QuietKeeps DEF AllFetched
<1>5. CASE Polled
  BY <1>5, QuietKeeps DEF Polled
<1>6. CASE TooSoon
  BY <1>6, QuietKeeps DEF TooSoon
<1>7. CASE Status
  BY <1>7, QuietKeeps DEF Status
<1>8. CASE Disallow
  BY <1>8, QuietKeeps DEF Disallow
<1>9. CASE StoreFailed
  BY <1>9, QuietKeeps DEF StoreFailed
<1>10. CASE Expunged
  BY <1>10, QuietKeeps DEF Expunged
<1>11. CASE Check
  BY <1>11, QuietKeeps DEF Check
<1>12. CASE Sync
  BY <1>12, QuietKeeps DEF Sync
<1> QED BY <1>1, <1>2, <1>3, <1>4, <1>5, <1>6, <1>7, <1>8, <1>9, <1>10, <1>11, <1>12 DEF Quiet

Fetching == ReadHeaders \/ Fetched \/ Finished

LEMMA FetchingEffect == Inv /\ Fetching => PlainEffect
<1> SUFFICES ASSUME Inv, Fetching PROVE PlainEffect
  OBVIOUS
<1>1. /\ UNCHANGED NumberVars /\ Reads /\ req' = req /\ batch' = batch
  BY DEF Fetching, ReadHeaders, Fetched, Finished, NumberVars, Reads, srvVars, idxVars, mboxVars
<1>2. CmdTypes'
  BY <1>1, SameSets DEF Inv, TypesInv, CmdTypes, NumberVars
<1>3. fetch \in [begin : Nat, end : Nat, sent : Nat] /\ newCount \in Nat
  BY DEF Inv, TypesInv, CountTypes
<1>4. CASE ReadHeaders
  <2>1. Len(msn) \in Nat
    BY LenProperties DEF Inv, TypesInv, TableTypes
  <2> QED BY <1>1, <1>2, <1>3, <1>4, <2>1, UntouchedKeeps DEF ReadHeaders, CountTypes, Highest
<1>5. CASE Fetched
  <2>1. CASE Head(wire).res = "OK"
    <3>1. PICK e \in Nat : e = IF "NEWMAIL" \in reopen THEN newCount ELSE fetch.end
      BY <1>3
    <3>2. fetch' = [fetch EXCEPT !.begin = fetch.sent + 1, !.end = e]
      BY <1>5, <2>1, <3>1 DEF Fetched
    <3>3. newCount' \in Nat
      BY <1>3, <1>5, <2>1 DEF Fetched
    <3>4. PICK b \in Nat : b = fetch.sent + 1
      BY <1>3
    <3>5. fetch' = [fetch EXCEPT !.begin = b, !.end = e]
      BY <3>2, <3>4
    <3>6. fetch' \in [begin : Nat, end : Nat, sent : Nat]
      BY <1>3, <3>5
    <3>7. CountTypes'
      BY <3>3, <3>6 DEF CountTypes
    <3> QED BY <1>1, <1>2, <3>7, UntouchedKeeps
  <2>2. CASE Head(wire).res # "OK"
    BY <1>1, <1>2, <1>3, <1>5, <2>2, UntouchedKeeps DEF Fetched, CountTypes
  <2> QED BY <2>1, <2>2
<1>6. CASE Finished
  BY <1>1, <1>2, <1>3, <1>6, UntouchedKeeps DEF Finished, CountTypes
<1> QED BY <1>4, <1>5, <1>6 DEF Fetching

LEMMA PlainRequests ==
    /\ \A k \in {"none", "NOOP", "IDLE"} : [kind |-> k] \in RequestSet
    /\ \A b, e \in Nat : [kind |-> "FETCH", begin |-> b, end |-> e] \in RequestSet
    /\ \A u \in Uid : [kind |-> "UIDFETCH", uid |-> u] \in RequestSet
    /\ \A cs \in Seq(CmdSet), x \in BOOLEAN :
          [kind |-> "STORE", cmds |-> cs, expunge |-> x, res |-> "OK"] \in RequestSet
BY DEF RequestSet

LEMMA StoreTypes ==
    ASSUME Inv, NEW g \in {"flag", "deleted"}, NEW on \in BOOLEAN
    PROVE  Store(g, on) \in Seq(CmdSet)
<1> DEFINE us == Differing(g, on)
<1>1. us \subseteq DOMAIN index
  BY DEF Differing
<1>2. us \in SUBSET Uid
  BY <1>1 DEF Inv, TypesInv, IndexTypes
<1>3. CASE us = {}
  BY <1>3 DEF Store
<1>4. CASE us # {}
  <2>1. g = "flag" \/ "delete" \in world.user
    <3>1. ASSUME g = "deleted", "delete" \notin world.user PROVE FALSE
      <4>1. PICK u \in DOMAIN index : u \in us
        BY <1>1, <1>4
      <4>2. index[u] \in EmailSet /\ DeletedSet = {FALSE}
        BY <3>1 DEF Inv, TypesInv, IndexTypes, DeletedSet
      <4>3. index[u].deleted = FALSE /\ index[u].remote.deleted = FALSE
        BY <4>2 DEF EmailSet, FlagSet
      <4>4. index[u].remote["deleted"] # Shown(index[u])["deleted"]
        BY <3>1, <4>1 DEF Differing
      <4> QED BY <4>3, <4>4 DEF Shown
    <3> QED BY <3>1
  <2>2. [flag |-> g, on |-> on, uids |-> us] \in CmdSet
    BY <1>2, <2>1 DEF CmdSet
  <2>3. Store(g, on) = <<[flag |-> g, on |-> on, uids |-> us]>>
    BY <1>4 DEF Store
  <2> QED BY <2>2, <2>3
<1> QED BY <1>3, <1>4

LEMMA ChangesTypes == Inv => Changes \in Seq(CmdSet) /\ batch \o Changes \in Seq(CmdSet)
<1> SUFFICES ASSUME Inv PROVE Changes \in Seq(CmdSet) /\ batch \o Changes \in Seq(CmdSet)
  OBVIOUS
<1>1. /\ Store("deleted", TRUE) \in Seq(CmdSet) /\ Store("deleted", FALSE) \in Seq(CmdSet)
      /\ Store("flag", TRUE) \in Seq(CmdSet) /\ Store("flag", FALSE) \in Seq(CmdSet)
  BY StoreTypes
<1>2. Changes \in Seq(CmdSet)
  BY <1>1, ConcatProperties DEF Changes
<1>3. batch \in Seq(CmdSet)
  BY DEF Inv, TypesInv, CmdTypes
<1> QED BY <1>2, <1>3, ConcatProperties

Sending == SendFetch \/ Idle \/ Noop \/ Collect \/ SendExpunge

LEMMA SendingEffect == Inv /\ Sending => PlainEffect
<1> SUFFICES ASSUME Inv, Sending PROVE PlainEffect
  OBVIOUS
<1>1. UNCHANGED NumberVars /\ Reads
  BY DEF Sending, SendFetch, Idle, Noop, Collect, SendExpunge, NumberVars, Reads, srvVars, idxVars,
         mboxVars
<1>2. CmdSet' = CmdSet /\ RequestSet' = RequestSet
  BY <1>1, SameSets DEF NumberVars
<1>3. /\ serving \in RequestSet /\ req \in RequestSet /\ batch \in Seq(CmdSet)
      /\ newCount \in Nat /\ fetch \in [begin : Nat, end : Nat, sent : Nat]
  BY DEF Inv, TypesInv, CmdTypes, CountTypes
<1>4. serving' = serving
  BY <1>1 DEF NumberVars
<1>5. ASSUME newCount' = newCount, fetch' = fetch, req' \in RequestSet, batch' \in Seq(CmdSet)
      PROVE  PlainEffect
  <2>1. CmdTypes' /\ CountTypes'
    BY <1>2, <1>3, <1>4, <1>5 DEF CmdTypes, CountTypes
  <2> QED BY <1>1, <2>1, UntouchedKeeps
<1>6. CASE SendFetch
  <2>1. /\ req' = [kind |-> "FETCH", begin |-> fetch.begin, end |-> fetch.end]
        /\ fetch' = [fetch EXCEPT !.sent = fetch.end] /\ newCount' = newCount /\ batch' = batch
    BY <1>6 DEF SendFetch, Send, mboxVars
  <2>2. req' \in RequestSet
    BY <1>3, <2>1, PlainRequests
  <2>3. CmdTypes' /\ CountTypes'
    BY <1>2, <1>3, <1>4, <2>1, <2>2 DEF CmdTypes, CountTypes
  <2> QED BY <1>1, <2>3, UntouchedKeeps
<1>7. CASE Idle
  <2>1. /\ newCount' = newCount /\ fetch' = fetch /\ batch' = batch
        /\ req' = req \/ req' = [kind |-> "IDLE"]
    BY <1>7 DEF Idle, Send, mboxVars
  <2> QED BY <1>3, <1>5, <2>1, PlainRequests
<1>8. CASE Noop
  <2>1. /\ newCount' = newCount /\ fetch' = fetch /\ batch' = batch
        /\ req' = [kind |-> "NOOP"]
    BY <1>8 DEF Noop, Send, mboxVars
  <2> QED BY <1>3, <1>5, <2>1, PlainRequests
<1>9. CASE Collect
  <2>1. newCount' = newCount /\ fetch' = fetch
    BY <1>9 DEF Collect, mboxVars
  <2>2. CASE Changes = <<>>
    <3>1. req' = req /\ batch' = batch
      BY <1>9, <2>2 DEF Collect
    <3> QED BY <1>3, <1>5, <2>1, <3>1
  <2>3. CASE Changes # <<>>
    <3>1. /\ req' = [kind |-> "STORE", cmds |-> batch \o Changes, expunge |-> FALSE, res |-> "OK"]
          /\ batch' = <<>>
      BY <1>9, <2>3 DEF Collect
    <3>2. req' \in RequestSet
      BY <3>1, ChangesTypes, PlainRequests
    <3> QED BY <1>5, <2>1, <3>1, <3>2
  <2> QED BY <2>2, <2>3
<1>10. CASE SendExpunge
  <2>1. /\ newCount' = newCount /\ fetch' = fetch /\ batch' = <<>>
        /\ req' = [kind |-> "STORE", cmds |-> batch, expunge |-> TRUE, res |-> "OK"]
    BY <1>10 DEF SendExpunge, Send
  <2>2. req' \in RequestSet
    BY <1>3, <2>1, PlainRequests
  <2> QED BY <1>5, <2>1, <2>2
<1> QED BY <1>6, <1>7, <1>8, <1>9, <1>10 DEF Sending

\* e is as before but for what the numbering does not depend on.
Alike(e, f) == f \in EmailSet /\ f.msn = e.msn /\ f.gone = e.gone

LEMMA EmailChanges ==
    ASSUME NEW e \in EmailSet, NEW b \in BOOLEAN, NEW d \in DeletedSet, NEW r \in FlagSet
    PROVE  /\ Alike(e, e) /\ Shown(e) \in FlagSet
           /\ Alike(e, [e EXCEPT !.active = b])
           /\ Alike(e, [e EXCEPT !.changed = FALSE])
           /\ Alike(e, [e EXCEPT !.active = TRUE, !.changed = FALSE])
           /\ Alike(e, [e EXCEPT !.deleted = d, !.changed = TRUE])
           /\ Alike(e, [e EXCEPT !.flag = b, !.changed = TRUE])
           /\ Alike(e, [e EXCEPT !.remote = r, !.changed = FALSE])
           /\ Alike(e, [e EXCEPT !.remote = r, !.deleted = d, !.flag = b])
           /\ Alike(e, [e EXCEPT !.remote = r])
BY DEF Alike, EmailSet, FlagSet, Shown

LEMMA AlikeIndex ==
    ASSUME Inv, world' = world, index' \in [DOMAIN index -> EmailSet], msn' = msn, hash' = hash,
           \A u \in DOMAIN index : Alike(index[u], index'[u])
    PROVE  IndexTypes' /\ SameNumbers
<1>1. DOMAIN index' = DOMAIN index /\ EmailSet' = EmailSet
  BY SameSets
<1>2. IndexTypes'
  BY <1>1 DEF Inv, TypesInv, IndexTypes
<1> QED BY <1>1, <1>2 DEF SameNumbers, Alike

LEMMA AlikeEffect ==
    ASSUME Inv, world' = world, index' \in [DOMAIN index -> EmailSet], msn' = msn, hash' = hash,
           \A u \in DOMAIN index : Alike(index[u], index'[u]),
           srv' = srv, sflags' = sflags, serving' = serving, told' = told, wire' = wire,
           req' \in RequestSet, batch' \in Seq(CmdSet), newCount' = newCount, fetch' = fetch
    PROVE  PlainEffect
<1>1. IndexTypes' /\ SameNumbers
  BY AlikeIndex
<1>2. CmdTypes' /\ CountTypes'
  BY SameSets DEF Inv, TypesInv, CmdTypes, CountTypes
<1> QED BY <1>1, <1>2 DEF PlainEffect, Reads

LEMMA MarkingTypes ==
    ASSUME Inv
    PROVE  /\ index \in [DOMAIN index -> EmailSet] /\ DOMAIN index \subseteq Uid
           /\ \A u \in DOMAIN index : index[u] \in EmailSet
           /\ req \in RequestSet /\ batch \in Seq(CmdSet)
BY DEF Inv, TypesInv, IndexTypes, CmdTypes

LEMMA MarkDeletedEffect == Inv /\ MarkDeleted => PlainEffect
<1> SUFFICES ASSUME Inv, MarkDeleted PROVE PlainEffect
  OBVIOUS
<1>1. /\ world' = world /\ srv' = srv /\ sflags' = sflags /\ serving' = serving /\ told' = told
      /\ wire' = wire /\ msn' = msn /\ hash' = hash /\ req' = req /\ newCount' = newCount
      /\ fetch' = fetch /\ batch' = Store("deleted", TRUE)
  BY DEF MarkDeleted, srvVars, mboxVars
<1>2. batch' \in Seq(CmdSet)
  BY <1>1, StoreTypes
<1> DEFINE b(u) == index[u].active /\ ~(index[u].deleted /\ index[u].changed)
<1>3. index' = index \/ index' = [u \in DOMAIN index |-> [index[u] EXCEPT !.active = b(u)]]
  BY DEF MarkDeleted
<1>4. \A u \in DOMAIN index : b(u) \in BOOLEAN
  BY MarkingTypes DEF EmailSet
<1> HIDE DEF b
<1>5. \A u \in DOMAIN index : /\ Alike(index[u], [index[u] EXCEPT !.active = b(u)])
                              /\ Alike(index[u], index[u])
  <2> TAKE u \in DOMAIN index
  <2>1. index[u] \in EmailSet /\ b(u) \in BOOLEAN
    BY <1>4, MarkingTypes
  <2>2. PICK f \in FlagSet, d \in DeletedSet : TRUE
    BY ClearIsFlags DEF FlagSet
  <2> QED BY <2>1, <2>2, EmailChanges
<1>6. index' \in [DOMAIN index -> EmailSet] /\ \A u \in DOMAIN index : Alike(index[u], index'[u])
  <2>1. CASE index' = index
    BY <1>5, <2>1, MarkingTypes
  <2>2. CASE index' = [u \in DOMAIN index |-> [index[u] EXCEPT !.active = b(u)]]
    <3> DEFINE g(u) == [index[u] EXCEPT !.active = b(u)]
    <3>1. \A u \in DOMAIN index : Alike(index[u], g(u)) /\ g(u) \in EmailSet
      BY <1>5 DEF Alike
    <3>2. index' = [u \in DOMAIN index |-> g(u)]
      BY <2>2
    <3> HIDE DEF g
    <3> QED BY <3>1, <3>2
  <2> QED BY <1>3, <2>1, <2>2
<1> QED BY <1>1, <1>2, <1>6, MarkingTypes, AlikeEffect

LEMMA StoredEffect == Inv /\ Stored => PlainEffect
<1> SUFFICES ASSUME Inv, Stored PROVE PlainEffect
  OBVIOUS
<1>1. /\ world' = world /\ srv' = srv /\ sflags' = sflags /\ serving' = serving /\ told' = told
      /\ wire' = wire /\ msn' = msn /\ hash' = hash /\ req' = req /\ newCount' = newCount
      /\ fetch' = fetch /\ batch' = batch
  BY DEF Stored, srvVars, mboxVars
<1> DEFINE g(u) == [index[u] EXCEPT !.remote = Shown(index[u]), !.changed = FALSE]
<1>2. index' = [u \in DOMAIN index |-> g(u)]
  BY DEF Stored
<1>3. \A u \in DOMAIN index : Alike(index[u], g(u)) /\ g(u) \in EmailSet
  <2> TAKE u \in DOMAIN index
  <2>1. PICK e \in EmailSet : e = index[u]
    BY MarkingTypes
  <2>2. PICK d \in DeletedSet : TRUE
    BY ClearIsFlags DEF FlagSet
  <2>3. Shown(e) \in FlagSet
    BY <2>2, ClearIsFlags, EmailChanges
  <2>4. Alike(e, [e EXCEPT !.remote = Shown(e), !.changed = FALSE])
    BY <2>2, <2>3, EmailChanges
  <2> QED BY <2>1, <2>4 DEF Alike
<1> HIDE DEF g
<1>4. index' \in [DOMAIN index -> EmailSet] /\ \A u \in DOMAIN index : Alike(index[u], index'[u])
  BY <1>2, <1>3
<1> QED BY <1>1, <1>4, MarkingTypes, AlikeEffect

LEMMA EditEffect == Inv /\ Edit => PlainEffect
<1> SUFFICES ASSUME Inv, Edit PROVE PlainEffect
  OBVIOUS
<1>1. /\ world' = world /\ srv' = srv /\ sflags' = sflags /\ serving' = serving /\ told' = told
      /\ wire' = wire /\ msn' = msn /\ hash' = hash /\ req' = req /\ newCount' = newCount
      /\ fetch' = fetch /\ batch' = batch
  BY DEF Edit, srvVars, mboxVars
<1>2. PICK u \in DOMAIN index :
         \/ /\ "delete" \in world.user
            /\ index' = [index EXCEPT ![u].deleted = ~@, ![u].changed = TRUE]
         \/ index' = [index EXCEPT ![u].flag = ~@, ![u].changed = TRUE]
  BY DEF Edit
<1>3. PICK e \in EmailSet : e = index[u]
  BY MarkingTypes
<1>4. PICK f : index' = [index EXCEPT ![u] = f] /\ Alike(e, f)
  <2>1. PICK d \in DeletedSet : TRUE
    BY ClearIsFlags DEF FlagSet
  <2>2. CASE index' = [index EXCEPT ![u].flag = ~@, ![u].changed = TRUE]
    <3>1. PICK b \in BOOLEAN : b = ~e.flag
      OBVIOUS
    <3>2. Alike(e, [e EXCEPT !.flag = b, !.changed = TRUE])
      BY <2>1, ClearIsFlags, EmailChanges
    <3>3. index' = [index EXCEPT ![u] = [e EXCEPT !.flag = b, !.changed = TRUE]]
      BY <1>3, <2>2, <3>1
    <3> QED BY <3>2, <3>3
  <2>3. CASE /\ "delete" \in world.user
             /\ index' = [index EXCEPT ![u].deleted = ~@, ![u].changed = TRUE]
    <3>1. PICK b \in DeletedSet : b = ~e.deleted
      BY <2>3 DEF DeletedSet
    <3>2. Alike(e, [e EXCEPT !.deleted = b, !.changed = TRUE])
      BY ClearIsFlags, EmailChanges
    <3>3. index' = [index EXCEPT ![u] = [e EXCEPT !.deleted = b, !.changed = TRUE]]
      BY <1>3, <2>3, <3>1
    <3> QED BY <3>2, <3>3
  <2> QED BY <1>2, <2>2, <2>3
<1>5. \A v \in DOMAIN index : Alike(index[v], index[v])
  <2>1. PICK d \in DeletedSet : TRUE
    BY ClearIsFlags DEF FlagSet
  <2> QED BY <2>1, ClearIsFlags, MarkingTypes, EmailChanges
<1>6. index' \in [DOMAIN index -> EmailSet] /\ \A v \in DOMAIN index : Alike(index[v], index'[v])
  <2>1. f \in EmailSet
    BY <1>4 DEF Alike
  <2> QED BY <1>3, <1>4, <1>5, <2>1, MarkingTypes
<1> QED BY <1>1, <1>6, MarkingTypes, AlikeEffect

LEMMA MsgOpenEffect == Inv /\ (MsgOpen \/ MsgOpened) => PlainEffect
<1> SUFFICES ASSUME Inv, MsgOpen \/ MsgOpened PROVE PlainEffect
  OBVIOUS
<1>1. /\ world' = world /\ srv' = srv /\ sflags' = sflags /\ serving' = serving /\ told' = told
      /\ wire' = wire /\ msn' = msn /\ hash' = hash /\ newCount' = newCount
      /\ fetch' = fetch /\ batch' = batch
  BY DEF MsgOpen, MsgOpened, srvVars, mboxVars
<1>2. \A u \in DOMAIN index : /\ Alike(index[u], index[u])
                              /\ Alike(index[u], [index[u] EXCEPT !.active = TRUE])
                              /\ Alike(index[u], [index[u] EXCEPT !.active = FALSE])
  <2>1. PICK d \in DeletedSet : TRUE
    BY ClearIsFlags DEF FlagSet
  <2> QED BY <2>1, ClearIsFlags, MarkingTypes, EmailChanges
<1>3. CASE MsgOpen
  <2>1. PICK u \in DOMAIN index : /\ index' = [index EXCEPT ![u].active = FALSE]
                                  /\ req' = [kind |-> "UIDFETCH", uid |-> u]
    BY <1>3 DEF MsgOpen, Send
  <2>2. req' \in RequestSet
    BY <2>1, MarkingTypes, PlainRequests
  <2>3. PICK f : f = [index[u] EXCEPT !.active = FALSE]
    OBVIOUS
  <2>4. index' = [index EXCEPT ![u] = f] /\ Alike(index[u], f) /\ f \in EmailSet
    BY <1>2, <2>1, <2>3 DEF Alike
  <2>5. index' \in [DOMAIN index -> EmailSet] /\ \A v \in DOMAIN index : Alike(index[v], index'[v])
    BY <1>2, <2>4, MarkingTypes
  <2> QED BY <1>1, <2>2, <2>5, MarkingTypes, AlikeEffect
<1>4. CASE MsgOpened
  <2>1. req' = req
    BY <1>4 DEF MsgOpened
  <2> DEFINE g(u) == IF u = handle THEN [index[u] EXCEPT !.active = TRUE] ELSE index[u]
  <2>2. index' = [u \in DOMAIN index |-> g(u)]
    BY <1>4 DEF MsgOpened
  <2>3. \A u \in DOMAIN index : Alike(index[u], g(u)) /\ g(u) \in EmailSet
    BY <1>2 DEF Alike
  <2> HIDE DEF g
  <2>4. index' \in [DOMAIN index -> EmailSet] /\ \A v \in DOMAIN index : Alike(index[v], index'[v])
    BY <2>2, <2>3
  <2> QED BY <1>1, <2>1, <2>4, MarkingTypes, AlikeEffect
<1> QED BY <1>3, <1>4

-----------------------------------------------------------------------------
(* Steps that change them *)

LEMMA PurgeKeeps == Inv /\ Purge => Inv'
<1> SUFFICES ASSUME Inv, Purge PROVE Inv'
  OBVIOUS
<1>1. /\ world' = world /\ srv' = srv /\ sflags' = sflags /\ serving' = serving /\ told' = told
      /\ wire' = wire /\ newCount' = newCount /\ req' = req /\ fetch' = fetch /\ batch' = batch
  BY DEF Purge, srvVars
<1> DEFINE gone == {u \in DOMAIN index : index[u].gone}
<1> DEFINE kept == {u \in DOMAIN index \ gone : ~index[u].deleted}
<1> DEFINE left == {index[u].msn : u \in DOMAIN index \ (gone \cup kept)}
<1> DEFINE g(u) == [index[u] EXCEPT !.active = TRUE, !.changed = FALSE]
<1>2. /\ index' = [u \in kept |-> g(u)]
      /\ hash' = hash \ gone
      /\ msn' = [i \in DOMAIN msn |-> IF i \in left THEN Null ELSE msn[i]]
  BY DEF Purge
<1>3. \A u \in DOMAIN index : Alike(index[u], g(u))
  <2>1. PICK d \in DeletedSet : TRUE
    BY ClearIsFlags DEF FlagSet
  <2> QED BY <2>1, ClearIsFlags, MarkingTypes, EmailChanges
<1> HIDE DEF g
<1>4. WireTypes' /\ BoxInv'
  BY <1>1, ReadsKeepsBoxes DEF Reads
<1>5. FlagTypes' /\ CmdTypes' /\ CountTypes'
  BY <1>1, SameSets DEF Inv, TypesInv, FlagTypes, CmdTypes, CountTypes
<1>6. kept \subseteq DOMAIN index /\ DOMAIN index' = kept
  BY <1>2
<1>7. \A u \in kept : /\ index'[u].msn = index[u].msn /\ index'[u].gone = index[u].gone
                      /\ index'[u] \in EmailSet
  BY <1>2, <1>3, <1>6 DEF Alike
<1>8. IndexTypes'
  <2>1. index' \in [kept -> EmailSet]
    BY <1>2, <1>7
  <2> QED BY <1>1, <1>6, <2>1, SameSets, MarkingTypes DEF IndexTypes
<1>9. msn \in Seq(Uid \cup {Null})
  BY DEF Inv, TypesInv, TableTypes
<1>10. PICK h \in Nat : h = Len(msn) /\ DOMAIN msn = 1 .. h
  BY <1>9, LenProperties
<1>11. msn' \in Seq(Uid \cup {Null}) /\ DOMAIN msn' = 1 .. h
  <2>1. \A i \in 1 .. h : msn[i] \in Uid \cup {Null}
    BY <1>9, <1>10, ElementOfSeq
  <2>2. msn' = [i \in 1 .. h |-> IF i \in left THEN Null ELSE msn[i]]
    BY <1>2, <1>10
  <2>3. msn' \in [1 .. h -> Uid \cup {Null}]
    <3> HIDE DEF left
    <3> QED BY <2>1, <2>2
  <2> QED BY <1>10, <2>2, <2>3, SeqDef
<1>12. \A i \in 1 .. h : msn'[i] # Null => msn'[i] = msn[i] /\ i \notin left
  BY <1>2, <1>10
<1>13. TableTypes'
  BY <1>11 DEF TableTypes
<1>14. NumbersAgree'
  BY <1>1, <1>10, <1>11, <1>12 DEF Inv, MatchInv, NumbersAgree
<1>15. NumbersMatch /\ InHash
  BY DEF Inv, MatchInv
<1>16. ASSUME NEW i \in 1 .. h, msn'[i] # Null
       PROVE  msn'[i] \in kept /\ index'[msn'[i]].msn = i
  <2>1. msn'[i] = msn[i] /\ i \notin left
    BY <1>12, <1>16
  <2>2. msn[i] \in DOMAIN index /\ index[msn[i]].msn = i
    BY <1>10, <1>15, <1>16, <2>1 DEF NumbersMatch
  <2>3. msn[i] \notin gone
    BY <1>10, <1>15, <2>2 DEF NumbersMatch, Null
  <2>4. msn[i] \in kept
    BY <2>1, <2>2, <2>3
  <2> QED BY <1>7, <2>1, <2>2, <2>4
<1>17. ASSUME NEW u \in kept, index'[u].msn # Null
       PROVE  Slot(index[u].msn)' = u
  <2>1. index[u].msn # Null /\ index'[u].msn = index[u].msn /\ u \in DOMAIN index
    BY <1>6, <1>7, <1>17
  <2>2. Slot(index[u].msn) = u
    BY <1>15, <2>1 DEF NumbersMatch
  <2>3. u # Null
    BY <2>1, MarkingTypes, UidFacts
  <2>4. index[u].msn \in 1 .. h /\ msn[index[u].msn] = u
    BY <1>10, <2>2, <2>3 DEF Slot
  <2>5. index[u].msn \notin left
    <3>1. SUFFICES ASSUME NEW v \in DOMAIN index \ (gone \cup kept), index[v].msn = index[u].msn
                   PROVE  FALSE
      BY <2>4
    <3>2. Slot(index[v].msn) = v
      BY <1>15, <2>1, <3>1 DEF NumbersMatch
    <3> QED BY <2>2, <3>1, <3>2
  <2>6. msn'[index[u].msn] = u
    BY <1>2, <1>10, <2>4, <2>5
  <2> QED BY <1>11, <2>1, <2>4, <2>6 DEF Slot
<1>18. NumbersMatch'
  <2>1. \A u \in kept : index'[u].gone => index'[u].msn = Null
    BY <1>6, <1>7, <1>15 DEF NumbersMatch
  <2> QED BY <1>6, <1>11, <1>16, <1>17, <2>1 DEF NumbersMatch
<1>19. InHash'
  <2>1. kept \subseteq hash'
    BY <1>2, <1>15 DEF InHash
  <2>2. ASSUME "delete" \notin world.user PROVE hash' = kept
    <3>1. \A u \in DOMAIN index : index[u].deleted = FALSE
      <4>1. DeletedSet = {FALSE}
        BY <2>2 DEF DeletedSet
      <4> QED BY <4>1, MarkingTypes DEF EmailSet
    <3>2. hash = DOMAIN index
      BY <1>15, <2>2 DEF InHash
    <3> QED BY <1>2, <3>1, <3>2
  <2> QED BY <1>1, <1>6, <2>1, <2>2 DEF InHash
<1> QED BY <1>1, <1>4, <1>5, <1>8, <1>13, <1>14, <1>18, <1>19 DEF Inv, TypesInv, MatchInv

\* The part of HandleUntagged that does not depend on the line.
ReadsLine(l) ==
    /\ wire # <<>> /\ l = Head(wire) /\ l.kind # "tagged"
    /\ wire' = Tail(wire) /\ told' = l.box
    /\ UNCHANGED <<world, srv, sflags, serving, req, fetch, batch>>

LEMMA LineFacts ==
    ASSUME Inv, NEW l, ReadsLine(l)
    PROVE  /\ l \in LineSet /\ l.n \in Nat /\ l.flags \in FlagSet
           /\ Follows(told, l) /\ told \in Seq(Uid) /\ told' = l.box /\ told' \in Seq(Uid)
<1>1. PICK n \in Nat : n = Len(wire) /\ DOMAIN wire = 1 .. n /\ n # 0 /\ wire \in Seq(LineSet)
  <2>1. wire \in Seq(LineSet) /\ wire # <<>>
    BY DEF Inv, TypesInv, WireTypes, ReadsLine
  <2> QED BY <2>1, WireFacts
<1>2. l = wire[1] /\ 1 \in 1 .. n
  BY <1>1 DEF ReadsLine
<1>3. l \in LineSet
  BY <1>1, <1>2, ElementOfSeq
<1>4. Follows(told, l)
  BY <1>1, <1>2 DEF Inv, BoxInv, Chain, BoxBefore
<1>5. told \in Seq(Uid)
  BY DEF Inv, TypesInv, WireTypes
<1> QED BY <1>3, <1>4, <1>5 DEF LineSet, ReadsLine

LEMMA ReadsLineKeeps ==
    ASSUME Inv, NEW l, ReadsLine(l), IndexTypes', TableTypes', newCount' \in Nat, MatchInv'
    PROVE  Inv'
<1>1. WireTypes' /\ BoxInv'
  BY ReadingKeepsBoxes DEF ReadsLine
<1>2. FlagTypes' /\ CmdTypes' /\ CountTypes'
  BY SameSets DEF ReadsLine, Inv, TypesInv, FlagTypes, CmdTypes, CountTypes
<1>3. world' = world
  BY DEF ReadsLine
<1> QED BY <1>1, <1>2, <1>3 DEF Inv, TypesInv

LEMMA ExistsKeeps ==
    ASSUME Inv, NEW l, ReadsLine(l), l.kind = "EXISTS", ParseExists(l.n),
           index' = index, msn' = msn, hash' = hash
    PROVE  Inv'
<1>1. newCount' \in Nat
  BY LineFacts DEF ParseExists, Inv, TypesInv, CountTypes
<1>2. IndexTypes' /\ TableTypes'
  BY SameSets DEF ReadsLine, Inv, TypesInv, IndexTypes, TableTypes
<1>3. NumbersMatch' /\ InHash'
  BY DEF ReadsLine, Inv, MatchInv, NumbersMatch, Slot, InHash
<1>4. PICK u \in Uid : told' = Append(told, u)
  BY LineFacts DEF Follows
<1>5. told \in Seq(Uid)
  BY LineFacts
<1>6. \A i \in DOMAIN told : i \in DOMAIN told' /\ told'[i] = told[i]
  <2>1. PICK n \in Nat : n = Len(told) /\ DOMAIN told = 1 .. n
    BY <1>5, LenProperties
  <2>2. DOMAIN told' = 1 .. n + 1 /\ \A j \in 1 .. n : told'[j] = told[j]
    BY <1>4, <1>5, <2>1, Appending
  <2> QED BY <2>1, <2>2
<1>7. NumbersAgree'
  BY <1>6 DEF Inv, MatchInv, NumbersAgree
<1> QED BY <1>1, <1>2, <1>3, <1>7, ReadsLineKeeps DEF MatchInv

\* What EXPUNGE n does to the index: message n has left the table, and those
\* above it have moved down.
Shifted(n, h) ==
    /\ DOMAIN index' = DOMAIN index
    /\ \A u \in DOMAIN index :
          /\ index'[u] \in EmailSet
          /\ u = msn[n] => index'[u].msn = Null
          /\ \A j \in n + 1 .. h : msn[j] = u => index'[u].msn = j - 1 /\ index'[u].gone = index[u].gone
          /\ u # msn[n] /\ (\A j \in n + 1 .. h : msn[j] # u) =>
                index'[u].msn = index[u].msn /\ index'[u].gone = index[u].gone

LEMMA Shifting ==
    ASSUME Inv, NEW n \in DOMAIN msn,
           index' = Renumbered(IF msn[n] = Null THEN index ELSE Gone(index, msn[n]), n)
    PROVE  index' \in [DOMAIN index -> EmailSet] /\ Shifted(n, Len(msn))
<1> DEFINE ix == IF msn[n] = Null THEN index ELSE Gone(index, msn[n])
<1> DEFINE above(u) == \E j \in n + 1 .. Highest : msn[j] = u
<1> DEFINE f(u) == [ix[u] EXCEPT !.msn = ix[u].msn - 1]
<1>1. PICK h \in Nat : h = Len(msn) /\ DOMAIN msn = 1 .. h /\ Highest = h
  BY LenProperties DEF Inv, TypesInv, TableTypes, Highest
<1>2. n \in Nat /\ n \in 1 .. h
  BY <1>1
<1>3. NumbersMatch
  BY DEF Inv, MatchInv
<1>4. /\ ix \in [DOMAIN index -> EmailSet]
      /\ \A u \in DOMAIN index : u # msn[n] => ix[u] = index[u]
      /\ \A u \in DOMAIN index : u = msn[n] => ix[u].msn = Null
  <2>1. CASE msn[n] = Null
    BY <2>1, MarkingTypes, UidFacts
  <2>2. CASE msn[n] # Null
    <3>1. msn[n] \in DOMAIN index
      BY <1>3, <2>2 DEF NumbersMatch
    <3>2. PICK e : e = [index[msn[n]] EXCEPT !.gone = TRUE, !.msn = Null]
      OBVIOUS
    <3>3. e \in EmailSet /\ e.msn = Null
      BY <3>1, <3>2, MarkingTypes, UidFacts DEF EmailSet
    <3>4. Gone(index, msn[n]) = [index EXCEPT ![msn[n]] = e]
      BY <3>1, <3>2, MarkingTypes DEF Gone
    <3> QED BY <2>2, <3>1, <3>3, <3>4, MarkingTypes
  <2> QED BY <2>1, <2>2
<1>5. index' = [u \in DOMAIN ix |-> IF above(u) THEN f(u) ELSE ix[u]]
  BY DEF Renumbered
<1>6. \A u \in DOMAIN index, j \in n + 1 .. h : msn[j] = u =>
         /\ above(u) /\ u # msn[n] /\ ix[u] = index[u] /\ index[u].msn = j
         /\ j - 1 \in Nat
  <2> TAKE u \in DOMAIN index, j \in n + 1 .. h
  <2> HAVE msn[j] = u
  <2>1. j \in DOMAIN msn /\ j # n /\ j - 1 \in Nat
    BY <1>1, <1>2
  <2>2. u # Null
    BY MarkingTypes, UidFacts
  <2>3. index[u].msn = j
    BY <1>3, <2>1, <2>2 DEF NumbersMatch
  <2>4. u # msn[n]
    BY <1>1, <1>2, <1>3, <2>1, <2>2, <2>3 DEF NumbersMatch
  <2>5. above(u)
    BY <1>1
  <2> QED BY <1>4, <2>1, <2>3, <2>4, <2>5
<1>7. \A u \in DOMAIN index, j \in n + 1 .. h : msn[j] = u =>
         f(u) \in EmailSet /\ f(u).msn = j - 1 /\ f(u).gone = index[u].gone
  <2> TAKE u \in DOMAIN index, j \in n + 1 .. h
  <2> HAVE msn[j] = u
  <2>1. PICK k \in Nat : k = j - 1
    BY <1>6
  <2>2. ix[u].msn - 1 = k
    BY <1>6, <2>1
  <2>3. index[u] \in EmailSet
    BY MarkingTypes
  <2>4. f(u) = [index[u] EXCEPT !.msn = k]
    BY <1>6, <2>2
  <2> HIDE DEF f, ix
  <2>5. f(u) \in EmailSet /\ f(u).msn = k /\ f(u).gone = index[u].gone
    BY <2>3, <2>4 DEF EmailSet
  <2> QED BY <2>1, <2>5
<1>8. \A u \in DOMAIN index : ~above(u) <=> \A j \in n + 1 .. h : msn[j] # u
  BY <1>1
<1> HIDE DEF f, ix, above
<1>9. DOMAIN ix = DOMAIN index /\ DOMAIN index' = DOMAIN index
  BY <1>4, <1>5
<1>10. \A u \in DOMAIN index :
          /\ index'[u] \in EmailSet
          /\ above(u) => index'[u] = f(u)
          /\ ~above(u) => index'[u] = ix[u]
  <2> TAKE u \in DOMAIN index
  <2>1. CASE above(u)
    <3>1. PICK j \in n + 1 .. h : msn[j] = u
      BY <1>8, <2>1
    <3> QED BY <1>5, <1>7, <1>9, <2>1, <3>1
  <2>2. CASE ~above(u)
    BY <1>4, <1>5, <1>9, <2>2
  <2> QED BY <2>1, <2>2
<1>11. index' \in [DOMAIN index -> EmailSet]
  BY <1>5, <1>9, <1>10
<1>12. ASSUME NEW u \in DOMAIN index
       PROVE  /\ index'[u] \in EmailSet
              /\ u = msn[n] => index'[u].msn = Null
              /\ \A j \in n + 1 .. h : msn[j] = u =>
                    index'[u].msn = j - 1 /\ index'[u].gone = index[u].gone
              /\ u # msn[n] /\ (\A j \in n + 1 .. h : msn[j] # u) =>
                    index'[u].msn = index[u].msn /\ index'[u].gone = index[u].gone
  <2>1. u = msn[n] => index'[u].msn = Null
    <3> HAVE u = msn[n]
    <3>1. ~above(u)
      BY <1>6, <1>8
    <3> QED BY <1>4, <1>10, <3>1
  <2>2. \A j \in n + 1 .. h : msn[j] = u =>
           index'[u].msn = j - 1 /\ index'[u].gone = index[u].gone
    BY <1>6, <1>7, <1>10
  <2>3. u # msn[n] /\ (\A j \in n + 1 .. h : msn[j] # u) =>
           index'[u].msn = index[u].msn /\ index'[u].gone = index[u].gone
    BY <1>4, <1>8, <1>10
  <2> QED BY <1>10, <2>1, <2>2, <2>3
<1> QED BY <1>1, <1>9, <1>11, <1>12 DEF Shifted

LEMMA ExpungeKeeps ==
    ASSUME Inv, NEW l, ReadsLine(l), l.kind = "EXPUNGE", ParseExpunge(l.n),
           hash' = hash, newCount' = newCount
    PROVE  Inv'
<1>1. newCount' \in Nat
  BY DEF Inv, TypesInv, CountTypes
<1>2. PICK n \in DOMAIN told : n = l.n /\ told' = RemoveAt(told, n)
  BY LineFacts DEF Follows
<1>3. PICK t \in Nat : t = Len(told) /\ DOMAIN told = 1 .. t
  BY LineFacts, LenProperties
<1>4. /\ told' \in Seq(Uid) /\ Len(told') = t - 1
      /\ \A j \in 1 .. t - 1 : told'[j] = IF j < n THEN told[j] ELSE told[j + 1]
  BY <1>2, <1>3, LineFacts, Removal
<1>5. DOMAIN told' = 1 .. t - 1 /\ n \in 1 .. t
  BY <1>2, <1>3, <1>4, LenProperties
<1>6. PICK h \in Nat : h = Len(msn) /\ DOMAIN msn = 1 .. h /\ msn \in Seq(Uid \cup {Null})
  BY LenProperties DEF Inv, TypesInv, TableTypes
<1>7. NumbersAgree /\ NumbersMatch /\ InHash
  BY DEF Inv, MatchInv
<1>8. \A i \in 1 .. h : msn[i] # Null => i \in 1 .. t /\ told[i] = msn[i]
  BY <1>3, <1>6, <1>7 DEF NumbersAgree
<1>9. CASE n \notin DOMAIN msn
  <2>1. index' = index /\ msn' = msn
    BY <1>2, <1>9 DEF ParseExpunge
  <2>2. IndexTypes' /\ TableTypes'
    BY <2>1, SameSets DEF ReadsLine, Inv, TypesInv, IndexTypes, TableTypes
  <2>3. NumbersMatch' /\ InHash'
    BY <1>7, <2>1 DEF ReadsLine, NumbersMatch, Slot, InHash
  <2>4. NumbersAgree'
    <3>1. ASSUME NEW i \in 1 .. h, msn[i] # Null
          PROVE  i \in 1 .. t - 1 /\ told'[i] = msn[i]
      <4>1. i < n /\ i \in 1 .. t - 1
        BY <1>5, <1>6, <1>9
      <4> QED BY <1>4, <1>8, <3>1, <4>1
    <3> QED BY <1>5, <1>6, <2>1, <3>1 DEF NumbersAgree
  <2> QED BY <1>1, <2>2, <2>3, <2>4, ReadsLineKeeps DEF MatchInv
<1>10. CASE n \in DOMAIN msn
  <2>1. /\ index' = Renumbered(IF msn[n] = Null THEN index ELSE Gone(index, msn[n]), n)
        /\ msn' = RemoveAt(msn, n)
    BY <1>2, <1>10 DEF ParseExpunge
  <2>2. index' \in [DOMAIN index -> EmailSet] /\ Shifted(n, h)
    BY <1>6, <1>10, <2>1, Shifting
  <2>3. DOMAIN index' = DOMAIN index
    BY <2>2
  <2>4. IndexTypes'
    BY <2>2, <2>3, SameSets, MarkingTypes DEF ReadsLine, IndexTypes
  <2>5. InHash'
    BY <1>7, <2>3 DEF InHash, ReadsLine
  <2>6. /\ msn' \in Seq(Uid \cup {Null}) /\ Len(msn') = h - 1
        /\ \A j \in 1 .. h - 1 : msn'[j] = IF j < n THEN msn[j] ELSE msn[j + 1]
    BY <1>6, <1>10, <2>1, Removal
  <2>7. DOMAIN msn' = 1 .. h - 1 /\ TableTypes' /\ n \in 1 .. h
    BY <1>6, <1>10, <2>6, LenProperties DEF TableTypes
  <2>8. ASSUME NEW j \in 1 .. h - 1, msn'[j] # Null
        PROVE  /\ j \in 1 .. t - 1 /\ told'[j] = msn'[j]
               /\ msn'[j] \in DOMAIN index /\ index'[msn'[j]].msn = j
    <3>1. CASE j < n
      <4>1. msn'[j] = msn[j] /\ j \in 1 .. h /\ msn[j] # Null
        BY <2>6, <2>8, <3>1
      <4>2. j \in 1 .. t /\ told[j] = msn[j] /\ j \in 1 .. t - 1
        BY <1>5, <1>8, <3>1, <4>1
      <4>3. told'[j] = told[j]
        BY <1>4, <3>1, <4>2
      <4>4. msn[j] \in DOMAIN index /\ index[msn[j]].msn = j
        BY <1>6, <1>7, <4>1 DEF NumbersMatch
      <4>5. msn[j] # msn[n] /\ \A k \in n + 1 .. h : msn[k] # msn[j]
        <5>1. \A k \in n .. h : k \in DOMAIN msn /\ k # j
          BY <1>6, <2>7, <3>1
        <5>2. \A k \in n .. h : msn[k] # msn[j]
          BY <1>7, <4>1, <4>4, <5>1 DEF NumbersMatch
        <5>3. n \in n .. h /\ \A k \in n + 1 .. h : k \in n .. h
          BY <2>7
        <5> QED BY <5>2, <5>3
      <4>6. index'[msn[j]].msn = j
        BY <2>2, <4>4, <4>5 DEF Shifted
      <4> QED BY <4>1, <4>2, <4>3, <4>4, <4>6
    <3>2. CASE ~(j < n)
      <4>1. msn'[j] = msn[j + 1] /\ j + 1 \in 1 .. h /\ j + 1 \in n + 1 .. h /\ msn[j + 1] # Null
        BY <2>6, <2>7, <2>8, <3>2
      <4>2. j + 1 \in 1 .. t /\ told[j + 1] = msn[j + 1] /\ j \in 1 .. t - 1
        BY <1>5, <1>8, <4>1
      <4>3. told'[j] = told[j + 1]
        BY <1>4, <3>2, <4>2
      <4>4. msn[j + 1] \in DOMAIN index
        BY <1>6, <1>7, <4>1 DEF NumbersMatch
      <4>5. index'[msn[j + 1]].msn = (j + 1) - 1
        BY <2>2, <4>1, <4>4 DEF Shifted
      <4>6. (j + 1) - 1 = j
        OBVIOUS
      <4> QED BY <4>1, <4>2, <4>3, <4>4, <4>5, <4>6
    <3> QED BY <3>1, <3>2
  <2>9. ASSUME NEW u \in DOMAIN index
        PROVE  /\ index'[u].msn # Null => /\ index'[u].msn \in 1 .. h - 1
                                          /\ msn'[index'[u].msn] = u
               /\ index'[u].gone => index'[u].msn = Null
    <3>1. CASE u = msn[n]
      BY <2>2, <3>1 DEF Shifted
    <3>2. CASE u # msn[n] /\ \A j \in n + 1 .. h : msn[j] # u
      <4>1. index'[u].msn = index[u].msn /\ index'[u].gone = index[u].gone
        BY <2>2, <3>2 DEF Shifted
      <4>2. index[u].gone => index[u].msn = Null
        BY <1>7 DEF NumbersMatch
      <4>3. ASSUME index[u].msn # Null
            PROVE  index[u].msn \in 1 .. h - 1 /\ msn'[index[u].msn] = u
        <5>1. Slot(index[u].msn) = u /\ u # Null
          BY <1>7, <4>3, MarkingTypes, UidFacts DEF NumbersMatch
        <5>2. PICK m \in 1 .. h : m = index[u].msn /\ msn[m] = u
          BY <1>6, <5>1 DEF Slot
        <5>3. m # n /\ ~(m \in n + 1 .. h)
          BY <3>2, <5>2
        <5>4. m < n /\ m \in 1 .. h - 1
          BY <2>7, <5>3
        <5> QED BY <2>6, <5>2, <5>4
      <4> QED BY <4>1, <4>2, <4>3
    <3>3. CASE \E j \in n + 1 .. h : msn[j] = u
      <4>1. PICK j \in n + 1 .. h : msn[j] = u
        BY <3>3
      <4>2. index'[u].msn = j - 1 /\ index'[u].gone = index[u].gone
        BY <2>2, <4>1 DEF Shifted
      <4>3. j - 1 \in 1 .. h - 1 /\ ~(j - 1 < n) /\ (j - 1) + 1 = j /\ j \in 1 .. h
        BY <2>7
      <4>4. msn'[j - 1] = u
        BY <2>6, <4>1, <4>3
      <4>5. u # Null /\ j # Null /\ index[u].msn = j
        <5>1. u # Null /\ j # Null
          BY <4>3, MarkingTypes, UidFacts
        <5> QED BY <1>6, <1>7, <4>1, <4>3, <5>1 DEF NumbersMatch
      <4>6. ~index[u].gone
        BY <1>7, <4>5 DEF NumbersMatch
      <4> QED BY <4>2, <4>3, <4>4, <4>6
    <3> QED BY <3>1, <3>2, <3>3
  <2>10. NumbersAgree'
    BY <1>5, <2>7, <2>8 DEF NumbersAgree
  <2>11. NumbersMatch'
    <3>1. \A i \in DOMAIN msn' : msn'[i] # Null => msn'[i] \in DOMAIN index' /\ index'[msn'[i]].msn = i
      BY <2>3, <2>7, <2>8
    <3>2. \A u \in DOMAIN index' : index'[u].msn # Null => Slot(index[u].msn)' = u
      BY <2>3, <2>7, <2>9 DEF Slot
    <3>3. \A u \in DOMAIN index' : index'[u].gone => index'[u].msn = Null
      BY <2>3, <2>9
    <3> QED BY <3>1, <3>2, <3>3 DEF NumbersMatch
  <2> QED BY <1>1, <2>4, <2>5, <2>7, <2>10, <2>11, ReadsLineKeeps DEF MatchInv
<1> QED BY <1>9, <1>10

LEMMA SetFlagsAlike ==
    ASSUME NEW D, NEW ix \in [D -> EmailSet], NEW u \in D, NEW f \in FlagSet
    PROVE  /\ SetFlags(ix, u, f) \in [D -> EmailSet]
           /\ \A v \in D : Alike(ix[v], SetFlags(ix, u, f)[v])
<1> DEFINE sets == ~ix[u].changed /\ Differs(ix[u], f) # {}
<1>1. PICK e \in EmailSet : e = ix[u]
  OBVIOUS
<1>2. /\ e.deleted \in DeletedSet /\ e.flag \in BOOLEAN
      /\ f.deleted \in DeletedSet /\ f.flag \in BOOLEAN
  BY <1>1 DEF EmailSet, FlagSet
<1>3. PICK d \in DeletedSet : d = IF sets THEN f.deleted ELSE e.deleted
  <2> HIDE DEF sets
  <2> QED BY <1>2
<1>4. PICK b \in BOOLEAN : b = IF sets THEN f.flag ELSE e.flag
  <2> HIDE DEF sets
  <2>1. CASE sets
    BY <1>2, <2>1
  <2>2. CASE ~sets
    BY <1>2, <2>2
  <2> QED BY <2>1, <2>2
<1>5. SetFlags(ix, u, f) = [ix EXCEPT ![u].remote = f,
                                      ![u].deleted = IF sets THEN f.deleted ELSE @,
                                      ![u].flag = IF sets THEN f.flag ELSE @]
  BY DEF SetFlags
<1> HIDE DEF sets
<1>6. PICK g : g = [e EXCEPT !.remote = f, !.deleted = d, !.flag = b]
  OBVIOUS
<1>7. SetFlags(ix, u, f) = [ix EXCEPT ![u] = g]
  <2>1. e = [deleted |-> e.deleted, flag |-> e.flag, changed |-> e.changed, active |-> e.active,
             gone |-> e.gone, msn |-> e.msn, remote |-> e.remote]
    BY DEF EmailSet
  <2> QED BY <1>1, <1>3, <1>4, <1>5, <1>6, <2>1
<1>8. Alike(e, g)
  BY <1>6, EmailChanges
<1>9. \A v \in D : Alike(ix[v], ix[v])
  BY <1>2, EmailChanges
<1> QED BY <1>1, <1>7, <1>8, <1>9 DEF Alike

\* Flags change flags: the emails keep their numbers and their changes.
LEMMA SetFlagsChanges ==
    ASSUME NEW D, NEW ix \in [D -> EmailSet], NEW u \in D, NEW f \in FlagSet
    PROVE  \A v \in D : SetFlags(ix, u, f)[v].changed = ix[v].changed
<1> DEFINE sets == ~ix[u].changed /\ Differs(ix[u], f) # {}
<1>1. SetFlags(ix, u, f) = [ix EXCEPT ![u].remote = f,
                                      ![u].deleted = IF sets THEN f.deleted ELSE @,
                                      ![u].flag = IF sets THEN f.flag ELSE @]
  BY DEF SetFlags
<1> HIDE DEF sets
<1>2. PICK e \in EmailSet : e = ix[u]
  OBVIOUS
<1>3. PICK d, b : d = (IF sets THEN f.deleted ELSE e.deleted) /\ b = (IF sets THEN f.flag ELSE e.flag)
  OBVIOUS
<1>5. PICK g : g = [e EXCEPT !.remote = f, !.deleted = d, !.flag = b]
  OBVIOUS
<1>6. g.changed = e.changed
  BY <1>5 DEF EmailSet
<1>4. SetFlags(ix, u, f) = [ix EXCEPT ![u] = g]
  <2>1. e = [deleted |-> e.deleted, flag |-> e.flag, changed |-> e.changed, active |-> e.active,
             gone |-> e.gone, msn |-> e.msn, remote |-> e.remote]
    BY DEF EmailSet
  <2> QED BY <1>1, <1>2, <1>3, <1>5, <2>1
<1> QED BY <1>2, <1>4, <1>6

LEMMA FetchSame ==
    ASSUME Inv, NEW l, ReadsLine(l), l.kind \in {"FETCH", "DATA"}, ParseFetch(l.n, l.flags)
    PROVE  /\ index' \in [DOMAIN index -> EmailSet] /\ told' = told
           /\ \A v \in DOMAIN index :
                 Alike(index[v], index'[v]) /\ index'[v].changed = index[v].changed
<1> DEFINE u == Slot(l.n)
<1> DEFINE heeds == u # Null /\ index[u].active
<1> DEFINE ix == IF heeds THEN SetFlags(index, u, l.flags) ELSE index
<1> DEFINE waits == At("wait") /\ handle \in DOMAIN ix /\ ~ix[handle].changed
<1>1. index' = IF waits THEN SetFlags(ix, handle, l.flags) ELSE ix
  BY DEF ParseFetch
<1>2. heeds => u \in DOMAIN index
  BY DEF Slot, Inv, MatchInv, NumbersMatch
<1>3. l.flags \in FlagSet /\ told' = told
  BY LineFacts DEF Follows
<1>4. \A v \in DOMAIN index : Alike(index[v], index[v])
  BY MarkingTypes DEF Alike
<1> HIDE DEF u, heeds
<1>5. /\ ix \in [DOMAIN index -> EmailSet]
      /\ \A v \in DOMAIN index : Alike(index[v], ix[v]) /\ ix[v].changed = index[v].changed
  <2>1. CASE heeds
    BY <1>2, <1>3, <2>1, MarkingTypes, SetFlagsAlike, SetFlagsChanges
  <2>2. CASE ~heeds
    BY <1>4, <2>2, MarkingTypes
  <2> QED BY <2>1, <2>2
<1> HIDE DEF ix
<1>6. waits => handle \in DOMAIN index
  BY <1>5
<1> HIDE DEF waits
<1>7. /\ index' \in [DOMAIN index -> EmailSet]
      /\ \A v \in DOMAIN index : Alike(ix[v], index'[v]) /\ index'[v].changed = ix[v].changed
  <2>1. CASE waits
    BY <1>1, <1>3, <1>5, <1>6, <2>1, SetFlagsAlike, SetFlagsChanges
  <2>2. CASE ~waits
    BY <1>1, <1>5, <2>2 DEF Alike
  <2> QED BY <2>1, <2>2
<1> QED BY <1>3, <1>5, <1>7 DEF Alike

LEMMA FetchKeeps ==
    ASSUME Inv, NEW l, ReadsLine(l), l.kind \in {"FETCH", "DATA"}, ParseFetch(l.n, l.flags),
           msn' = msn, hash' = hash, newCount' = newCount
    PROVE  Inv'
<1>1. IndexTypes' /\ SameNumbers /\ told' = told
  BY FetchSame, AlikeIndex DEF ReadsLine
<1>2. newCount' \in Nat /\ TableTypes'
  BY DEF Inv, TypesInv, CountTypes, TableTypes
<1>3. NumbersAgree' /\ NumbersMatch' /\ InHash'
  BY <1>1 DEF ReadsLine, Inv, MatchInv, NumbersAgree, NumbersMatch, InHash, SameNumbers, Slot
<1> QED BY <1>1, <1>2, <1>3, ReadsLineKeeps DEF MatchInv

LEMMA NewMessageKeeps ==
    ASSUME Inv, NEW l, ReadsLine(l), l.kind = "DATA", Slot(l.n) = Null,
           NewMessage(l.n, l.box[l.n], l.flags), newCount' = newCount
    PROVE  Inv'
<1>1. told' = told /\ l.box = told /\ l.n \in DOMAIN told /\ l.flags \in FlagSet
  BY LineFacts DEF Follows
<1>2. PICK t \in Nat : t = Len(told) /\ DOMAIN told = 1 .. t
  BY LineFacts, LenProperties
<1>3. PICK n \in 1 .. t : n = l.n
  BY <1>1, <1>2
<1>4. PICK u \in Uid : u = told[n] /\ u # Null
  BY <1>2, <1>3, LineFacts, ElementOfSeq, UidFacts
<1>5. PICK h \in Nat : h = Len(msn) /\ DOMAIN msn = 1 .. h /\ msn \in Seq(Uid \cup {Null})
  BY LenProperties DEF Inv, TypesInv, TableTypes
<1>6. PICK k \in Nat : k = (IF n > h THEN n ELSE h) /\ n \in 1 .. k /\ h <= k
  BY <1>2, <1>3
<1>7. /\ msn' = [i \in 1 .. k |-> IF i = n THEN u ELSE Slot(i)]
      /\ index' = [v \in DOMAIN index \cup {u} |-> IF v = u THEN NewEmail(n, l.flags) ELSE index[v]]
      /\ hash' = hash \cup {u}
  BY <1>1, <1>3, <1>4, <1>5, <1>6 DEF NewMessage, Highest
<1>8. /\ NumbersAgree /\ NumbersMatch /\ InHash
      /\ \A p, q \in DOMAIN told : told[p] = told[q] => p = q
  BY DEF Inv, MatchInv, BoxInv, Distinct
<1>9. \A i \in 1 .. k : Slot(i) \in Uid \cup {Null} /\ (Slot(i) # Null => i \in 1 .. h /\ msn[i] = Slot(i))
  BY <1>5, ElementOfSeq DEF Slot
<1>10. msn' \in [1 .. k -> Uid \cup {Null}] /\ DOMAIN msn' = 1 .. k
  BY <1>4, <1>7, <1>9
<1>11. TableTypes'
  BY <1>10, SeqDef DEF TableTypes
<1>12. NewEmail(n, l.flags) \in EmailSet /\ NewEmail(n, l.flags).msn = n /\ ~NewEmail(n, l.flags).gone
  <2>1. n \in Nat /\ l.flags.deleted \in DeletedSet /\ l.flags.flag \in BOOLEAN
    BY <1>1, <1>2, <1>3 DEF FlagSet
  <2> QED BY <1>1, <2>1 DEF NewEmail, EmailSet
<1>13. /\ DOMAIN index' = DOMAIN index \cup {u}
       /\ index'[u] = NewEmail(n, l.flags)
       /\ \A v \in DOMAIN index : v # u => index'[v] = index[v]
  BY <1>7
<1>14. IndexTypes'
  <2>1. index' \in [DOMAIN index \cup {u} -> EmailSet]
    BY <1>7, <1>12, MarkingTypes
  <2> QED BY <1>4, <1>13, <2>1, SameSets, MarkingTypes DEF ReadsLine, IndexTypes
<1>15. ASSUME NEW i \in 1 .. k, i # n, msn'[i] # Null
       PROVE  /\ i \in 1 .. h /\ msn'[i] = msn[i] /\ msn[i] # Null /\ i \in DOMAIN told
              /\ told[i] = msn[i] /\ msn[i] \in DOMAIN index /\ index[msn[i]].msn = i /\ msn[i] # u
  <2>1. i \in 1 .. h /\ msn'[i] = msn[i] /\ msn[i] # Null
    BY <1>7, <1>9, <1>15
  <2>2. i \in DOMAIN told /\ told[i] = msn[i]
    BY <1>5, <1>8, <2>1 DEF NumbersAgree
  <2>3. msn[i] \in DOMAIN index /\ index[msn[i]].msn = i
    BY <1>5, <1>8, <2>1 DEF NumbersMatch
  <2>4. msn[i] # u
    BY <1>2, <1>4, <1>8, <1>15, <2>2
  <2> QED BY <2>1, <2>2, <2>3, <2>4
<1>16. msn'[n] = u
  BY <1>6, <1>7
<1>17. NumbersAgree'
  BY <1>1, <1>2, <1>4, <1>10, <1>15, <1>16 DEF NumbersAgree
<1>18. NumbersMatch'
  <2>1. \A i \in DOMAIN msn' : msn'[i] # Null => msn'[i] \in DOMAIN index' /\ index'[msn'[i]].msn = i
    <3> TAKE i \in DOMAIN msn'
    <3> HAVE msn'[i] # Null
    <3>1. CASE i = n
      BY <1>12, <1>13, <1>16, <3>1
    <3>2. CASE i # n
      BY <1>10, <1>13, <1>15, <3>2
    <3> QED BY <3>1, <3>2
  <2>2. ASSUME NEW v \in DOMAIN index', index'[v].msn # Null
        PROVE  Slot(index[v].msn)' = v
    <3>1. CASE v = u
      BY <1>6, <1>10, <1>12, <1>13, <1>16, <3>1 DEF Slot
    <3>2. CASE v # u
      <4>1. v \in DOMAIN index /\ index'[v] = index[v]
        BY <1>13, <3>2
      <4>2. Slot(index[v].msn) = v /\ v # Null
        BY <1>8, <2>2, <4>1, MarkingTypes, UidFacts DEF NumbersMatch
      <4>3. PICK m \in 1 .. h : m = index[v].msn /\ msn[m] = v
        BY <1>5, <4>2 DEF Slot
      <4>4. m # n /\ m \in 1 .. k
        BY <1>3, <1>6, <4>2, <4>3
      <4>5. msn'[m] = v
        BY <1>7, <4>2, <4>3, <4>4
      <4> QED BY <1>10, <4>1, <4>3, <4>4, <4>5 DEF Slot
    <3> QED BY <3>1, <3>2
  <2>3. \A v \in DOMAIN index' : index'[v].gone => index'[v].msn = Null
    BY <1>8, <1>12, <1>13 DEF NumbersMatch
  <2> QED BY <2>1, <2>2, <2>3 DEF NumbersMatch
<1>19. InHash'
  BY <1>7, <1>8, <1>13 DEF InHash, ReadsLine
<1>20. newCount' \in Nat
  BY DEF Inv, TypesInv, CountTypes
<1> QED BY <1>11, <1>14, <1>17, <1>18, <1>19, <1>20, ReadsLineKeeps DEF MatchInv

\* A line is read, one of four kinds.
LEMMA Readings ==
    ASSUME Inv, HandleUntagged
    PROVE  \E l : /\ ReadsLine(l) /\ edited' = edited \cap ToSet(l.box)
                  /\ UNCHANGED <<idling, todo, rc, handle>>
                  /\ \/ /\ l.kind = "EXISTS" /\ ParseExists(l.n)
                        /\ UNCHANGED <<index, msn, hash, mchanged, check>>
                     \/ /\ l.kind = "EXPUNGE" /\ ParseExpunge(l.n)
                        /\ UNCHANGED <<hash, mchanged, newCount, check>>
                     \/ /\ l.kind = "FETCH" \/ (l.kind = "DATA" /\ Slot(l.n) # Null)
                        /\ ParseFetch(l.n, l.flags) /\ UNCHANGED <<msn, hash, newCount>>
                     \/ /\ l.kind = "DATA" /\ Slot(l.n) = Null
                        /\ NewMessage(l.n, l.box[l.n], l.flags)
                        /\ UNCHANGED <<mchanged, reopen, newCount, check>>
<1> DEFINE l == Head(wire)
<1>1. ReadsLine(l)
  BY DEF HandleUntagged, Untagged, ReadsLine, srvVars
<1>2. l.kind # "VANISHED"
  <2> HIDE DEF l
  <2> QED BY <1>1, LineFacts DEF Follows
<1> QED BY <1>1, <1>2 DEF HandleUntagged, idxVars, mboxVars

LEMMA HandleUntaggedKeeps == Inv /\ HandleUntagged => Inv'
BY Readings, ExistsKeeps, ExpungeKeeps, FetchKeeps, NewMessageKeeps

-----------------------------------------------------------------------------
(* The theorems *)

LEMMA ClientKeeps == Inv /\ (Client \/ User) => Inv'
<1> SUFFICES ASSUME Inv, Client \/ User PROVE Inv'
  OBVIOUS
<1>1. CASE Quiet \/ Fetching \/ Sending \/ MarkDeleted \/ Stored \/ Edit \/ MsgOpen \/ MsgOpened
  BY <1>1, QuietEffect, FetchingEffect, SendingEffect, MarkDeletedEffect, StoredEffect, EditEffect,
     MsgOpenEffect, PlainKeeps
<1>2. CASE Purge
  BY <1>2, PurgeKeeps
<1>3. CASE HandleUntagged
  BY <1>3, HandleUntaggedKeeps
<1> QED BY <1>1, <1>2, <1>3 DEF Client, User, Quiet, Fetching, Sending

LEMMA ServerKeeps == Inv /\ world.push = "EXPUNGE" /\ Server => Inv'
<1> SUFFICES ASSUME Inv, world.push = "EXPUNGE", Server PROVE Inv'
  OBVIOUS
<1>1. ServerEffect
  BY ServerStep
<1>2. WireTypes' /\ BoxInv'
  BY <1>1, ServerKeepsBoxes
<1>3. FlagTypes' /\ CmdTypes' /\ world' = world
  BY <1>1 DEF ServerEffect
<1>4. UNCHANGED <<index, msn, hash, newCount, fetch, told>>
  BY <1>1 DEF ServerEffect, ToClient, idxVars, mboxVars
<1>5. IndexTypes' /\ TableTypes' /\ CountTypes'
  BY <1>3, <1>4, SameSets DEF Inv, TypesInv, IndexTypes, TableTypes, CountTypes
<1>6. MatchInv'
  BY <1>3, <1>4 DEF Inv, MatchInv, NumbersAgree, NumbersMatch, Slot, InHash
<1> QED BY <1>2, <1>3, <1>5, <1>6 DEF Inv, TypesInv

LEMMA WorldFixed == [Next]_vars => world' = world
<1> SUFFICES ASSUME [Next]_vars PROVE world' = world
  OBVIOUS
<1>1. CASE Server
  BY <1>1 DEF Server, Take, Deliver, OthersExpunge, OthersFlag, AnswerPlain, AnswerFetch,
              AnswerStore, AnswerExpunge, AnswerBatch
<1>2. CASE Client
  BY <1>2 DEF Client, HandleUntagged, Completed, NotAllowed, Purge, ReadHeaders, NothingToFetch,
              SendFetch, Fetched, AllFetched, Finished, Idle, Polled, Noop, TooSoon, Status,
              Disallow, MarkDeleted, Collect, Stored, StoreFailed, SendExpunge, Expunged, MsgOpened
<1>3. CASE User
  BY <1>3 DEF User, Check, Sync, Edit, MsgOpen
<1>4. CASE UNCHANGED vars
  BY <1>4 DEF vars
<1> QED BY <1>1, <1>2, <1>3, <1>4 DEF Next

LEMMA StuttersKeep == Inv /\ UNCHANGED vars => Inv'
<1> SUFFICES ASSUME Inv, UNCHANGED vars PROVE Inv'
  OBVIOUS
<1>1. UNCHANGED NumberVars /\ UNCHANGED <<req, batch, newCount, fetch>> /\ Reads
  BY DEF vars, srvVars, idxVars, mboxVars, NumberVars, Reads
<1> QED BY <1>1, QuietKeeps, PlainKeeps

LEMMA InitInv == Init => Inv
<1> SUFFICES ASSUME Init PROVE Inv
  OBVIOUS
<1>1. /\ world \in Scenarios /\ srv = [i \in 1 .. Old |-> i] /\ told = srv /\ msn = srv
      /\ sflags = [u \in 1 .. Old |-> Clear]
      /\ serving = NoReq /\ req = NoReq /\ wire = <<>> /\ batch = <<>>
      /\ index = [u \in 1 .. Old |-> NewEmail(u, Clear)]
      /\ hash = 1 .. Old /\ newCount = 0 /\ fetch = [begin |-> 1, end |-> 0, sent |-> 0]
  BY DEF Init
<1>2. Old \in Nat /\ Old \in 0 .. MaxUid /\ 1 .. Old \subseteq Uid
  BY MailboxAssumption DEF Uid
<1>3. srv \in Seq(Uid) /\ DOMAIN srv = 1 .. Old /\ Len(srv) = Old /\ msn \in Seq(Uid \cup {Null})
  <2>1. srv \in [1 .. Old -> Uid] /\ msn \in [1 .. Old -> Uid \cup {Null}]
    BY <1>1, <1>2
  <2>2. srv \in Seq(Uid) /\ msn \in Seq(Uid \cup {Null})
    BY <1>2, <2>1, SeqDef
  <2> QED BY <1>1, <1>2, <2>2
<1>4. \A u \in 1 .. Old : /\ NewEmail(u, Clear) \in EmailSet
                          /\ NewEmail(u, Clear).msn = u /\ ~NewEmail(u, Clear).gone
  <2> TAKE u \in 1 .. Old
  <2>1. /\ u \in Nat /\ Clear \in FlagSet
        /\ Clear.deleted \in DeletedSet /\ Clear.flag \in BOOLEAN
    BY <1>2, ClearIsFlags DEF FlagSet
  <2> QED BY <2>1 DEF NewEmail, EmailSet
<1>5. NoReq \in RequestSet /\ <<>> \in Seq(LineSet) /\ <<>> \in Seq(CmdSet)
  BY EmptySeq DEF NoReq, RequestSet
<1>6. index \in [1 .. Old -> EmailSet] /\ DOMAIN index = 1 .. Old
  BY <1>1, <1>4
<1>7. TypesInv
  <2>1. WireTypes /\ CmdTypes /\ TableTypes /\ CountTypes
    BY <1>1, <1>3, <1>5 DEF WireTypes, CmdTypes, TableTypes, CountTypes
  <2>2. FlagTypes
    BY <1>1, <1>2, <1>3, ClearIsFlags DEF FlagTypes
  <2>3. IndexTypes
    BY <1>2, <1>6 DEF IndexTypes
  <2> QED BY <2>1, <2>2, <2>3 DEF TypesInv
<1>8. DOMAIN wire = {}
  BY <1>1
<1>9. BoxInv
  <2>1. Chain
    BY <1>1, <1>8 DEF Chain, BoxAfter
  <2>2. Rising
    BY <1>8 DEF Rising
  <2>3. Known /\ Distinct
    BY <1>1, <1>3 DEF Known, Distinct
  <2> QED BY <2>1, <2>2, <2>3 DEF BoxInv
<1>10. MatchInv
  <2>1. NumbersAgree
    BY <1>1 DEF NumbersAgree
  <2>2. NumbersMatch
    <3>1. \A u \in 1 .. Old : msn[u] = u /\ index[u].msn = u /\ ~index[u].gone
      BY <1>1, <1>4
    <3> QED BY <1>1, <1>3, <1>6, <3>1 DEF NumbersMatch, Slot
  <2>3. InHash
    BY <1>1, <1>6 DEF InHash
  <2> QED BY <2>1, <2>2, <2>3 DEF MatchInv
<1> QED BY <1>1, <1>7, <1>9, <1>10 DEF Inv

ExpungeInv == world.push = "EXPUNGE" => Inv

LEMMA ExpungeInvStep == ExpungeInv /\ [Next]_vars => ExpungeInv'
BY WorldFixed, ClientKeeps, ServerKeeps, StuttersKeep DEF ExpungeInv, Next

LEMMA ExpungeInvHolds == Spec => []ExpungeInv
<1>1. Init => ExpungeInv
  BY InitInv DEF ExpungeInv
<1> QED BY <1>1, ExpungeInvStep, PTL DEF Spec

\* The number that the client has for a message is the one the server means by
\* it, in every environment in which removals are reported by EXPUNGE:
\* cmd_parse_exists(), cmd_parse_expunge(), read_headers_fetch_new(),
\* update_tables().
THEOREM NumbersKept == Spec => [](world.push = "EXPUNGE" => NumbersAgree)
<1>1. ExpungeInv => (world.push = "EXPUNGE" => NumbersAgree)
  BY DEF ExpungeInv, Inv, MatchInv
<1> QED BY <1>1, ExpungeInvHolds, PTL

\* There the table and the numbers in the emails agree, no slot points at an
\* email that has left the index, and imap_msn and uid_hash find every email:
\* cmd_parse_expunge(), imap_expunge_mailbox(), update_tables().
THEOREM EmailsKept == Spec => [](world.push = "EXPUNGE" => NumbersMatch /\ DOMAIN index \subseteq hash)
<1>1. ExpungeInv => (world.push = "EXPUNGE" => NumbersMatch /\ DOMAIN index \subseteq hash)
  BY DEF ExpungeInv, Inv, MatchInv, InHash
<1> QED BY <1>1, ExpungeInvHolds, PTL

\* When moreover the user deletes nothing, uid_hash has no email besides: it is
\* update_tables() that leaves deleted ones there.
THEOREM TableKept ==
    Spec => [](world.push = "EXPUNGE" /\ "delete" \notin world.user => TableMatchesIndex)
<1>1. ExpungeInv => (world.push = "EXPUNGE" /\ "delete" \notin world.user => TableMatchesIndex)
  BY DEF ExpungeInv, Inv, MatchInv, InHash, TableMatchesIndex
<1> QED BY <1>1, ExpungeInvHolds, PTL

-----------------------------------------------------------------------------
(* What the client has still to do, one command at a time *)

\* What may be left to do when the client has done what it is at: the rest of
\* imap_mbox_check(), of a sync that keeps deleted messages or purges them,
\* after a STORE, after the EXPUNGE, of imap_msg_open().
ToReport == <<"disallow">>
ToStatus == <<"status">> \o ToReport
ToFinish == <<"finish">> \o ToStatus
ToStore  == <<"collect">>
KeepStatus == <<"status">> \o ToStore
KeepFinish == <<"finish">> \o KeepStatus
ToPurge  == <<"purge">>
ToMark   == <<"mark">> \o ToPurge
PurgeStatus == <<"status">> \o ToMark
PurgeFinish == <<"finish">> \o PurgeStatus
ToNote   == <<"stored">>
ToNoteAndPurge == <<"stored">> \o ToPurge
ToForget == <<"expunged">>
ToShow   == <<"opened">>

Tasks == {"probe", "wait", "poll", "finish", "fetch", "fetching", "fetched", "status", "disallow",
          "collect", "mark", "purge", "stored", "expunged", "opened"}

Statuses == {ToStatus, KeepStatus, PurgeStatus}
Finishes == {ToFinish, KeepFinish, PurgeFinish}
Notes    == {ToNote, ToNoteAndPurge}

Fits(h, r) ==
    \/ h = "wait" /\ r \in Finishes \cup Notes \cup {ToForget, ToShow}
    \/ /\ h \in {"finish", "fetch", "fetching", "fetched"}
       /\ r \in Statuses \cup Finishes \cup Notes \cup {ToForget, ToShow}
    \/ h = "poll" /\ r \in Finishes
    \/ h = "probe" /\ r \in Statuses
    \/ h = "status" /\ r \in {ToReport, ToStore, ToMark}
    \/ h = "mark" /\ r = ToPurge
    \/ h \in {"collect", "stored"} /\ r \in {<<>>, ToPurge}
    \/ h \in {"disallow", "purge", "expunged", "opened"} /\ r = <<>>

Shape == todo \in Seq(Tasks) /\ (Busy => Fits(Head(todo), Tail(todo)))

LEMMA Consed ==
    ASSUME NEW S, NEW h \in S, NEW r \in Seq(S), NEW t, t = <<h>> \o r
    PROVE  t \in Seq(S) /\ t # <<>> /\ Head(t) = h /\ Tail(t) = r
<1>1. PICK n \in Nat : n = Len(r) /\ DOMAIN r = 1 .. n
  BY LenProperties
<1>2. <<h>> \in Seq(S) /\ Len(<<h>>) = 1 /\ <<h>>[1] = h
  OBVIOUS
<1>3. /\ t \in Seq(S) /\ Len(t) = 1 + n
      /\ \A i \in 1 .. 1 + n : t[i] = IF i <= 1 THEN h ELSE r[i - 1]
  BY <1>1, <1>2, ConcatProperties
<1>4. t # <<>>
  BY <1>1, <1>3
<1>5. Head(t) = h
  <2>1. 1 \in 1 .. 1 + n
    BY <1>1
  <2> QED BY <1>3, <1>4, <2>1
<1>6. Tail(t) \in Seq(S) /\ Len(Tail(t)) = n /\ \A i \in 1 .. n : Tail(t)[i] = t[i + 1]
  <2>1. (1 + n) - 1 = n
    BY <1>1
  <2> QED BY <1>3, <1>4, <2>1, HeadTailProperties
<1>7. \A i \in 1 .. n : Tail(t)[i] = r[i]
  <2> TAKE i \in 1 .. n
  <2>1. i + 1 \in 1 .. 1 + n /\ ~(i + 1 <= 1) /\ (i + 1) - 1 = i
    BY <1>1
  <2> QED BY <1>3, <1>6, <2>1
<1>8. Tail(t) = r
  BY <1>1, <1>6, <1>7, SeqEqual
<1> QED BY <1>3, <1>4, <1>5, <1>8

LEMMA NothingMore ==
    ASSUME NEW S, NEW r \in Seq(S)
    PROVE  <<>> \o r = r /\ r \o <<>> = r
OBVIOUS

LEMMA Single ==
    ASSUME NEW S, NEW h \in S
    PROVE  <<h>> \in Seq(S) /\ <<h>> # <<>> /\ Head(<<h>>) = h /\ Tail(<<h>>) = <<>>
OBVIOUS

LEMMA Paired ==
    ASSUME NEW S, NEW a \in S, NEW b \in S, NEW r \in Seq(S)
    PROVE  <<a, b>> \o r = <<a>> \o (<<b>> \o r)
<1>1. <<a, b>> \in Seq(S) /\ Len(<<a, b>>) = 2 /\ <<a, b>>[1] = a /\ <<a, b>>[2] = b
      /\ <<a>> \in Seq(S) /\ Len(<<a>>) = 1 /\ <<a>>[1] = a
      /\ <<b>> \in Seq(S) /\ Len(<<b>>) = 1 /\ <<b>>[1] = b
  OBVIOUS
<1>2. PICK n \in Nat : n = Len(r) /\ DOMAIN r = 1 .. n
  BY LenProperties
<1>3. /\ <<a, b>> \o r \in Seq(S) /\ Len(<<a, b>> \o r) = n + 2
      /\ \A i \in 1 .. n + 2 : (<<a, b>> \o r)[i] = IF i <= 2 THEN <<a, b>>[i] ELSE r[i - 2]
  <2>1. 2 + n = n + 2
    BY <1>2
  <2> QED BY <1>1, <1>2, <2>1, ConcatProperties
<1> DEFINE t == <<b>> \o r
<1>4. /\ t \in Seq(S) /\ Len(t) = n + 1
      /\ \A i \in 1 .. n + 1 : t[i] = IF i <= 1 THEN b ELSE r[i - 1]
  <2>1. 1 + n = n + 1
    BY <1>2
  <2>2. \A i \in 1 .. n + 1 : i <= 1 => <<b>>[i] = b
    BY <1>2
  <2> QED BY <1>1, <1>2, <2>1, <2>2, ConcatProperties
<1> HIDE DEF t
<1>5. /\ <<a>> \o t \in Seq(S) /\ Len(<<a>> \o t) = n + 2
      /\ \A i \in 1 .. n + 2 : (<<a>> \o t)[i] = IF i <= 1 THEN a ELSE t[i - 1]
  <2>1. 1 + (n + 1) = n + 2
    BY <1>2
  <2>2. \A i \in 1 .. n + 2 : i <= 1 => <<a>>[i] = a
    BY <1>2
  <2> QED BY <1>1, <1>4, <2>1, <2>2, ConcatProperties
<1>6. ASSUME NEW i \in 1 .. n + 2
      PROVE  (<<a, b>> \o r)[i] = (<<a>> \o t)[i]
  <2>1. CASE i = 1
    BY <1>1, <1>3, <1>5, <2>1
  <2>2. CASE i = 2
    <3>1. 1 \in 1 .. n + 1 /\ 2 - 1 = 1
      BY <1>2
    <3> QED BY <1>1, <1>3, <1>4, <1>5, <2>2, <3>1
  <2>3. CASE i > 2
    <3>1. i - 1 \in 1 .. n + 1 /\ ~(i <= 2) /\ ~(i <= 1) /\ ~(i - 1 <= 1) /\ (i - 1) - 1 = i - 2
      BY <1>2, <2>3
    <3> QED BY <1>3, <1>4, <1>5, <3>1
  <2>4. i = 1 \/ i = 2 \/ i > 2
    BY <1>2
  <2> QED BY <2>1, <2>2, <2>3, <2>4
<1>7. <<a, b>> \o r = <<a>> \o t
  BY <1>3, <1>5, <1>6, SeqEqual
<1> QED BY <1>7 DEF t

LEMMA RestFacts ==
    /\ <<>> \in Seq(Tasks)
    /\ ToReport \in Seq(Tasks) /\ ToReport # <<>> /\ Head(ToReport) = "disallow" /\ Tail(ToReport) = <<>>
    /\ ToStore \in Seq(Tasks) /\ ToStore # <<>> /\ Head(ToStore) = "collect" /\ Tail(ToStore) = <<>>
    /\ ToPurge \in Seq(Tasks) /\ ToPurge # <<>> /\ Head(ToPurge) = "purge" /\ Tail(ToPurge) = <<>>
    /\ ToNote \in Seq(Tasks) /\ ToNote # <<>> /\ Head(ToNote) = "stored" /\ Tail(ToNote) = <<>>
    /\ ToForget \in Seq(Tasks) /\ ToForget # <<>> /\ Head(ToForget) = "expunged" /\ Tail(ToForget) = <<>>
    /\ ToShow \in Seq(Tasks) /\ ToShow # <<>> /\ Head(ToShow) = "opened" /\ Tail(ToShow) = <<>>
    /\ ToStatus \in Seq(Tasks) /\ ToStatus # <<>> /\ Head(ToStatus) = "status" /\ Tail(ToStatus) = ToReport
    /\ ToFinish \in Seq(Tasks) /\ ToFinish # <<>> /\ Head(ToFinish) = "finish" /\ Tail(ToFinish) = ToStatus
    /\ KeepStatus \in Seq(Tasks) /\ KeepStatus # <<>> /\ Head(KeepStatus) = "status" /\ Tail(KeepStatus) = ToStore
    /\ KeepFinish \in Seq(Tasks) /\ KeepFinish # <<>> /\ Head(KeepFinish) = "finish" /\ Tail(KeepFinish) = KeepStatus
    /\ ToMark \in Seq(Tasks) /\ ToMark # <<>> /\ Head(ToMark) = "mark" /\ Tail(ToMark) = ToPurge
    /\ PurgeStatus \in Seq(Tasks) /\ PurgeStatus # <<>> /\ Head(PurgeStatus) = "status" /\ Tail(PurgeStatus) = ToMark
    /\ PurgeFinish \in Seq(Tasks) /\ PurgeFinish # <<>> /\ Head(PurgeFinish) = "finish" /\ Tail(PurgeFinish) = PurgeStatus
    /\ ToNoteAndPurge \in Seq(Tasks) /\ ToNoteAndPurge # <<>> /\ Head(ToNoteAndPurge) = "stored"
    /\ Tail(ToNoteAndPurge) = ToPurge
<1>0. <<>> \in Seq(Tasks)
  OBVIOUS
<1>1. /\ ToReport \in Seq(Tasks) /\ ToReport # <<>> /\ Head(ToReport) = "disallow" /\ Tail(ToReport) = <<>>
      /\ ToStore \in Seq(Tasks) /\ ToStore # <<>> /\ Head(ToStore) = "collect" /\ Tail(ToStore) = <<>>
      /\ ToPurge \in Seq(Tasks) /\ ToPurge # <<>> /\ Head(ToPurge) = "purge" /\ Tail(ToPurge) = <<>>
  BY Single DEF Tasks, ToReport, ToStore, ToPurge
<1>2. /\ ToNote \in Seq(Tasks) /\ ToNote # <<>> /\ Head(ToNote) = "stored" /\ Tail(ToNote) = <<>>
      /\ ToForget \in Seq(Tasks) /\ ToForget # <<>> /\ Head(ToForget) = "expunged" /\ Tail(ToForget) = <<>>
      /\ ToShow \in Seq(Tasks) /\ ToShow # <<>> /\ Head(ToShow) = "opened" /\ Tail(ToShow) = <<>>
  BY Single DEF Tasks, ToNote, ToForget, ToShow
<1>3. /\ ToStatus \in Seq(Tasks) /\ ToStatus # <<>> /\ Head(ToStatus) = "status" /\ Tail(ToStatus) = ToReport
  <2>1. "status" \in Tasks /\ "finish" \in Tasks /\ "mark" \in Tasks /\ "stored" \in Tasks
    BY DEF Tasks
  <2> QED BY <1>1, <2>1, Consed DEF ToStatus
<1>4. ToFinish \in Seq(Tasks) /\ ToFinish # <<>> /\ Head(ToFinish) = "finish" /\ Tail(ToFinish) = ToStatus
  <2>1. "status" \in Tasks /\ "finish" \in Tasks /\ "mark" \in Tasks /\ "stored" \in Tasks
    BY DEF Tasks
  <2> QED BY <1>3, <2>1, Consed DEF ToFinish
<1>5. KeepStatus \in Seq(Tasks) /\ KeepStatus # <<>> /\ Head(KeepStatus) = "status" /\ Tail(KeepStatus) = ToStore
  <2>1. "status" \in Tasks /\ "finish" \in Tasks /\ "mark" \in Tasks /\ "stored" \in Tasks
    BY DEF Tasks
  <2> QED BY <1>1, <2>1, Consed DEF KeepStatus
<1>6. KeepFinish \in Seq(Tasks) /\ KeepFinish # <<>> /\ Head(KeepFinish) = "finish" /\ Tail(KeepFinish) = KeepStatus
  <2>1. "status" \in Tasks /\ "finish" \in Tasks /\ "mark" \in Tasks /\ "stored" \in Tasks
    BY DEF Tasks
  <2> QED BY <1>5, <2>1, Consed DEF KeepFinish
<1>7. ToMark \in Seq(Tasks) /\ ToMark # <<>> /\ Head(ToMark) = "mark" /\ Tail(ToMark) = ToPurge
  <2>1. "status" \in Tasks /\ "finish" \in Tasks /\ "mark" \in Tasks /\ "stored" \in Tasks
    BY DEF Tasks
  <2> QED BY <1>1, <2>1, Consed DEF ToMark
<1>8. PurgeStatus \in Seq(Tasks) /\ PurgeStatus # <<>> /\ Head(PurgeStatus) = "status" /\ Tail(PurgeStatus) = ToMark
  <2>1. "status" \in Tasks /\ "finish" \in Tasks /\ "mark" \in Tasks /\ "stored" \in Tasks
    BY DEF Tasks
  <2> QED BY <1>7, <2>1, Consed DEF PurgeStatus
<1>9. PurgeFinish \in Seq(Tasks) /\ PurgeFinish # <<>> /\ Head(PurgeFinish) = "finish" /\ Tail(PurgeFinish) = PurgeStatus
  <2>1. "status" \in Tasks /\ "finish" \in Tasks /\ "mark" \in Tasks /\ "stored" \in Tasks
    BY DEF Tasks
  <2> QED BY <1>8, <2>1, Consed DEF PurgeFinish
<1>10. /\ ToNoteAndPurge \in Seq(Tasks) /\ ToNoteAndPurge # <<>> /\ Head(ToNoteAndPurge) = "stored"
       /\ Tail(ToNoteAndPurge) = ToPurge
  <2>1. "status" \in Tasks /\ "finish" \in Tasks /\ "mark" \in Tasks /\ "stored" \in Tasks
    BY DEF Tasks
  <2> QED BY <1>1, <2>1, Consed DEF ToNoteAndPurge
<1> QED BY <1>0, <1>1, <1>2, <1>3, <1>4, <1>5, <1>6, <1>7, <1>8, <1>9, <1>10

LEMMA Literals ==
    /\ <<"probe", "status", "disallow">> = <<"probe">> \o ToStatus
    /\ <<"probe", "status">> \o <<"mark", "purge">> = <<"probe">> \o PurgeStatus
    /\ <<"probe", "status">> \o <<"collect">> = <<"probe">> \o KeepStatus
    /\ <<"wait", "opened">> = <<"wait">> \o ToShow
BY DEF ToStatus, ToReport, PurgeStatus, ToMark, ToPurge, KeepStatus, ToStore, ToShow

\* What Then() leaves.
LEMMA Goes ==
    ASSUME Shape, Busy
    PROVE  /\ Tail(todo) \in Seq(Tasks) /\ Head(todo) \in Tasks
           /\ Then(<<>>) => todo' = Tail(todo)
           /\ \A a \in Tasks : Then(<<a>>) =>
                 todo' \in Seq(Tasks) /\ todo' # <<>> /\ Head(todo') = a /\ Tail(todo') = Tail(todo)
           /\ \A a, b \in Tasks : Then(<<a, b>>) =>
                 /\ todo' \in Seq(Tasks) /\ todo' # <<>> /\ Head(todo') = a
                 /\ Tail(todo') = <<b>> \o Tail(todo)
<1>1. Tail(todo) \in Seq(Tasks) /\ Head(todo) \in Tasks
  BY HeadTailProperties DEF Shape, Busy
<1>2. Then(<<>>) => todo' = Tail(todo)
  BY <1>1, NothingMore DEF Then
<1>3. ASSUME NEW a \in Tasks, Then(<<a>>)
      PROVE  todo' \in Seq(Tasks) /\ todo' # <<>> /\ Head(todo') = a /\ Tail(todo') = Tail(todo)
  <2>1. todo' = <<a>> \o Tail(todo)
    BY <1>3 DEF Then
  <2> QED BY <1>1, <2>1, Consed
<1>4. ASSUME NEW a \in Tasks, NEW b \in Tasks, Then(<<a, b>>)
      PROVE  /\ todo' \in Seq(Tasks) /\ todo' # <<>> /\ Head(todo') = a
             /\ Tail(todo') = <<b>> \o Tail(todo)
  <2> DEFINE r == Tail(todo)
  <2>1. todo' = <<a, b>> \o r
    BY <1>4 DEF Then
  <2>2. r \in Seq(Tasks)
    BY <1>1
  <2> HIDE DEF r
  <2>3. <<a, b>> \o r = <<a>> \o (<<b>> \o r)
    BY <2>2, Paired
  <2>4. <<b>> \o r \in Seq(Tasks)
    BY <2>2, Consed
  <2>5. Tail(todo') = <<b>> \o r /\ todo' \in Seq(Tasks) /\ todo' # <<>> /\ Head(todo') = a
    BY <2>1, <2>3, <2>4, Consed
  <2> QED BY <2>5 DEF r
<1> QED BY <1>1, <1>2, <1>3, <1>4

Rests == Statuses \cup Finishes \cup Notes
         \cup {ToForget, ToShow, ToReport, ToStore, ToMark, ToPurge, <<>>}

LEMMA RestsFit ==
    ASSUME NEW r \in Rests
    PROVE  /\ r \in Seq(Tasks) /\ (r # <<>> => Fits(Head(r), Tail(r)))
           /\ r # <<>> => Head(r) \notin {"wait", "fetching", "fetch", "fetched"}
<1>1. CASE r \in Statuses
  BY <1>1, RestFacts DEF Fits, Statuses
<1>2. CASE r \in Finishes
  BY <1>2, RestFacts DEF Fits, Finishes, Statuses
<1>3. CASE r \in Notes
  BY <1>3, RestFacts DEF Fits, Notes
<1>4. CASE r \in {ToForget, ToShow, ToReport, ToStore, ToMark, ToPurge, <<>>}
  BY <1>4, RestFacts DEF Fits
<1> QED BY <1>1, <1>2, <1>3, <1>4 DEF Rests

LEMMA FitsRests ==
    ASSUME NEW h, NEW r, Fits(h, r)
    PROVE  r \in Rests
BY DEF Fits, Rests

LEMMA ShapeOn ==
    ASSUME Shape, Busy, Then(<<>>)
    PROVE  Shape'
<1>1. todo' = Tail(todo) /\ Fits(Head(todo), Tail(todo))
  BY Goes DEF Shape
<1> QED BY <1>1, FitsRests, RestsFit DEF Shape, Busy

LEMMA ShapeOne ==
    ASSUME Shape, Busy, NEW a \in Tasks, Then(<<a>>), Fits(a, Tail(todo))
    PROVE  Shape'
BY Goes DEF Shape, Busy

LEMMA ShapeTwo ==
    ASSUME Shape, Busy, NEW a \in Tasks, NEW b \in Tasks, Then(<<a, b>>),
           Fits(a, <<b>> \o Tail(todo))
    PROVE  Shape'
BY Goes DEF Shape, Busy

LEMMA ShapeNew ==
    ASSUME NEW h \in Tasks, NEW r \in Rests, todo' = <<h>> \o r, Fits(h, r)
    PROVE  Shape'
<1>1. r \in Seq(Tasks)
  BY RestsFit
<1>2. todo' \in Seq(Tasks) /\ todo' # <<>> /\ Head(todo') = h /\ Tail(todo') = r
  BY <1>1, Consed
<1> QED BY <1>2 DEF Shape, Busy

LEMMA Doings ==
    /\ "probe" \in Tasks /\ "wait" \in Tasks /\ "poll" \in Tasks /\ "finish" \in Tasks
    /\ "fetch" \in Tasks /\ "fetching" \in Tasks /\ "fetched" \in Tasks /\ "collect" \in Tasks
    /\ "stored" \in Tasks /\ "expunged" \in Tasks
BY DEF Tasks

LEMMA ShapeKept == Shape /\ (Client \/ User) => Shape'
<1> SUFFICES ASSUME Shape, Client \/ User PROVE Shape'
  OBVIOUS
<1>1. CASE HandleUntagged \/ Purge \/ Edit
  BY <1>1 DEF HandleUntagged, Purge, Edit, Shape, Busy
<1>2. CASE NotAllowed \/ NothingToFetch \/ Finished \/ Polled \/ Status \/ Disallow \/ Stored \/ Expunged
           \/ MsgOpened
  <2>1. Busy /\ Then(<<>>)
    BY <1>2 DEF NotAllowed, NothingToFetch, Finished, Polled, Status, Disallow, Stored, Expunged,
                MsgOpened, At
  <2> QED BY <2>1, ShapeOn
<1>3. CASE Completed \/ TooSoon
  <2>1. Busy /\ Head(todo) \in {"wait", "probe"} /\ Then(<<"finish">>)
    BY <1>3 DEF Completed, TooSoon, At
  <2>2. Fits("finish", Tail(todo))
    BY <2>1 DEF Shape, Fits
  <2> QED BY <2>1, <2>2, ShapeOne, Doings
<1>4. CASE ReadHeaders \/ SendFetch \/ Fetched \/ AllFetched
  <2>1. PICK a \in {"fetch", "fetching", "fetched"} :
           Busy /\ Head(todo) \in {"finish", "fetch", "fetching"} /\ Then(<<a>>)
    BY <1>4 DEF ReadHeaders, SendFetch, Fetched, AllFetched, At
  <2>2. Fits(a, Tail(todo)) /\ a \in Tasks
    BY <2>1 DEF Shape, Fits, Tasks
  <2> QED BY <2>1, <2>2, ShapeOne
<1>5. CASE Idle \/ Noop
  <2>1. PICK a \in {"poll", "wait"} : Busy /\ Head(todo) = "probe" /\ Then(<<a, "finish">>)
    BY <1>5 DEF Idle, Noop, At
  <2>2. Tail(todo) \in Statuses
    BY <2>1 DEF Shape, Fits
  <2>3. <<"finish">> \o Tail(todo) \in Finishes
    BY <2>2 DEF Statuses, Finishes, ToFinish, KeepFinish, PurgeFinish
  <2>4. Fits(a, <<"finish">> \o Tail(todo)) /\ a \in Tasks
    BY <2>1, <2>3 DEF Fits, Tasks
  <2> QED BY <2>1, <2>4, ShapeTwo, Doings
<1>6. CASE MarkDeleted
  <2>1. Busy /\ Head(todo) = "mark" /\ Then(<<"collect">>)
    BY <1>6 DEF MarkDeleted, At
  <2>2. Fits("collect", Tail(todo))
    BY <2>1 DEF Shape, Fits
  <2> QED BY <2>1, <2>2, ShapeOne, Doings
<1>7. CASE Collect
  <2>1. Busy /\ Head(todo) = "collect" /\ (Then(<<"stored">>) \/ Then(<<"wait", "stored">>))
    BY <1>7 DEF Collect, At
  <2>2. Tail(todo) \in {<<>>, ToPurge}
    BY <2>1 DEF Shape, Fits
  <2>3. <<"stored">> \o Tail(todo) \in Notes
    <3>1. CASE Tail(todo) = <<>>
      <4>1. ToNote \o <<>> = ToNote
        BY RestFacts, NothingMore
      <4> QED BY <3>1, <4>1 DEF Notes, ToNote
    <3>2. CASE Tail(todo) = ToPurge
      BY <3>2 DEF Notes, ToNoteAndPurge
    <3> QED BY <2>2, <3>1, <3>2
  <2>4. Fits("stored", Tail(todo)) /\ Fits("wait", <<"stored">> \o Tail(todo))
    BY <2>2, <2>3 DEF Fits
  <2> QED BY <2>1, <2>4, ShapeOne, ShapeTwo, Doings
<1>8. CASE SendExpunge
  <2>1. Busy /\ Head(todo) = "purge" /\ Then(<<"wait", "expunged">>)
    BY <1>8 DEF SendExpunge, At
  <2>2. Tail(todo) = <<>>
    BY <2>1 DEF Shape, Fits
  <2>3. <<"expunged">> \o Tail(todo) = ToForget
    BY <2>2, RestFacts, NothingMore DEF ToForget
  <2>4. Fits("wait", <<"expunged">> \o Tail(todo))
    BY <2>3 DEF Fits
  <2> QED BY <2>1, <2>4, ShapeTwo, Doings
<1>9. CASE StoreFailed
  BY <1>9, RestFacts DEF StoreFailed, Shape, Busy
<1>10. CASE Check
  <2>1. todo' = <<"probe">> \o ToStatus
    BY <1>10, Literals DEF Check
  <2> QED BY <2>1, Doings, ShapeNew DEF Fits, Statuses, Rests
<1>11. CASE Sync
  <2>1. \E purge \in BOOLEAN :
           todo' = <<"probe", "status">> \o (IF purge THEN <<"mark", "purge">> ELSE <<"collect">>)
    BY <1>11 DEF Sync
  <2>2. todo' = <<"probe">> \o PurgeStatus \/ todo' = <<"probe">> \o KeepStatus
    BY <2>1, Literals
  <2> QED BY <2>2, Doings, ShapeNew DEF Fits, Statuses, Rests
<1>12. CASE MsgOpen
  <2>1. todo' = <<"wait">> \o ToShow
    BY <1>12, Literals DEF MsgOpen
  <2> QED BY <2>1, Doings, ShapeNew DEF Fits, Rests
<1> QED BY <1>1, <1>2, <1>3, <1>4, <1>5, <1>6, <1>7, <1>8, <1>9, <1>10, <1>11, <1>12 DEF Client, User

Idling == {"none", "IDLE"}

\* The command that imap_exec() waits for.
Expected ==
    IF At("fetching") THEN {"FETCH"}
    ELSE IF ~At("wait") THEN {}
    ELSE {IF Tail(todo) \in Notes \cup {ToForget} THEN "STORE"
          ELSE IF Tail(todo) = ToShow THEN "UIDFETCH" ELSE "NOOP"}

Turn ==
    /\ serving.kind \in Idling \cup Expected /\ req.kind \in Idling \cup Expected
    /\ serving.kind \notin Idling => req.kind = "none"
    /\ \A i \in DOMAIN wire : wire[i].kind = "tagged" =>
          i = Len(wire) /\ Expected # {} /\ serving.kind = "none" /\ req.kind = "none"
    /\ \A i \in DOMAIN wire : wire[i].kind = "DATA" => Len(wire) = 1 /\ serving.kind = "FETCH"
    /\ \A c \in {serving, req} : c.kind = "STORE" => (c.expunge <=> Tail(todo) = ToForget)

LEMMA Written ==
    ASSUME Inv, NEW l, wire' = Append(wire, l)
    PROVE  \E n \in Nat : /\ n = Len(wire) /\ DOMAIN wire = 1 .. n
                          /\ Len(wire') = n + 1 /\ DOMAIN wire' = 1 .. n + 1
                          /\ \A i \in 1 .. n : wire'[i] = wire[i]
                          /\ wire'[n + 1] = l
                          /\ wire = <<>> => n = 0
<1>1. PICK n \in Nat : n = Len(wire) /\ DOMAIN wire = 1 .. n /\ (n = 0 <=> wire = <<>>)
  BY WireFacts
<1>2. wire \in Seq(LineSet \cup {l})
  BY DEF Inv, TypesInv, WireTypes
<1>3. /\ Len(wire') = n + 1 /\ DOMAIN wire' = 1 .. n + 1
      /\ \A i \in 1 .. n : wire'[i] = wire[i]
      /\ wire'[n + 1] = l
  BY <1>1, <1>2, Appending
<1> QED BY <1>1, <1>3

LEMMA ReadOff ==
    ASSUME Inv, wire # <<>>, wire' = Tail(wire)
    PROVE  \E n \in Nat : /\ n = Len(wire) /\ DOMAIN wire = 1 .. n /\ n # 0
                          /\ Len(wire') = n - 1 /\ DOMAIN wire' = 1 .. n - 1
                          /\ \A i \in 1 .. n - 1 : wire'[i] = wire[i + 1] /\ i + 1 \in 1 .. n
                          /\ Head(wire) = wire[1] /\ 1 \in DOMAIN wire
                          /\ n = 1 => wire' = <<>>
<1>1. PICK n \in Nat : n = Len(wire) /\ DOMAIN wire = 1 .. n /\ n # 0
  BY WireFacts
<1>2. wire \in Seq(LineSet)
  BY DEF Inv, TypesInv, WireTypes
<1>3. /\ wire' \in Seq(LineSet) /\ Len(wire') = n - 1
      /\ \A i \in 1 .. n - 1 : wire'[i] = wire[i + 1]
  BY <1>1, <1>2, HeadTailProperties
<1>4. DOMAIN wire' = 1 .. n - 1
  BY <1>1, <1>3, LenProperties
<1>5. Head(wire) = wire[1] /\ 1 \in DOMAIN wire /\ \A i \in 1 .. n - 1 : i + 1 \in 1 .. n
  BY <1>1, <1>2
<1>6. n = 1 => wire' = <<>>
  BY <1>1, <1>3, EmptySeq
<1> QED BY <1>1, <1>3, <1>4, <1>5, <1>6

LEMMA Requests ==
    ASSUME Inv
    PROVE  \A c \in {serving, req} : (c.kind = "none" <=> c = NoReq)
BY DEF Inv, TypesInv, CmdTypes, RequestSet, NoReq

LEMMA SpokenTurn ==
    ASSUME Inv, Turn, serving.kind # "none", serving.kind # "IDLE" => wire = <<>>,
           NEW l, wire' = Append(wire, l), l.kind \notin {"tagged", "DATA"},
           todo' = todo, serving' = serving, req' = req
    PROVE  Turn'
<1>1. PICK n \in Nat : /\ n = Len(wire) /\ DOMAIN wire = 1 .. n
                       /\ Len(wire') = n + 1 /\ DOMAIN wire' = 1 .. n + 1
                       /\ \A i \in 1 .. n : wire'[i] = wire[i]
                       /\ wire'[n + 1] = l
                       /\ wire = <<>> => n = 0
  BY Written
<1>2. \A i \in 1 .. n : wire[i].kind # "tagged" /\ wire[i].kind # "DATA"
  BY <1>1 DEF Turn, Idling
<1>3. \A i \in 1 .. n + 1 : i \in 1 .. n \/ i = n + 1
  BY <1>1
<1>4. \A i \in DOMAIN wire' : wire'[i].kind # "tagged" /\ wire'[i].kind # "DATA"
  BY <1>1, <1>2, <1>3
<1>5. Expected' = Expected
  BY DEF Expected, At, Busy
<1> QED BY <1>4, <1>5 DEF Turn

LEMMA TaggedTurn ==
    ASSUME Inv, Turn, serving.kind \notin Idling, wire = <<>>, NEW r, Tagged(r),
           todo' = todo, req' = req
    PROVE  Turn'
<1> DEFINE l == [Line("tagged", Null, Clear) EXCEPT !.res = r]
<1>0. wire' = Append(wire, l) /\ serving' = NoReq
  BY DEF Tagged, Say
<1> HIDE DEF l
<1>1. PICK n \in Nat : /\ Len(wire') = n + 1 /\ DOMAIN wire' = 1 .. n + 1 /\ n = 0
  BY <1>0, Written
<1>2. Expected' = Expected /\ serving'.kind = "none" /\ req'.kind = "none" /\ Expected # {}
  BY <1>0 DEF Expected, At, Busy, NoReq, Turn
<1>3. \A i \in DOMAIN wire' : i = Len(wire')
  BY <1>1
<1>4. wire'[1] = l
  BY <1>0, <1>1, Written
<1>5. l.kind = "tagged"
  BY DEF l, Line
<1>6. \A i \in DOMAIN wire' : wire'[i].kind # "DATA"
  BY <1>1, <1>4, <1>5
<1> QED BY <1>2, <1>3, <1>6 DEF Turn, Idling

LEMMA TurnServer == Inv /\ Turn /\ Server => Turn'
<1> SUFFICES ASSUME Inv, Turn, Server PROVE Turn'
  OBVIOUS
<1>0. todo' = todo /\ Expected' = Expected
  <2>1. todo' = todo
    BY DEF Server, Take, Deliver, OthersExpunge, OthersFlag, AnswerPlain, AnswerFetch, AnswerStore,
           AnswerExpunge, AnswerBatch, ToClient
  <2> QED BY <2>1 DEF Expected, At, Busy
<1>1. CASE Take
  <2>1. /\ req # NoReq /\ serving.kind \in Idling /\ serving' = Taken(req) /\ req' = NoReq
        /\ wire' = wire
    BY <1>1 DEF Take, Idling
  <2>2. Taken(req).kind = req.kind /\ (req.kind = "STORE" => Taken(req) = req)
    <3>1. req \in RequestSet
      BY DEF Inv, TypesInv, CmdTypes
    <3> QED BY <3>1 DEF Taken, RequestSet
  <2>3. req.kind # "none" /\ req'.kind = "none"
    BY <2>1, Requests DEF NoReq
  <2>4. \A i \in DOMAIN wire : wire[i].kind # "tagged" /\ wire[i].kind # "DATA"
    BY <2>1, <2>3 DEF Turn, Idling
  <2> QED BY <1>0, <2>1, <2>2, <2>3, <2>4 DEF Turn, Idling
<1>2. CASE Deliver \/ OthersFlag
  <2>1. PICK k, m, f : k \in {"EXISTS", "FETCH"} /\ MaySpeak /\ Say(Line(k, m, f)) /\ serving' = serving /\ req' = req
    BY <1>2 DEF Deliver, OthersFlag
  <2> DEFINE l == Line(k, m, f)
  <2>2. l.kind \notin {"tagged", "DATA"} /\ wire' = Append(wire, l)
    BY <2>1 DEF Line, Say
  <2> HIDE DEF l
  <2>3. serving.kind # "none" /\ (serving.kind # "IDLE" => wire = <<>>)
    BY <2>1 DEF MaySpeak, Serving
  <2> QED BY <1>0, <2>1, <2>2, <2>3, SpokenTurn
<1>3. CASE OthersExpunge \/ AnswerExpunge
  <2>1. PICK i : Removed(i)
    BY <1>3 DEF OthersExpunge, AnswerExpunge
  <2> DEFINE l == Line(world.push, IF world.push = "EXPUNGE" THEN i ELSE srv[i], Clear)
  <2>2. serving' = serving /\ req' = req
    BY <1>3 DEF OthersExpunge, AnswerExpunge
  <2>3. world.push \in {"EXPUNGE", "VANISHED"}
    BY MailboxAssumption DEF Inv, Scenario
  <2>4. l.kind \notin {"tagged", "DATA"} /\ wire' = Append(wire, l)
    BY <2>1, <2>3 DEF Line, Say, Removed
  <2> HIDE DEF l
  <2>5. serving.kind # "none" /\ (serving.kind # "IDLE" => wire = <<>>)
    BY <1>3 DEF OthersExpunge, AnswerExpunge, MaySpeak, Serving
  <2> QED BY <1>0, <2>2, <2>4, <2>5, SpokenTurn
<1>4. CASE AnswerPlain \/ AnswerBatch
  <2>1. serving.kind \notin Idling /\ wire = <<>> /\ req' = req
    BY <1>4 DEF AnswerPlain, AnswerBatch, Serving, Idling
  <2>2. \E r : Tagged(r)
    BY <1>4 DEF AnswerPlain, AnswerBatch
  <2> QED BY <1>0, <2>1, <2>2, TaggedTurn
<1>5. CASE AnswerFetch
  <2>1. serving.kind = "FETCH" /\ wire = <<>> /\ req' = req
    BY <1>5 DEF AnswerFetch, Serving
  <2>2. CASE \E r : Tagged(r)
    BY <1>0, <2>1, <2>2, TaggedTurn DEF Idling
  <2>3. CASE /\ Say(Line("DATA", serving.begin, sflags[srv[serving.begin]]))
             /\ serving' = [serving EXCEPT !.begin = @ + 1]
    <3> DEFINE l == Line("DATA", serving.begin, sflags[srv[serving.begin]])
    <3>1. wire' = Append(wire, l)
      BY <2>3 DEF Say
    <3>2. l.kind = "DATA"
      BY DEF Line
    <3> HIDE DEF l
    <3>3. PICK n \in Nat : Len(wire') = n + 1 /\ DOMAIN wire' = 1 .. n + 1 /\ wire'[n + 1] = l /\ n = 0
      BY <2>1, <3>1, Written
    <3>4. Len(wire') = 1 /\ \A i \in DOMAIN wire' : wire'[i].kind = "DATA"
      BY <3>2, <3>3
    <3>5. serving'.kind = "FETCH"
      <4>1. serving \in [kind : {"FETCH"}, begin : Nat, end : Nat]
        BY <2>1 DEF Inv, TypesInv, CmdTypes, RequestSet
      <4> QED BY <2>3, <4>1
    <3> QED BY <1>0, <2>1, <3>4, <3>5 DEF Turn, Idling
  <2> QED BY <1>5, <2>2, <2>3 DEF AnswerFetch
<1>6. CASE AnswerStore
  <2>1. serving.kind = "STORE" /\ wire' = wire /\ req' = req
        /\ \E ok \in BOOLEAN :
              serving' = [serving EXCEPT !.cmds = Tail(@), !.res = IF ok THEN "OK" ELSE "NO"]
    BY <1>6 DEF AnswerStore, Serving
  <2>2. serving \in [kind : {"STORE"}, cmds : Seq(CmdSet), expunge : BOOLEAN, res : {"OK", "NO"}]
    BY <2>1 DEF Inv, TypesInv, CmdTypes, RequestSet
  <2>3. serving'.kind = "STORE" /\ serving'.expunge = serving.expunge
    BY <2>1, <2>2
  <2> QED BY <1>0, <2>1, <2>3 DEF Turn, Idling
<1> QED BY <1>1, <1>2, <1>3, <1>4, <1>5, <1>6 DEF Server

\* Nothing is asked before or after.
LEMMA UnaskedTurn ==
    ASSUME Turn, Expected = {}, Expected' = {}, wire' = wire, serving' = serving,
           req' = req \/ req' = [kind |-> "IDLE"]
    PROVE  Turn'
<1>1. serving.kind \in Idling /\ req'.kind \in Idling
  BY DEF Turn, Idling
<1>2. \A i \in DOMAIN wire : wire[i].kind # "tagged" /\ wire[i].kind # "DATA"
  BY <1>1 DEF Turn, Idling
<1> QED BY <1>1, <1>2 DEF Turn, Idling

LEMMA AskedTurn ==
    ASSUME Turn, Expected = {}, req'.kind \in Expected', wire' = wire, serving' = serving,
           req'.kind = "STORE" => (req'.expunge <=> Tail(todo') = ToForget)
    PROVE  Turn'
<1>1. serving.kind \in Idling
  BY DEF Turn
<1>2. \A i \in DOMAIN wire : wire[i].kind # "tagged" /\ wire[i].kind # "DATA"
  BY <1>1 DEF Turn, Idling
<1> QED BY <1>1, <1>2 DEF Turn, Idling

LEMMA AnsweredTurn ==
    ASSUME Inv, Turn, wire # <<>>, Head(wire).kind = "tagged", wire' = Tail(wire),
           serving' = serving, req' = req
    PROVE  Turn'
<1>1. PICK n \in Nat : n = Len(wire) /\ Head(wire) = wire[1] /\ 1 \in DOMAIN wire
                      /\ (n = 1 => wire' = <<>>)
  BY ReadOff
<1>2. wire' = <<>> /\ serving.kind = "none" /\ req.kind = "none"
  BY <1>1 DEF Turn
<1>3. DOMAIN wire' = {}
  BY <1>2
<1> QED BY <1>2, <1>3 DEF Turn, Idling

LEMMA ReadTurn ==
    ASSUME Inv, Turn, wire # <<>>, wire' = Tail(wire), serving' = serving, req' = req, todo' = todo
    PROVE  Turn'
<1>1. PICK n \in Nat : /\ n = Len(wire) /\ DOMAIN wire = 1 .. n /\ n # 0
                       /\ Len(wire') = n - 1 /\ DOMAIN wire' = 1 .. n - 1
                       /\ \A i \in 1 .. n - 1 : wire'[i] = wire[i + 1] /\ i + 1 \in 1 .. n
  BY ReadOff
<1>2. Expected' = Expected
  BY DEF Expected, At, Busy
<1>3. \A i \in DOMAIN wire' : wire'[i].kind = "tagged" =>
         i = Len(wire') /\ Expected # {} /\ serving.kind = "none" /\ req.kind = "none"
  <2> SUFFICES ASSUME NEW i \in 1 .. n - 1, wire[i + 1].kind = "tagged"
               PROVE  i = n - 1 /\ Expected # {} /\ serving.kind = "none" /\ req.kind = "none"
    BY <1>1
  <2>1. i + 1 = n /\ Expected # {} /\ serving.kind = "none" /\ req.kind = "none"
    BY <1>1 DEF Turn
  <2> QED BY <1>1, <2>1
<1>4. \A i \in DOMAIN wire' : wire'[i].kind # "DATA"
  <2> SUFFICES ASSUME NEW i \in 1 .. n - 1, wire[i + 1].kind = "DATA" PROVE FALSE
    BY <1>1
  <2>1. n = 1
    BY <1>1 DEF Turn
  <2> QED BY <1>1, <2>1
<1> QED BY <1>2, <1>3, <1>4 DEF Turn

LEMMA UnaskedAt ==
    ASSUME ~Busy \/ Head(todo) \notin {"wait", "fetching"}
    PROVE  Expected = {}
BY DEF Expected, At

LEMMA RestUnasked ==
    ASSUME Shape, Busy, Then(<<>>)
    PROVE  ~Busy' \/ Head(todo') \notin {"wait", "fetching"}
<1>1. todo' = Tail(todo) /\ Fits(Head(todo), Tail(todo))
  BY Goes DEF Shape
<1> QED BY <1>1, FitsRests, RestsFit DEF Busy

LEMMA TurnClient == Inv /\ Shape /\ Turn /\ (Client \/ User) => Turn'
<1> SUFFICES ASSUME Inv, Shape, Turn, Client \/ User PROVE Turn'
  OBVIOUS
<1>1. CASE HandleUntagged
  BY <1>1, ReadTurn DEF HandleUntagged, Untagged, srvVars
<1>2. CASE Completed \/ Fetched
  BY <1>2, AnsweredTurn DEF Completed, Fetched, srvVars
<1>3. CASE Purge \/ Edit
  <2>1. UNCHANGED <<wire, serving, req, todo>>
    BY <1>3 DEF Purge, Edit, srvVars
  <2> QED BY <2>1 DEF Turn, Expected, At, Busy
<1>4. CASE NotAllowed \/ NothingToFetch \/ Finished \/ Polled \/ Status \/ Disallow \/ Stored \/ Expunged
           \/ MsgOpened
  <2>1. Busy /\ Then(<<>>) /\ UNCHANGED <<wire, serving, req>>
    BY <1>4 DEF NotAllowed, NothingToFetch, Finished, Polled, Status, Disallow, Stored, Expunged,
                MsgOpened, At, srvVars
  <2>2. Head(todo) \notin {"wait", "fetching"}
    BY <1>4 DEF NotAllowed, NothingToFetch, Finished, Polled, Status, Disallow, Stored, Expunged,
                MsgOpened, At
  <2>3. Expected = {}
    BY <2>2, UnaskedAt
  <2>4. Expected' = {}
    BY <2>1, RestUnasked DEF Expected, At, Busy
  <2> QED BY <2>1, <2>3, <2>4, UnaskedTurn
<1>5. CASE TooSoon \/ ReadHeaders \/ AllFetched \/ MarkDeleted
  <2>1. PICK a \in {"finish", "fetch", "fetched", "collect"} :
           Busy /\ Head(todo) \notin {"wait", "fetching"} /\ Then(<<a>>)
    BY <1>5 DEF TooSoon, ReadHeaders, AllFetched, MarkDeleted, At
  <2>2. UNCHANGED <<wire, serving, req>>
    BY <1>5 DEF TooSoon, ReadHeaders, AllFetched, MarkDeleted, srvVars
  <2>3. Head(todo') = a
    BY <2>1, Goes, Doings
  <2>4. Expected = {} /\ Expected' = {}
    BY <2>1, <2>3 DEF Expected, At, Busy
  <2> QED BY <2>2, <2>4, UnaskedTurn
<1>6. CASE Idle
  <2>1. Busy /\ Head(todo) = "probe" /\ Then(<<"poll", "finish">>)
    BY <1>6 DEF Idle, At
  <2>2. UNCHANGED <<wire, serving>> /\ (req' = req \/ req' = [kind |-> "IDLE"])
    BY <1>6 DEF Idle, srvVars, Send
  <2>3. Head(todo') = "poll"
    BY <2>1, Goes, Doings
  <2>4. Expected = {} /\ Expected' = {}
    BY <2>1, <2>3 DEF Expected, At, Busy
  <2> QED BY <2>2, <2>4, UnaskedTurn
<1>7. CASE StoreFailed
  <2>1. Expected = {}
    BY <1>7 DEF StoreFailed, Expected, At
  <2>2. UNCHANGED <<wire, serving, req>> /\ Expected' = {}
    BY <1>7 DEF StoreFailed, srvVars, Expected, At, Busy
  <2> QED BY <2>1, <2>2, UnaskedTurn
<1>8. CASE Check \/ Sync
  <2>1. ~Busy /\ UNCHANGED <<wire, serving, req>>
    BY <1>8 DEF Check, Sync, srvVars
  <2>2. \E r \in Rests : todo' = <<"probe">> \o r
    <3>1. CASE Check
      BY <3>1, Literals DEF Check, Rests, Statuses
    <3>2. CASE Sync
      <4>1. \E purge \in BOOLEAN :
               todo' = <<"probe", "status">> \o (IF purge THEN <<"mark", "purge">> ELSE <<"collect">>)
        BY <3>2 DEF Sync
      <4> QED BY <4>1, Literals DEF Rests, Statuses
    <3> QED BY <1>8, <3>1, <3>2
  <2>3. Head(todo') = "probe"
    BY <2>2, RestsFit, Consed, Doings
  <2>4. Expected = {} /\ Expected' = {}
    BY <2>1, <2>3 DEF Expected, At, Busy
  <2> QED BY <2>1, <2>4, UnaskedTurn
<1>9. CASE SendFetch
  <2>1. Busy /\ Head(todo) = "fetch" /\ Then(<<"fetching">>) /\ UNCHANGED <<wire, serving>>
        /\ req'.kind = "FETCH"
    BY <1>9 DEF SendFetch, At, Send, srvVars
  <2>2. todo' # <<>> /\ Head(todo') = "fetching"
    BY <2>1, Goes, Doings
  <2>3. Expected = {} /\ Expected' = {"FETCH"}
    BY <2>1, <2>2 DEF Expected, At, Busy
  <2> QED BY <2>1, <2>3, AskedTurn
<1>10. CASE Noop
  <2>1. /\ Busy /\ Head(todo) = "probe" /\ Then(<<"wait", "finish">>) /\ UNCHANGED <<wire, serving>>
        /\ req'.kind = "NOOP"
    BY <1>10 DEF Noop, At, Send, srvVars
  <2>2. todo' # <<>> /\ Head(todo') = "wait" /\ Tail(todo') = <<"finish">> \o Tail(todo)
    BY <2>1, Goes, Doings
  <2>3. Tail(todo) \in Statuses
    BY <2>1 DEF Shape, Fits
  <2>4. Tail(todo') \in Finishes
    BY <2>2, <2>3 DEF Statuses, Finishes, ToFinish, KeepFinish, PurgeFinish
  <2>5. Tail(todo') \notin Notes \cup {ToForget, ToShow}
    BY <2>4, RestFacts DEF Finishes, Notes
  <2>6. Expected = {} /\ Expected' = {"NOOP"}
    BY <2>1, <2>2, <2>5 DEF Expected, At, Busy
  <2> QED BY <2>1, <2>6, AskedTurn
<1>11. CASE Collect
  <2>1. Busy /\ Head(todo) = "collect" /\ UNCHANGED <<wire, serving>>
    BY <1>11 DEF Collect, At, srvVars
  <2>2. Expected = {}
    BY <2>1 DEF Expected, At
  <2>3. CASE Then(<<"stored">>) /\ req' = req
    <3>1. Head(todo') = "stored"
      BY <2>1, <2>3, Goes, Doings
    <3>2. Expected' = {}
      BY <3>1 DEF Expected, At, Busy
    <3> QED BY <2>1, <2>2, <2>3, <3>2, UnaskedTurn
  <2>4. CASE /\ Then(<<"wait", "stored">>)
             /\ req' = [kind |-> "STORE", cmds |-> batch \o Changes, expunge |-> FALSE, res |-> "OK"]
    <3>1. todo' # <<>> /\ Head(todo') = "wait" /\ Tail(todo') = <<"stored">> \o Tail(todo)
      BY <2>1, <2>4, Goes, Doings
    <3>2. Fits("wait", Tail(todo')) /\ Tail(todo') # ToForget /\ Tail(todo') \in Notes
      <4>1. Tail(todo) \in {<<>>, ToPurge}
        BY <2>1 DEF Shape, Fits
      <4>2. Tail(todo') \in Notes
        <5>1. CASE Tail(todo) = <<>>
          <6>1. ToNote \o <<>> = ToNote
            BY RestFacts, NothingMore
          <6> QED BY <3>1, <5>1, <6>1 DEF Notes, ToNote
        <5>2. CASE Tail(todo) = ToPurge
          BY <3>1, <5>2 DEF Notes, ToNoteAndPurge
        <5> QED BY <4>1, <5>1, <5>2
      <4> QED BY <4>2, RestFacts DEF Notes, Fits
    <3>3. Expected' = {"STORE"}
      BY <3>1, <3>2 DEF Expected, At, Busy
    <3>4. req'.kind = "STORE" /\ req'.expunge = FALSE
      BY <2>4
    <3> QED BY <2>1, <2>2, <3>2, <3>3, <3>4, AskedTurn
  <2> QED BY <1>11, <2>3, <2>4 DEF Collect
<1>12. CASE SendExpunge
  <2>1. /\ Busy /\ Head(todo) = "purge" /\ Then(<<"wait", "expunged">>) /\ UNCHANGED <<wire, serving>>
        /\ req'.kind = "STORE" /\ req'.expunge = TRUE
    BY <1>12 DEF SendExpunge, At, Send, srvVars
  <2>2. todo' # <<>> /\ Head(todo') = "wait" /\ Tail(todo') = <<"expunged">> \o Tail(todo)
    BY <2>1, Goes, Doings
  <2>3. Tail(todo) = <<>>
    BY <2>1 DEF Shape, Fits
  <2>4. Tail(todo') = ToForget
    BY <2>2, <2>3, RestFacts, NothingMore DEF ToForget
  <2>5. Expected = {} /\ Expected' = {"STORE"}
    BY <2>1, <2>2, <2>4 DEF Expected, At, Busy
  <2> QED BY <2>1, <2>4, <2>5, AskedTurn
<1>13. CASE MsgOpen
  <2>1. ~Busy /\ UNCHANGED <<wire, serving>> /\ req'.kind = "UIDFETCH"
    BY <1>13 DEF MsgOpen, Send, srvVars
  <2>2. todo' = <<"wait">> \o ToShow
    BY <1>13, Literals DEF MsgOpen
  <2> ToShow \in Seq(Tasks) /\ "wait" \in Tasks
    BY RestFacts, Doings
  <2>3. todo' # <<>> /\ Head(todo') = "wait" /\ Tail(todo') = ToShow
    BY <2>2, Consed
  <2>4. ToShow \notin Notes \cup {ToForget}
    BY RestFacts DEF Notes
  <2>5. Expected = {} /\ Expected' = {"UIDFETCH"}
    BY <2>1, <2>3, <2>4 DEF Expected, At, Busy
  <2> QED BY <2>1, <2>5, AskedTurn
<1> QED BY <1>1, <1>2, <1>3, <1>4, <1>5, <1>6, <1>7, <1>8, <1>9, <1>10, <1>11, <1>12, <1>13
        DEF Client, User

-----------------------------------------------------------------------------
(* The emails of the messages that the client knows of have a number *)

Listed ==
    /\ DOMAIN index \subseteq DOMAIN sflags
    /\ \A p \in DOMAIN told : told[p] \in DOMAIN index => index[told[p]].msn # Null
    /\ \A i \in DOMAIN wire : wire[i].kind = "EXISTS" => \A u \in DOMAIN index : u < Newest(wire[i])

LEMMA ListedServer ==
    ASSUME Inv, Listed, ServerEffect
    PROVE  Listed'
<1>1. UNCHANGED <<index, told>> /\ DOMAIN sflags \subseteq DOMAIN sflags'
  BY DEF ServerEffect, ToClient, idxVars
<1>2. CASE wire' = wire
  BY <1>1, <1>2 DEF Listed, Newest
<1>3. CASE \E l \in LineSet : Sent(l)
  <2>1. PICK l \in LineSet : Sent(l)
    BY <1>3
  <2>2. wire' = Append(wire, l)
    BY <2>1 DEF Sent
  <2>3. PICK n \in Nat : /\ n = Len(wire) /\ DOMAIN wire = 1 .. n
                         /\ DOMAIN wire' = 1 .. n + 1
                         /\ \A i \in 1 .. n : wire'[i] = wire[i]
                         /\ wire'[n + 1] = l
    BY <2>2, Written
  <2>4. \A i \in 1 .. n + 1 : i \in 1 .. n \/ i = n + 1
    BY <2>3
  <2>5. l.kind = "EXISTS" => \A u \in DOMAIN index : u < Newest(l)
    BY <2>1 DEF Sent, Listed
  <2>6. ASSUME NEW i \in 1 .. n + 1, wire'[i].kind = "EXISTS"
        PROVE  \A u \in DOMAIN index : u < Newest(wire'[i])
    <3>1. CASE i \in 1 .. n
      <4>1. PICK m : m = wire'[i] /\ m = wire[i] /\ i \in DOMAIN wire
        BY <2>3, <3>1
      <4>2. \A u \in DOMAIN index : u < Newest(m)
        BY <2>6, <4>1 DEF Listed
      <4> QED BY <4>1, <4>2
    <3>2. CASE i = n + 1
      <4>1. PICK m : m = wire'[i] /\ m = l
        BY <2>3, <3>2
      <4> QED BY <2>5, <2>6, <4>1
    <3> QED BY <2>4, <3>1, <3>2
  <2> QED BY <1>1, <2>3, <2>6 DEF Listed, Newest
<1> QED BY <1>2, <1>3 DEF ServerEffect

\* What is said of the lines is said of those that are left.
LEMMA ListedAhead ==
    ASSUME Inv, Listed, wire # <<>>, wire' = Tail(wire)
    PROVE  \A i \in DOMAIN wire' : wire'[i].kind = "EXISTS" => \A u \in DOMAIN index : u < Newest(wire'[i])
<1>1. PICK n \in Nat : /\ DOMAIN wire = 1 .. n /\ DOMAIN wire' = 1 .. n - 1
                       /\ \A i \in 1 .. n - 1 : wire'[i] = wire[i + 1] /\ i + 1 \in 1 .. n
  BY ReadOff
<1> QED BY <1>1 DEF Listed

LEMMA ListedPlain ==
    ASSUME Inv, Listed, PlainEffect
    PROVE  Listed'
<1>1. /\ DOMAIN index' = DOMAIN index /\ \A u \in DOMAIN index : index'[u].msn = index[u].msn
      /\ told' = told /\ sflags' = sflags
  BY DEF PlainEffect, SameNumbers
<1>2. \A i \in DOMAIN wire' : wire'[i].kind = "EXISTS" => \A u \in DOMAIN index : u < Newest(wire'[i])
  BY ListedAhead DEF PlainEffect, Reads, Listed
<1> QED BY <1>1, <1>2 DEF Listed, Newest

LEMMA ListedPurge ==
    ASSUME Inv, Listed, Purge
    PROVE  Listed'
<1> DEFINE kept == {u \in DOMAIN index \ {v \in DOMAIN index : index[v].gone} : ~index[u].deleted}
<1> DEFINE g(u) == [index[u] EXCEPT !.active = TRUE, !.changed = FALSE]
<1>1. index' = [u \in kept |-> g(u)] /\ UNCHANGED <<sflags, told, wire>>
  BY DEF Purge, srvVars
<1>2. \A u \in DOMAIN index : g(u).msn = index[u].msn
  BY MarkingTypes DEF EmailSet
<1> HIDE DEF g
<1>3. DOMAIN index' \subseteq DOMAIN index /\ \A u \in DOMAIN index' : index'[u].msn = index[u].msn
  BY <1>1, <1>2
<1> HIDE DEF kept
<1> QED BY <1>1, <1>3 DEF Listed, Newest

LEMMA ListedExists ==
    ASSUME Inv, Listed, NEW l, ReadsLine(l), l.kind = "EXISTS", index' = index
    PROVE  Listed'
<1>1. told \in Seq(Uid) /\ told' = l.box /\ \E u \in Uid : l.box = Append(told, u)
  BY LineFacts DEF Follows
<1>2. PICK u \in Uid : told' = Append(told, u)
  BY <1>1
<1>3. PICK n \in Nat : n = Len(told) /\ DOMAIN told = 1 .. n
  BY <1>1, LenProperties
<1>4. /\ DOMAIN told' = 1 .. n + 1 /\ Len(told') = n + 1
      /\ \A j \in 1 .. n : told'[j] = told[j] /\ told'[n + 1] = u
  BY <1>1, <1>2, <1>3, Appending
<1>5. told'[n + 1] = u
  BY <1>1, <1>2, <1>3, Appending
<1>6. Newest(l) = u
  BY <1>1, <1>4, <1>5 DEF Newest
<1>7. l = wire[1] /\ 1 \in DOMAIN wire /\ wire # <<>> /\ wire' = Tail(wire) /\ sflags' = sflags
  BY ReadOff DEF ReadsLine
<1>8. u \notin DOMAIN index
  <2>1. \A v \in DOMAIN index : v < u
    BY <1>6, <1>7 DEF Listed
  <2>2. ~(u < u)
    BY UidFacts
  <2> QED BY <2>1, <2>2
<1>9. \A p \in DOMAIN told' : told'[p] \in DOMAIN index => index[told'[p]].msn # Null
  <2> TAKE p \in DOMAIN told'
  <2>1. CASE p \in 1 .. n
    BY <1>3, <1>4, <2>1 DEF Listed
  <2>2. CASE p = n + 1
    BY <1>5, <1>8, <2>2
  <2>3. p \in 1 .. n \/ p = n + 1
    BY <1>3, <1>4
  <2> QED BY <2>1, <2>2, <2>3
<1> QED BY <1>7, <1>9, ListedAhead DEF Listed, Newest

LEMMA ListedExpunge ==
    ASSUME Inv, Listed, NEW l, ReadsLine(l), l.kind = "EXPUNGE", ParseExpunge(l.n)
    PROVE  Listed' /\ DOMAIN index' = DOMAIN index
<1>1. PICK n \in DOMAIN told : n = l.n /\ told' = RemoveAt(told, n)
  BY LineFacts DEF Follows
<1>2. PICK t \in Nat : t = Len(told) /\ DOMAIN told = 1 .. t /\ told \in Seq(Uid)
  BY LineFacts, LenProperties
<1>3. /\ told' \in Seq(Uid) /\ Len(told') = t - 1
      /\ \A j \in 1 .. t - 1 : told'[j] = IF j < n THEN told[j] ELSE told[j + 1]
  BY <1>1, <1>2, Removal
<1>4. DOMAIN told' = 1 .. t - 1 /\ n \in 1 .. t
  BY <1>1, <1>2, <1>3, LenProperties
<1>5. \A j \in 1 .. t - 1 : \E q \in 1 .. t : q # n /\ told'[j] = told[q]
  <2> TAKE j \in 1 .. t - 1
  <2>1. CASE j < n
    <3>1. j \in 1 .. t /\ j # n
      BY <1>4, <2>1
    <3> QED BY <1>3, <2>1, <3>1
  <2>2. CASE ~(j < n)
    <3>1. j + 1 \in 1 .. t /\ j + 1 # n
      BY <1>4, <2>2
    <3> QED BY <1>3, <2>2, <3>1
  <2> QED BY <2>1, <2>2
<1>6. wire # <<>> /\ wire' = Tail(wire) /\ sflags' = sflags
  BY DEF ReadsLine
<1>7. CASE n \notin DOMAIN msn
  <2>1. index' = index
    BY <1>1, <1>7 DEF ParseExpunge
  <2>2. \A p \in DOMAIN told' : told'[p] \in DOMAIN index => index[told'[p]].msn # Null
    BY <1>2, <1>4, <1>5 DEF Listed
  <2> QED BY <1>6, <2>1, <2>2, ListedAhead DEF Listed, Newest
<1>8. CASE n \in DOMAIN msn
  <2>1. index' = Renumbered(IF msn[n] = Null THEN index ELSE Gone(index, msn[n]), n)
    BY <1>1, <1>8 DEF ParseExpunge
  <2>2. DOMAIN index' = DOMAIN index /\ Shifted(n, Len(msn))
    BY <1>8, <2>1, Shifting DEF Shifted
  <2>3. PICK h \in Nat : h = Len(msn) /\ DOMAIN msn = 1 .. h
    BY LenProperties DEF Inv, TypesInv, TableTypes
  <2>4. ASSUME NEW q \in 1 .. t, q # n, told[q] \in DOMAIN index
        PROVE  index'[told[q]].msn # Null
    <3>1. PICK u \in DOMAIN index : u = told[q]
      BY <2>4
    <3>2. index[u].msn # Null
      BY <1>2, <3>1 DEF Listed
    <3>3. Slot(index[u].msn) = u /\ u # Null
      BY <3>2, MarkingTypes, UidFacts DEF Inv, MatchInv, NumbersMatch
    <3>4. PICK m \in 1 .. h : m = index[u].msn /\ msn[m] = u
      BY <2>3, <3>3 DEF Slot
    <3>5. m \in DOMAIN told /\ told[m] = u
      BY <2>3, <3>3, <3>4 DEF Inv, MatchInv, NumbersAgree
    <3>6. m = q
      BY <1>2, <3>1, <3>5 DEF Inv, BoxInv, Distinct
    <3>7. u # msn[n]
      <4> SUFFICES ASSUME u = msn[n] PROVE FALSE
        OBVIOUS
      <4>1. n \in DOMAIN told /\ told[n] = u
        BY <1>8, <3>3 DEF Inv, MatchInv, NumbersAgree
      <4> QED BY <1>2, <2>4, <3>1, <4>1 DEF Inv, BoxInv, Distinct
    <3>8. CASE m \in n + 1 .. h
      <4>1. index'[u].msn = m - 1
        BY <2>2, <2>3, <3>4, <3>8 DEF Shifted
      <4>2. m - 1 # 0
        BY <1>4, <3>8
      <4> QED BY <3>1, <4>1, <4>2, UidFacts
    <3>9. CASE m \notin n + 1 .. h
      <4>1. \A j \in n + 1 .. h : msn[j] # u
        <5> SUFFICES ASSUME NEW j \in n + 1 .. h, msn[j] = u PROVE FALSE
          OBVIOUS
        <5>1. j \in DOMAIN msn /\ msn[j] # Null
          BY <1>4, <2>3, <3>3
        <5>2. index[u].msn = j
          BY <5>1 DEF Inv, MatchInv, NumbersMatch
        <5> QED BY <3>4, <3>9, <5>2
      <4>2. index'[u].msn = index[u].msn
        BY <2>2, <2>3, <3>7, <4>1 DEF Shifted
      <4> QED BY <3>1, <3>2, <4>2
    <3> QED BY <3>8, <3>9
  <2>5. \A p \in DOMAIN told' : told'[p] \in DOMAIN index => index'[told'[p]].msn # Null
    BY <1>4, <1>5, <2>4
  <2> QED BY <1>6, <2>2, <2>5, ListedAhead DEF Listed, Newest
<1> QED BY <1>7, <1>8

LEMMA ListedFetch ==
    ASSUME Inv, Listed, NEW l, ReadsLine(l), l.kind \in {"FETCH", "DATA"}, ParseFetch(l.n, l.flags)
    PROVE  Listed'
<1>1. wire # <<>> /\ wire' = Tail(wire) /\ sflags' = sflags
  BY DEF ReadsLine
<1>2. DOMAIN index' = DOMAIN index /\ told' = told /\ \A v \in DOMAIN index : index'[v].msn = index[v].msn
  BY FetchSame DEF Alike
<1> QED BY <1>1, <1>2, ListedAhead DEF Listed, Newest

\* A message that is in no slot of the table is in the index no longer, or not yet.
LEMMA NewIsNew ==
    ASSUME Inv, Listed, NEW n \in DOMAIN told, Slot(n) = Null
    PROVE  told[n] \notin DOMAIN index
<1> SUFFICES ASSUME told[n] \in DOMAIN index PROVE FALSE
  OBVIOUS
<1>1. PICK u \in DOMAIN index : u = told[n]
  OBVIOUS
<1>2. index[u].msn # Null
  BY <1>1 DEF Listed
<1>3. Slot(index[u].msn) = u /\ u # Null
  BY <1>2, MarkingTypes, UidFacts DEF Inv, MatchInv, NumbersMatch
<1>4. PICK m \in DOMAIN msn : m = index[u].msn /\ msn[m] = u
  BY <1>3 DEF Slot
<1>5. m \in DOMAIN told /\ told[m] = u
  BY <1>3, <1>4 DEF Inv, MatchInv, NumbersAgree
<1>6. m = n
  BY <1>1, <1>5 DEF Inv, BoxInv, Distinct
<1> QED BY <1>3, <1>4, <1>6

LEMMA ListedNew ==
    ASSUME Inv, Listed, NEW l, ReadsLine(l), l.kind = "DATA", Slot(l.n) = Null,
           NewMessage(l.n, l.box[l.n], l.flags)
    PROVE  /\ Listed' /\ DOMAIN index \subseteq DOMAIN index'
           /\ \A v \in DOMAIN index : index'[v] = index[v]
<1>1. told' = told /\ l.box = told /\ l.n \in DOMAIN told
  BY LineFacts DEF Follows
<1>2. PICK n \in DOMAIN told : n = l.n /\ n # Null
  BY <1>1, LineFacts, LenProperties, UidFacts
<1>3. PICK u : u = told[n] /\ u \in DOMAIN sflags /\ u \notin DOMAIN index
  BY <1>2, NewIsNew DEF Inv, BoxInv, Known
<1>4. index' = [v \in DOMAIN index \cup {u} |-> IF v = u THEN NewEmail(n, l.flags) ELSE index[v]]
  BY <1>1, <1>2, <1>3 DEF NewMessage
<1>5. NewEmail(n, l.flags).msn = n
  BY DEF NewEmail
<1>6. /\ DOMAIN index' = DOMAIN index \cup {u} /\ index'[u].msn = n
      /\ \A v \in DOMAIN index : index'[v] = index[v]
  BY <1>3, <1>4, <1>5
<1>7. wire # <<>> /\ wire' = Tail(wire) /\ sflags' = sflags
  BY DEF ReadsLine
<1>8. \A i \in DOMAIN wire' : wire'[i].kind = "EXISTS" => \A v \in DOMAIN index' : v < Newest(wire'[i])
  <2>1. \A i \in DOMAIN wire' : wire'[i].kind = "EXISTS" => u < Newest(wire'[i])
    <3>1. PICK k \in Nat : /\ DOMAIN wire = 1 .. k /\ DOMAIN wire' = 1 .. k - 1
                           /\ \A i \in 1 .. k - 1 : wire'[i] = wire[i + 1] /\ i + 1 \in 1 .. k
      BY <1>7, ReadOff
    <3> QED BY <1>3, <3>1 DEF Inv, BoxInv, Rising
  <2>2. \A i \in DOMAIN wire' : wire'[i].kind = "EXISTS" => \A v \in DOMAIN index : v < Newest(wire'[i])
    BY <1>7, ListedAhead
  <2> QED BY <1>6, <2>1, <2>2
<1>9. \A p \in DOMAIN told' : told'[p] \in DOMAIN index' => index'[told'[p]].msn # Null
  BY <1>1, <1>2, <1>3, <1>6 DEF Listed
<1> QED BY <1>3, <1>6, <1>7, <1>8, <1>9 DEF Listed, Newest

LEMMA ListedClient ==
    ASSUME Inv, Listed, Client \/ User
    PROVE  Listed'
<1>1. CASE Quiet \/ Fetching \/ Sending \/ MarkDeleted \/ Stored \/ Edit \/ MsgOpen \/ MsgOpened
  BY <1>1, QuietEffect, FetchingEffect, SendingEffect, MarkDeletedEffect, StoredEffect, EditEffect,
     MsgOpenEffect, ListedPlain
<1>2. CASE Purge
  BY <1>2, ListedPurge
<1>3. CASE HandleUntagged
  BY <1>3, Readings, ListedExists, ListedExpunge, ListedFetch, ListedNew
<1> QED BY <1>1, <1>2, <1>3 DEF Client, User, Quiet, Fetching, Sending

-----------------------------------------------------------------------------
(* What the user changed stays changed *)

\* Others only deliver, and the server lets a FETCH go beyond the last message
\* where the user purges.
Undisturbed ==
    /\ world.push = "EXPUNGE" /\ world.others \subseteq {"deliver"}
    /\ "purge" \in world.user => world.range # "bad"

\* The client has yet to send an EXPUNGE, or is busy with it.
ToExpunge == {ToPurge, ToMark, PurgeStatus, PurgeFinish, ToNoteAndPurge, ToForget}
Purging   == Busy /\ (Head(todo) = "purge" \/ Tail(todo) \in ToExpunge)

\* Removals are reported only while the client waits for its own EXPUNGE, and
\* a download during a sync succeeds.
CalmLines ==
    \A i \in DOMAIN wire :
        /\ wire[i].kind \in {"EXISTS", "EXPUNGE", "DATA", "tagged"}
        /\ wire[i].kind = "EXPUNGE" => At("wait") /\ Tail(todo) = ToForget
        /\ wire[i].kind = "tagged" /\ At("fetching") /\ world.range # "bad" => wire[i].res = "OK"

\* They are carried out before the sync goes on.
Pending ==
    "EXPUNGE" \in reopen => (At("wait") \/ At("finish")) /\ Tail(todo) = ToForget
Allowed ==
    Purging => /\ "purge" \in world.user
               /\ Head(todo) \notin {"fetch", "fetching"} => "ALLOW" \in reopen

\* By then nothing is edited.
Saved == Busy /\ (Head(todo) = "purge" \/ Tail(todo) = ToForget) => edited = {}

\* A download brings messages above those in the table.
Above ==
    /\ At("fetch") /\ More => Highest < fetch.begin
    /\ At("fetching") =>
          /\ Highest <= fetch.sent
          /\ \A c \in {serving, req} : c.kind = "FETCH" => Highest < c.begin /\ c.end <= fetch.sent
          /\ \A i \in DOMAIN wire : wire[i].kind = "DATA" =>
                Highest < wire[i].n /\ wire[i].n < serving.begin /\ wire[i].n <= fetch.sent

Onwards == NotAllowed \/ NothingToFetch \/ Finished \/ Polled \/ Status \/ Disallow \/ Stored
           \/ Expunged \/ MsgOpened
Stepping == Completed \/ TooSoon \/ ReadHeaders \/ SendFetch \/ Fetched \/ AllFetched \/ MarkDeleted

LEMMA OnwardsGo ==
    ASSUME Shape, Onwards
    PROVE  /\ Busy /\ todo' = Tail(todo) /\ Tail(todo) \in Rests
           /\ Head(todo) \in {"finish", "fetched", "poll", "status", "disallow", "stored", "expunged", "opened"}
           /\ UNCHANGED <<world, serving, req, wire>>
<1>1. /\ Busy /\ Then(<<>>) /\ UNCHANGED <<world, serving, req, wire>>
      /\ Head(todo) \in {"finish", "fetched", "poll", "status", "disallow", "stored", "expunged", "opened"}
  BY DEF Onwards, NotAllowed, NothingToFetch, Finished, Polled, Status, Disallow, Stored, Expunged,
         MsgOpened, At, srvVars
<1>2. todo' = Tail(todo)
  BY <1>1, Goes
<1>3. Tail(todo) \in Rests
  BY <1>1, FitsRests DEF Shape
<1> QED BY <1>1, <1>2, <1>3

LEMMA SteppingGo ==
    ASSUME Shape, Stepping
    PROVE  /\ Busy /\ todo' # <<>> /\ Tail(todo') = Tail(todo)
           /\ \/ Completed /\ Head(todo) = "wait" /\ Head(todo') = "finish"
              \/ TooSoon /\ Head(todo) = "probe" /\ Head(todo') = "finish"
              \/ ReadHeaders /\ Head(todo) = "finish" /\ Head(todo') = "fetch"
              \/ SendFetch /\ Head(todo) = "fetch" /\ Head(todo') = "fetching"
              \/ Fetched /\ Head(todo) = "fetching" /\ Head(todo') = IF Head(wire).res = "OK" THEN "fetch" ELSE "fetched"
              \/ AllFetched /\ Head(todo) = "fetch" /\ Head(todo') = "fetched"
              \/ MarkDeleted /\ Head(todo) = "mark" /\ Head(todo') = "collect"
<1>1. CASE Completed
  <2>1. Busy /\ Head(todo) = "wait" /\ Then(<<"finish">>)
    BY <1>1 DEF Completed, At
  <2> QED BY <1>1, <2>1, Goes, Doings
<1>2. CASE TooSoon
  <2>1. Busy /\ Head(todo) = "probe" /\ Then(<<"finish">>)
    BY <1>2 DEF TooSoon, At
  <2> QED BY <1>2, <2>1, Goes, Doings
<1>3. CASE ReadHeaders
  <2>1. Busy /\ Head(todo) = "finish" /\ Then(<<"fetch">>)
    BY <1>3 DEF ReadHeaders, At
  <2> QED BY <1>3, <2>1, Goes, Doings
<1>4. CASE SendFetch
  <2>1. Busy /\ Head(todo) = "fetch" /\ Then(<<"fetching">>)
    BY <1>4 DEF SendFetch, At
  <2> QED BY <1>4, <2>1, Goes, Doings
<1>5. CASE Fetched
  <2>1. /\ Busy /\ Head(todo) = "fetching"
        /\ Head(wire).res = "OK" => Then(<<"fetch">>)
        /\ Head(wire).res # "OK" => Then(<<"fetched">>)
    BY <1>5 DEF Fetched, At
  <2> QED BY <1>5, <2>1, Goes, Doings
<1>6. CASE AllFetched
  <2>1. Busy /\ Head(todo) = "fetch" /\ Then(<<"fetched">>)
    BY <1>6 DEF AllFetched, At
  <2> QED BY <1>6, <2>1, Goes, Doings
<1>7. CASE MarkDeleted
  <2>1. Busy /\ Head(todo) = "mark" /\ Then(<<"collect">>)
    BY <1>7 DEF MarkDeleted, At
  <2> QED BY <1>7, <2>1, Goes, Doings
<1> QED BY <1>1, <1>2, <1>3, <1>4, <1>5, <1>6, <1>7 DEF Stepping

LEMMA Rested ==
    /\ <<>> \notin ToExpunge
    /\ \A r \in Rests : r # <<>> /\ (Head(r) = "purge" \/ Tail(r) \in ToExpunge) => r \in ToExpunge
    /\ \A r \in Rests : r # <<>> => Tail(r) # ToForget /\ (Head(r) = "purge" => r = ToPurge)
    /\ \A r \in Statuses : <<"finish">> \o r \in Finishes /\ (<<"finish">> \o r \in ToExpunge => r \in ToExpunge)
    /\ ToNote \notin ToExpunge /\ ToShow \notin ToExpunge /\ ToStatus \notin ToExpunge /\ KeepStatus \notin ToExpunge
    /\ \A r \in Finishes \cup Notes \cup {ToShow} : r # ToForget
<1>1. <<>> \notin ToExpunge
  BY RestFacts DEF ToExpunge
<1>2. ASSUME NEW r \in Rests, r # <<>>
      PROVE  /\ Head(r) = "purge" \/ Tail(r) \in ToExpunge => r \in ToExpunge
             /\ Tail(r) # ToForget /\ (Head(r) = "purge" => r = ToPurge)
  <2>1. CASE r \in Statuses
    <3>1. ToReport \notin ToExpunge /\ ToStore \notin ToExpunge
      BY RestFacts DEF ToExpunge
    <3> QED BY <2>1, <3>1, RestFacts DEF Statuses, ToExpunge
  <2>2. CASE r \in Finishes
    <3>1. ToStatus \notin ToExpunge /\ KeepStatus \notin ToExpunge
      BY RestFacts DEF ToExpunge
    <3> QED BY <2>2, <3>1, RestFacts DEF Finishes, ToExpunge
  <2>3. CASE r \in Notes
    BY <1>1, <2>3, RestFacts DEF Notes, ToExpunge
  <2>4. CASE r \in {ToForget, ToShow, ToReport, ToStore, ToMark, ToPurge, <<>>}
    BY <1>1, <1>2, <2>4, RestFacts DEF ToExpunge
  <2> QED BY <2>1, <2>2, <2>3, <2>4 DEF Rests
<1>4. ToNote \notin ToExpunge /\ ToShow \notin ToExpunge /\ ToStatus \notin ToExpunge /\ KeepStatus \notin ToExpunge
  BY RestFacts DEF ToExpunge
<1>5. \A r \in Statuses : <<"finish">> \o r \in Finishes /\ (<<"finish">> \o r \in ToExpunge => r \in ToExpunge)
  <2>1. ToFinish \notin ToExpunge /\ KeepFinish \notin ToExpunge
    BY RestFacts DEF ToExpunge
  <2> QED BY <2>1 DEF Statuses, Finishes, ToFinish, KeepFinish, PurgeFinish, ToExpunge
<1>6. \A r \in Finishes \cup Notes \cup {ToShow} : r # ToForget
  BY RestFacts DEF Finishes, Notes
<1> QED BY <1>1, <1>2, <1>4, <1>5, <1>6

LEMMA Begun ==
    ASSUME NEW h \in Tasks, NEW r \in Rests, todo' = <<h>> \o r
    PROVE  todo' # <<>> /\ Head(todo') = h /\ Tail(todo') = r
<1>1. r \in Seq(Tasks)
  BY RestsFit
<1> QED BY <1>1, Consed

\* The client asks for something, or the user does.
Asking == Idle \/ Noop \/ Collect \/ SendExpunge \/ StoreFailed \/ Check \/ Sync \/ MsgOpen

LEMMA AskingGo ==
    ASSUME Shape, Asking
    PROVE  /\ ~Busy \/ Head(todo) \in {"probe", "collect", "purge", "stored"}
           /\ UNCHANGED <<world, serving, wire, edited>>
           /\ ~Busy' \/ Head(todo') \in {"poll", "wait", "stored", "probe"}
           /\ Busy' /\ Tail(todo') = ToForget => SendExpunge /\ Busy /\ Head(todo) = "purge"
           /\ Busy' /\ Tail(todo') \in ToExpunge => Purging \/ (Sync /\ "purge" \in world.user)
<1>1. CASE Idle \/ Noop
  <2>1. PICK a \in {"poll", "wait"} : /\ Busy /\ Head(todo) = "probe" /\ Then(<<a, "finish">>)
                                      /\ UNCHANGED <<world, serving, wire, edited>>
    BY <1>1 DEF Idle, Noop, At, srvVars
  <2>2. /\ todo' # <<>> /\ Head(todo') = a /\ Tail(todo') = <<"finish">> \o Tail(todo)
    BY <2>1, Goes, Doings
  <2>3. Tail(todo) \in Statuses
    BY <2>1 DEF Shape, Fits
  <2>4. PICK r \in Statuses : r = Tail(todo) /\ Tail(todo') = <<"finish">> \o r
    BY <2>2, <2>3
  <2>5. <<"finish">> \o r \in Finishes /\ (<<"finish">> \o r \in ToExpunge => r \in ToExpunge)
    BY Rested
  <2>6. <<"finish">> \o r # ToForget
    BY <2>5, Rested
  <2> QED BY <2>1, <2>2, <2>4, <2>5, <2>6 DEF Purging
<1>2. CASE Collect
  <2>1. /\ Busy /\ Head(todo) = "collect" /\ UNCHANGED <<world, serving, wire, edited>>
        /\ Then(<<"stored">>) \/ Then(<<"wait", "stored">>)
    BY <1>2 DEF Collect, At, srvVars
  <2>2. Tail(todo) \in {<<>>, ToPurge}
    BY <2>1 DEF Shape, Fits
  <2>3. \/ todo' # <<>> /\ Head(todo') = "stored" /\ Tail(todo') = Tail(todo)
        \/ todo' # <<>> /\ Head(todo') = "wait" /\ Tail(todo') = <<"stored">> \o Tail(todo)
    BY <2>1, Goes, Doings
  <2>4. <<"stored">> \o <<>> = ToNote
    BY RestFacts, NothingMore DEF ToNote
  <2>5. ToPurge # ToForget /\ <<>> # ToForget /\ ToNote # ToForget /\ ToNoteAndPurge # ToForget
        /\ ToPurge \in ToExpunge
    BY RestFacts DEF ToExpunge
  <2>6. CASE Tail(todo) = <<>>
    BY <2>1, <2>3, <2>4, <2>5, <2>6, Rested
  <2>7. CASE Tail(todo) = ToPurge
    BY <2>1, <2>3, <2>5, <2>7 DEF ToNoteAndPurge, Purging
  <2> QED BY <2>2, <2>6, <2>7
<1>3. CASE SendExpunge
  <2>1. Busy /\ Head(todo) = "purge" /\ Then(<<"wait", "expunged">>) /\ UNCHANGED <<world, serving, wire, edited>>
    BY <1>3 DEF SendExpunge, At, srvVars
  <2>2. todo' # <<>> /\ Head(todo') = "wait"
    BY <2>1, Goes, Doings
  <2> QED BY <1>3, <2>1, <2>2 DEF Purging
<1>4. CASE StoreFailed
  BY <1>4 DEF StoreFailed, At, Busy, srvVars
<1>5. CASE Check
  <2>1. ~Busy /\ todo' = <<"probe">> \o ToStatus /\ UNCHANGED <<world, serving, wire, edited>>
    BY <1>5, Literals DEF Check, srvVars
  <2>2. todo' # <<>> /\ Head(todo') = "probe" /\ Tail(todo') = ToStatus
    BY <2>1, Doings, Begun DEF Rests, Statuses
  <2>3. ToStatus # ToForget
    BY RestFacts
  <2> QED BY <2>1, <2>2, <2>3, Rested
<1>6. CASE Sync
  <2>1. ~Busy /\ UNCHANGED <<world, serving, wire, edited>>
    BY <1>6 DEF Sync, srvVars
  <2>2. \/ todo' = <<"probe">> \o PurgeStatus /\ "purge" \in world.user
        \/ todo' = <<"probe">> \o KeepStatus
    <3>1. \E purge \in BOOLEAN :
             /\ (IF purge THEN "purge" ELSE "keep") \in world.user
             /\ todo' = <<"probe", "status">> \o (IF purge THEN <<"mark", "purge">> ELSE <<"collect">>)
      BY <1>6 DEF Sync
    <3> QED BY <3>1, Literals
  <2>3. /\ todo' # <<>> /\ Head(todo') = "probe"
        /\ \/ Tail(todo') = PurgeStatus /\ "purge" \in world.user
           \/ Tail(todo') = KeepStatus
    <3>1. CASE todo' = <<"probe">> \o PurgeStatus /\ "purge" \in world.user
      BY <3>1, Doings, Begun DEF Rests, Statuses
    <3>2. CASE todo' = <<"probe">> \o KeepStatus
      BY <3>2, Doings, Begun DEF Rests, Statuses
    <3> QED BY <2>2, <3>1, <3>2
  <2>4. PurgeStatus # ToForget /\ KeepStatus # ToForget
    BY RestFacts
  <2> QED BY <1>6, <2>1, <2>3, <2>4, Rested
<1>7. CASE MsgOpen
  <2>1. ~Busy /\ todo' = <<"wait">> \o ToShow /\ UNCHANGED <<world, serving, wire, edited>>
    BY <1>7, Literals DEF MsgOpen, srvVars
  <2>2. todo' # <<>> /\ Head(todo') = "wait" /\ Tail(todo') = ToShow
    BY <2>1, Doings, Begun DEF Rests
  <2> QED BY <2>1, <2>2, Rested
<1> QED BY <1>1, <1>2, <1>3, <1>4, <1>5, <1>6, <1>7 DEF Asking

LEMMA CalmWritten ==
    ASSUME Inv, CalmLines, NEW l, wire' = Append(wire, l), todo' = todo, world' = world,
           l.kind \in {"EXISTS", "EXPUNGE", "DATA", "tagged"},
           l.kind = "EXPUNGE" => At("wait") /\ Tail(todo) = ToForget,
           l.kind = "tagged" /\ At("fetching") /\ world.range # "bad" => l.res = "OK"
    PROVE  CalmLines'
<1>1. PICK n \in Nat : /\ DOMAIN wire = 1 .. n /\ DOMAIN wire' = 1 .. n + 1
                       /\ \A i \in 1 .. n : wire'[i] = wire[i]
                       /\ wire'[n + 1] = l
  BY Written
<1>2. \A i \in 1 .. n + 1 : i \in 1 .. n \/ i = n + 1
  BY <1>1
<1>3. At("wait")' = At("wait") /\ At("fetching")' = At("fetching")
  BY DEF At, Busy
<1>4. ASSUME NEW i \in 1 .. n + 1
      PROVE  /\ wire'[i].kind \in {"EXISTS", "EXPUNGE", "DATA", "tagged"}
             /\ wire'[i].kind = "EXPUNGE" => At("wait") /\ Tail(todo) = ToForget
             /\ wire'[i].kind = "tagged" /\ At("fetching") /\ world.range # "bad" => wire'[i].res = "OK"
  <2>1. CASE i \in 1 .. n
    <3>1. PICK m : m = wire[i] /\ m = wire'[i] /\ i \in DOMAIN wire
      BY <1>1, <2>1
    <3> QED BY <3>1 DEF CalmLines
  <2>2. CASE i = n + 1
    <3>1. PICK m : m = l /\ m = wire'[i]
      BY <1>1, <2>2
    <3> QED BY <3>1
  <2> QED BY <1>2, <2>1, <2>2
<1> QED BY <1>1, <1>3, <1>4 DEF CalmLines

LEMMA TaggedRes ==
    ASSUME NEW r
    PROVE  /\ [Line("tagged", Null, Clear) EXCEPT !.res = r].kind = "tagged"
           /\ [Line("tagged", Null, Clear) EXCEPT !.res = r].res = r
BY DEF Line

LEMMA CalmTagged ==
    ASSUME Inv, CalmLines, NEW r, Tagged(r), todo' = todo, world' = world,
           At("fetching") /\ world.range # "bad" => r = "OK"
    PROVE  CalmLines'
<1> DEFINE l == [Line("tagged", Null, Clear) EXCEPT !.res = r]
<1>1. wire' = Append(wire, l) /\ l.kind = "tagged" /\ l.res = r
  BY TaggedRes DEF Tagged, Say
<1> HIDE DEF l
<1> QED BY <1>1, CalmWritten

LEMMA ServerLeaves ==
    ASSUME Server
    PROVE  UNCHANGED <<world, index, msn, hash, mchanged, reopen, newCount, check, idling, fetch, batch,
                       todo, rc, handle, told, edited>>
BY DEF Server, Take, Deliver, OthersExpunge, OthersFlag, AnswerPlain, AnswerFetch, AnswerStore,
       AnswerExpunge, AnswerBatch, ToClient, idxVars, mboxVars

LEMMA CalmServer ==
    ASSUME Inv, Turn, Undisturbed, CalmLines, Server
    PROVE  CalmLines'
<1>0. world' = world /\ todo' = todo
  BY ServerLeaves
<1>1. CASE Take \/ AnswerStore
  <2>1. wire' = wire
    BY <1>1 DEF Take, AnswerStore
  <2> QED BY <1>0, <2>1 DEF CalmLines, At, Busy
<1>2. CASE Deliver
  <2> DEFINE l == Line("EXISTS", Len(srv'), Clear)
  <2>1. wire' = Append(wire, l) /\ l.kind = "EXISTS"
    BY <1>2 DEF Deliver, Say, Line
  <2> HIDE DEF l
  <2> QED BY <1>0, <2>1, CalmWritten
<1>3. CASE OthersExpunge \/ OthersFlag
  BY <1>3 DEF OthersExpunge, OthersFlag, Undisturbed
<1>4. CASE AnswerPlain \/ AnswerBatch
  <2>1. serving.kind \in {"NOOP", "UIDFETCH", "STORE"} /\ \E r : Tagged(r)
    BY <1>4 DEF AnswerPlain, AnswerBatch, Serving
  <2>2. ~At("fetching")
    BY <2>1 DEF Turn, Expected, Idling
  <2> QED BY <1>0, <2>1, <2>2, CalmTagged
<1>5. CASE AnswerFetch
  <2>1. CASE Say(Line("DATA", serving.begin, sflags[srv[serving.begin]]))
    <3> DEFINE l == Line("DATA", serving.begin, sflags[srv[serving.begin]])
    <3>1. wire' = Append(wire, l) /\ l.kind = "DATA"
      BY <2>1 DEF Say, Line
    <3> HIDE DEF l
    <3> QED BY <1>0, <3>1, CalmWritten
  <2>2. CASE Tagged(IF TooFar THEN "BAD" ELSE "OK")
    <3>1. world.range # "bad" => ~TooFar
      BY DEF TooFar
    <3>2. PICK r : r = (IF TooFar THEN "BAD" ELSE "OK") /\ (world.range # "bad" => r = "OK")
      BY <3>1
    <3> QED BY <1>0, <2>2, <3>2, CalmTagged
  <2> QED BY <1>5, <2>1, <2>2 DEF AnswerFetch
<1>6. CASE AnswerExpunge
  <2>1. serving.kind = "STORE" /\ serving.expunge /\ \E i : Removed(i)
    BY <1>6 DEF AnswerExpunge, Serving
  <2>2. At("wait") /\ Tail(todo) = ToForget
    BY <2>1 DEF Turn, Expected, Idling
  <2>3. PICK i : Removed(i)
    BY <2>1
  <2> DEFINE l == Line("EXPUNGE", i, Clear)
  <2>4. wire' = Append(wire, l) /\ l.kind = "EXPUNGE"
    BY <2>3 DEF Removed, Say, Line, Undisturbed
  <2> HIDE DEF l
  <2> QED BY <1>0, <2>2, <2>4, CalmWritten
<1> QED BY <1>1, <1>2, <1>3, <1>4, <1>5, <1>6 DEF Server

\* The groups of steps are all there are.
LEMMA Doing ==
    Client \/ User <=> HandleUntagged \/ Purge \/ Edit \/ Onwards \/ Stepping \/ Asking
BY DEF Client, User, Onwards, Stepping, Asking

\* Away from where it waits for an answer the client has lines of one kind to read.
LEMMA OnlyNews ==
    ASSUME Turn, CalmLines, ~Busy \/ Head(todo) \notin {"wait", "fetching"}
    PROVE  \A i \in DOMAIN wire : wire[i].kind = "EXISTS"
<1>1. Expected = {}
  BY UnaskedAt
<1>2. ~At("wait")
  BY DEF At
<1> QED BY <1>1, <1>2 DEF Turn, CalmLines, Idling

LEMMA LastRead ==
    ASSUME Inv, Turn, wire # <<>>, Head(wire).kind \in {"tagged", "DATA"}, wire' = Tail(wire)
    PROVE  wire' = <<>> /\ DOMAIN wire' = {}
<1>1. PICK n \in Nat : n = Len(wire) /\ Head(wire) = wire[1] /\ 1 \in DOMAIN wire
                       /\ (n = 1 => wire' = <<>>)
  BY ReadOff
<1>2. wire' = <<>>
  BY <1>1 DEF Turn
<1> QED BY <1>2

LEMMA CalmClient ==
    ASSUME Inv, Shape, Turn, CalmLines, Client \/ User
    PROVE  CalmLines'
<1>0. world' = world
  BY WorldFixed DEF Next
<1>1. CASE HandleUntagged
  <2>1. wire # <<>> /\ wire' = Tail(wire) /\ todo' = todo
    BY <1>1 DEF HandleUntagged, Untagged
  <2>2. PICK n \in Nat : /\ DOMAIN wire = 1 .. n /\ DOMAIN wire' = 1 .. n - 1
                         /\ \A i \in 1 .. n - 1 : wire'[i] = wire[i + 1] /\ i + 1 \in 1 .. n
    BY <2>1, ReadOff
  <2> QED BY <1>0, <2>1, <2>2 DEF CalmLines, At, Busy
<1>2. CASE Purge \/ Edit
  <2>1. UNCHANGED <<wire, todo>>
    BY <1>2 DEF Purge, Edit
  <2> QED BY <1>0, <2>1 DEF CalmLines, At, Busy
<1>3. CASE Onwards \/ Asking
  <2>1. wire' = wire /\ (~Busy \/ Head(todo) \notin {"wait", "fetching"})
    BY <1>3, OnwardsGo, AskingGo
  <2>2. \A i \in DOMAIN wire : wire[i].kind = "EXISTS"
    BY <2>1, OnlyNews
  <2> QED BY <2>1, <2>2 DEF CalmLines
<1>4. CASE Completed \/ Fetched
  <2>1. wire # <<>> /\ Head(wire).kind = "tagged" /\ wire' = Tail(wire)
    BY <1>4 DEF Completed, Fetched
  <2> QED BY <2>1, LastRead DEF CalmLines
<1>5. CASE TooSoon \/ ReadHeaders \/ SendFetch \/ AllFetched \/ MarkDeleted
  <2>1. wire' = wire /\ Head(todo) \notin {"wait", "fetching"}
    BY <1>5 DEF TooSoon, ReadHeaders, SendFetch, AllFetched, MarkDeleted, At
  <2>2. \A i \in DOMAIN wire : wire[i].kind = "EXISTS"
    BY <2>1, OnlyNews
  <2> QED BY <2>1, <2>2 DEF CalmLines
<1> QED BY <1>1, <1>2, <1>3, <1>4, <1>5, Doing DEF Stepping

-----------------------------------------------------------------------------

\* Going on with what is left keeps all that is allowed.
LEMMA AllowedOn ==
    ASSUME Allowed, Busy, todo' = Tail(todo), Tail(todo) \in Rests, world' = world,
           Head(todo) \notin {"fetch", "fetching"}, Purging => ("ALLOW" \in reopen => "ALLOW" \in reopen')
    PROVE  Allowed'
<1> SUFFICES ASSUME Purging' PROVE Purging
  BY DEF Allowed
<1>1. Tail(todo) # <<>> /\ (Head(Tail(todo)) = "purge" \/ Tail(Tail(todo)) \in ToExpunge)
  BY DEF Purging, Busy, ToExpunge
<1>2. Tail(todo) \in ToExpunge
  BY <1>1, Rested
<1> QED BY <1>2 DEF Purging

LEMMA AllowedServer ==
    ASSUME Allowed, UNCHANGED <<world, todo, reopen>>
    PROVE  Allowed'
BY DEF Allowed, Purging, Busy, ToExpunge

LEMMA AllowedKept ==
    ASSUME Inv, Shape, Turn, Undisturbed, CalmLines, Allowed, Client \/ User
    PROVE  Allowed'
<1>0. world' = world
  BY WorldFixed DEF Next
<1>1. CASE HandleUntagged
  <2>1. todo' = todo
    BY <1>1 DEF HandleUntagged
  <2>2. reopen \subseteq reopen'
    BY <1>1 DEF HandleUntagged, ParseExists, ParseExpunge, ParseVanished, ParseFetch, mboxVars
  <2> QED BY <1>0, <2>1, <2>2 DEF Allowed, Purging, Busy, ToExpunge
<1>2. CASE Purge \/ Edit
  <2>1. todo' = todo /\ ("ALLOW" \in reopen => "ALLOW" \in reopen')
    BY <1>2 DEF Purge, Edit, mboxVars
  <2> QED BY <1>0, <2>1 DEF Allowed, Purging, Busy, ToExpunge
<1>3. CASE Onwards
  <2>1. /\ Busy /\ todo' = Tail(todo) /\ Tail(todo) \in Rests
        /\ Head(todo) \notin {"fetch", "fetching"}
    BY <1>3, OnwardsGo
  <2>2. Purging => ("ALLOW" \in reopen => "ALLOW" \in reopen')
    <3>1. CASE Disallow
      <4>1. Tail(todo) = <<>> /\ Head(todo) = "disallow"
        BY <3>1 DEF Disallow, At, Shape, Fits
      <4> QED BY <4>1, Rested DEF Purging
    <3>2. CASE ~Disallow
      BY <1>3, <3>2 DEF Onwards, NotAllowed, NothingToFetch, Finished, Polled, Status, Stored,
                        Expunged, MsgOpened, mboxVars
    <3> QED BY <3>1, <3>2
  <2> QED BY <1>0, <2>1, <2>2, AllowedOn
<1>4. CASE Stepping
  <2> SUFFICES ASSUME Purging', Head(todo') \notin {"fetch", "fetching"}
               PROVE  "purge" \in world.user /\ "ALLOW" \in reopen'
    <3>1. Purging' => "purge" \in world.user
      <4> HAVE Purging'
      <4>1. Busy /\ Tail(todo') = Tail(todo) /\ Head(todo') # "purge"
        BY <1>4, SteppingGo
      <4>2. Purging
        BY <4>1 DEF Purging, ToExpunge
      <4> QED BY <4>2 DEF Allowed
    <3> QED BY <1>0, <3>1 DEF Allowed
  <2>1. Busy /\ Tail(todo') = Tail(todo) /\ Head(todo') # "purge"
    BY <1>4, SteppingGo
  <2>2. Purging /\ "purge" \in world.user
    <3>1. Purging
      BY <2>1 DEF Purging, ToExpunge
    <3> QED BY <3>1 DEF Allowed
  <2>3. CASE Fetched
    <3>1. wire # <<>> /\ Head(wire).kind = "tagged" /\ At("fetching")
      BY <2>3 DEF Fetched
    <3>2. 1 \in DOMAIN wire /\ Head(wire) = wire[1]
      BY <3>1, WireFacts
    <3>3. Head(wire).res = "OK"
      BY <2>2, <3>1, <3>2 DEF CalmLines, Undisturbed
    <3>4. Head(todo') = "fetch"
      <4>1. Busy /\ Head(todo) = "fetching" /\ Then(<<"fetch">>)
        BY <2>3, <3>3 DEF Fetched, At
      <4> QED BY <4>1, Goes, Doings
    <3> QED BY <3>4
  <2>4. CASE AllFetched
    BY <2>2, <2>4 DEF AllFetched
  <2>5. CASE ReadHeaders \/ SendFetch
    <3>1. Head(todo') \in {"fetch", "fetching"}
      <4>1. PICK a \in {"fetch", "fetching"} : Busy /\ Then(<<a>>)
        BY <2>5 DEF ReadHeaders, SendFetch, At
      <4> QED BY <4>1, Goes, Doings
    <3> QED BY <3>1
  <2>6. CASE Completed \/ TooSoon \/ MarkDeleted
    <3>1. reopen' = reopen /\ Head(todo) \notin {"fetch", "fetching"}
      BY <2>6 DEF Completed, TooSoon, MarkDeleted, At, mboxVars
    <3> QED BY <2>2, <3>1 DEF Allowed
  <2> QED BY <1>4, <2>3, <2>4, <2>5, <2>6 DEF Stepping
<1>5. CASE Asking
  <2> SUFFICES ASSUME Purging' PROVE "purge" \in world.user /\ "ALLOW" \in reopen'
    BY <1>0 DEF Allowed
  <2>1. Busy' /\ Tail(todo') \in ToExpunge
    <3>1. Busy' /\ (Head(todo') = "purge" \/ Tail(todo') \in ToExpunge)
      BY DEF Purging, ToExpunge
    <3> QED BY <1>5, <3>1, AskingGo
  <2>2. CASE Sync /\ "purge" \in world.user
    BY <2>2 DEF Sync
  <2>3. CASE Purging
    <3>1. Head(todo) \notin {"fetch", "fetching"} /\ Busy
      BY <1>5, <2>3, AskingGo DEF Purging
    <3>2. reopen \subseteq reopen'
      BY <1>5 DEF Asking, Idle, Noop, Collect, SendExpunge, StoreFailed, Check, Sync, MsgOpen, mboxVars
    <3> QED BY <2>3, <3>1, <3>2 DEF Allowed
  <2> QED BY <1>5, <2>1, <2>2, <2>3, AskingGo
<1> QED BY <1>1, <1>2, <1>3, <1>4, <1>5, Doing

LEMMA FetchRequest ==
    ASSUME Inv
    PROVE  /\ \A c \in {serving, req} : c.kind = "FETCH" => c \in [kind : {"FETCH"}, begin : Nat, end : Nat]
           /\ Highest \in Nat /\ fetch.begin \in Nat /\ fetch.end \in Nat /\ fetch.sent \in Nat
<1>1. Highest \in Nat
  BY LenProperties DEF Inv, TypesInv, TableTypes, Highest
<1> QED BY <1>1 DEF Inv, TypesInv, CmdTypes, CountTypes, RequestSet

LEMMA AboveServer ==
    ASSUME Inv, Turn, Above, Server
    PROVE  Above'
<1>0. UNCHANGED <<fetch, todo, msn>>
  BY ServerLeaves
<1>1. At("fetch")' = At("fetch") /\ At("fetching")' = At("fetching") /\ More' = More /\ Highest' = Highest
  BY <1>0 DEF At, Busy, More, Highest
<1> SUFFICES ASSUME At("fetching")
             PROVE  /\ \A c \in {serving', req'} : c.kind = "FETCH" => Highest < c.begin /\ c.end <= fetch.sent
                    /\ \A i \in DOMAIN wire' : wire'[i].kind = "DATA" =>
                          Highest < wire'[i].n /\ wire'[i].n < serving'.begin /\ wire'[i].n <= fetch.sent
  BY <1>0, <1>1 DEF Above
<1>2. /\ \A c \in {serving, req} : c.kind = "FETCH" => Highest < c.begin /\ c.end <= fetch.sent
      /\ \A i \in DOMAIN wire : wire[i].kind = "DATA" =>
            Highest < wire[i].n /\ wire[i].n < serving.begin /\ wire[i].n <= fetch.sent
  BY DEF Above
<1>3. serving.kind \in {"none", "IDLE", "FETCH"} /\ NoReq.kind = "none"
  BY DEF Turn, Expected, Idling, NoReq
<1>4. CASE Take
  <2>1. req # NoReq /\ serving' = Taken(req) /\ req' = NoReq /\ wire' = wire /\ serving.kind \in Idling
    BY <1>4 DEF Take, Idling
  <2>2. \A i \in DOMAIN wire : wire[i].kind # "DATA"
    BY <2>1 DEF Turn, Idling
  <2>3. req.kind = "FETCH" => Taken(req).begin = req.begin /\ Taken(req).end <= req.end
    <3> HAVE req.kind = "FETCH"
    <3>1. req \in [kind : {"FETCH"}, begin : Nat, end : Nat]
      BY FetchRequest
    <3>2. Len(srv) \in Nat
      BY LenProperties DEF Inv, TypesInv, WireTypes
    <3>3. CASE req.end > Len(srv) /\ world.range = "start"
      <4>1. Taken(req) = [req EXCEPT !.end = Len(srv)]
        BY <3>3 DEF Taken
      <4> QED BY <3>1, <3>2, <3>3, <4>1
    <3>4. CASE ~(req.end > Len(srv) /\ world.range = "start")
      BY <3>1, <3>4 DEF Taken
    <3> QED BY <3>3, <3>4
  <2>4. Taken(req).kind = req.kind
    <3>1. req \in RequestSet
      BY DEF Inv, TypesInv, CmdTypes
    <3> QED BY <3>1 DEF Taken, RequestSet
  <2>5. req.kind = "FETCH" => Highest < Taken(req).begin /\ Taken(req).end <= fetch.sent
    <3> HAVE req.kind = "FETCH"
    <3>1. Highest < req.begin /\ req.end <= fetch.sent
      BY <1>2
    <3>2. Taken(req) \in RequestSet
      BY <2>1, <1>4, TakeEffect, SameSets DEF ServerEffect, CmdTypes
    <3>3. Taken(req).end \in Nat /\ req.end \in Nat /\ fetch.sent \in Nat
      BY <2>4, <3>2, FetchRequest DEF RequestSet
    <3> QED BY <2>3, <3>1, <3>3
  <2> QED BY <1>3, <2>1, <2>2, <2>4, <2>5
<1>5. CASE Deliver \/ OthersFlag \/ OthersExpunge \/ AnswerExpunge
  <2>1. PICK k, m, f : Say(Line(k, m, f)) /\ serving' = serving /\ req' = req /\ k # "DATA"
    <3>1. world.push # "DATA"
      BY MailboxAssumption DEF Inv, Scenario
    <3> QED BY <1>5, <3>1 DEF Deliver, OthersFlag, OthersExpunge, AnswerExpunge, Removed
  <2> DEFINE l == Line(k, m, f)
  <2>2. wire' = Append(wire, l) /\ l.kind # "DATA"
    BY <2>1 DEF Say, Line
  <2> HIDE DEF l
  <2>3. PICK n \in Nat : /\ DOMAIN wire = 1 .. n /\ DOMAIN wire' = 1 .. n + 1
                         /\ \A i \in 1 .. n : wire'[i] = wire[i]
                         /\ wire'[n + 1] = l
    BY <2>2, Written
  <2>4. \A i \in 1 .. n + 1 : i \in 1 .. n \/ i = n + 1
    BY <2>3
  <2>5. ASSUME NEW i \in 1 .. n + 1, wire'[i].kind = "DATA"
        PROVE  Highest < wire'[i].n /\ wire'[i].n < serving.begin /\ wire'[i].n <= fetch.sent
    <3>1. i \in 1 .. n
      <4>1. CASE i = n + 1
        <5>1. PICK w : w = wire'[i] /\ w = l
          BY <2>3, <4>1
        <5> QED BY <2>2, <2>5, <5>1
      <4> QED BY <2>4, <4>1
    <3>2. PICK w : w = wire[i] /\ w = wire'[i] /\ i \in DOMAIN wire
      BY <2>3, <3>1
    <3> QED BY <1>2, <2>5, <3>2
  <2> QED BY <1>2, <2>1, <2>3, <2>5
<1>6. CASE \E r : Tagged(r) /\ wire = <<>> /\ req' = req
  <2>1. PICK r : Tagged(r) /\ wire = <<>> /\ req' = req
    BY <1>6
  <2> DEFINE l == [Line("tagged", Null, Clear) EXCEPT !.res = r]
  <2>2. wire' = Append(wire, l) /\ l.kind = "tagged" /\ serving' = NoReq
    BY <2>1, TaggedRes DEF Tagged, Say
  <2> HIDE DEF l
  <2>3. PICK n \in Nat : n = 0 /\ DOMAIN wire' = 1 .. n + 1 /\ wire'[n + 1] = l
    BY <2>1, <2>2, Written
  <2>4. \A i \in DOMAIN wire' : wire'[i].kind = "tagged"
    BY <2>2, <2>3
  <2> QED BY <1>2, <1>3, <2>1, <2>2, <2>4
<1>7. CASE AnswerFetch
  <2>1. serving.kind = "FETCH" /\ wire = <<>> /\ req' = req
    BY <1>7 DEF AnswerFetch, Serving
  <2>2. CASE /\ serving.begin <= serving.end
             /\ Say(Line("DATA", serving.begin, sflags[srv[serving.begin]]))
             /\ serving' = [serving EXCEPT !.begin = @ + 1]
    <3> DEFINE l == Line("DATA", serving.begin, sflags[srv[serving.begin]])
    <3>1. wire' = Append(wire, l) /\ l.n = serving.begin
      BY <2>2 DEF Say, Line
    <3> HIDE DEF l
    <3>2. PICK n \in Nat : n = 0 /\ DOMAIN wire' = 1 .. n + 1 /\ wire'[n + 1] = l
      BY <2>1, <3>1, Written
    <3>3. serving \in [kind : {"FETCH"}, begin : Nat, end : Nat] /\ Highest \in Nat /\ fetch.sent \in Nat
      BY <2>1, FetchRequest
    <3>4. PICK b, e \in Nat : b = serving.begin /\ e = serving.end
      BY <3>3
    <3>5. serving'.begin = b + 1 /\ serving'.end = e /\ serving'.kind = "FETCH"
      BY <2>2, <3>3, <3>4
    <3>6. Highest < b /\ e <= fetch.sent /\ b <= e
      BY <1>2, <2>1, <2>2, <3>4
    <3>7. Highest < b + 1 /\ b < b + 1 /\ b <= fetch.sent
      BY <3>3, <3>4, <3>6
    <3>8. \A i \in DOMAIN wire' : wire'[i].n = b
      BY <3>1, <3>2, <3>4
    <3> QED BY <1>2, <2>1, <3>5, <3>6, <3>7, <3>8
  <2> QED BY <1>6, <1>7, <2>1, <2>2 DEF AnswerFetch
<1>8. CASE AnswerPlain \/ AnswerBatch
  BY <1>3, <1>8 DEF AnswerPlain, AnswerBatch, Serving
<1>9. CASE AnswerStore
  BY <1>3, <1>9 DEF AnswerStore, Serving
<1> QED BY <1>4, <1>5, <1>7, <1>8, <1>9 DEF Server

\* Data is for a free slot.
LEMMA DataIsNew ==
    ASSUME Inv, Turn, Above, NEW l, ReadsLine(l), l.kind = "DATA"
    PROVE  /\ At("fetching") /\ Slot(l.n) = Null
           /\ Highest < l.n /\ l.n < serving.begin /\ l.n <= fetch.sent /\ wire' = <<>>
<1>1. l = wire[1] /\ 1 \in DOMAIN wire /\ wire # <<>> /\ l = Head(wire) /\ wire' = Tail(wire)
  BY ReadOff DEF ReadsLine
<1>2. wire' = <<>>
  BY <1>1, LastRead
<1>3. At("fetching")
  BY <1>1 DEF Turn, Expected, Idling
<1>4. Highest < l.n /\ l.n < serving.begin /\ l.n <= fetch.sent
  BY <1>1, <1>3 DEF Above
<1>5. l.n \notin DOMAIN msn
  <2>1. PICK h \in Nat : h = Highest /\ DOMAIN msn = 1 .. h
    BY LenProperties DEF Inv, TypesInv, TableTypes, Highest
  <2>2. l.n \in Nat
    BY LineFacts
  <2> QED BY <1>4, <2>1, <2>2
<1>6. Slot(l.n) = Null
  BY <1>5 DEF Slot
<1> QED BY <1>2, <1>3, <1>4, <1>6

LEMMA AboveClient ==
    ASSUME Inv, Shape, Turn, CalmLines, Above, Client \/ User
    PROVE  Above'
<1>1. CASE HandleUntagged
  <2>1. PICK l : /\ ReadsLine(l) /\ todo' = todo /\ l = Head(wire)
                 /\ \/ l.kind = "EXISTS" /\ msn' = msn
                    \/ l.kind = "EXPUNGE"
                    \/ l.kind = "FETCH"
                    \/ l.kind = "DATA" /\ Slot(l.n) # Null
                    \/ l.kind = "DATA" /\ Slot(l.n) = Null /\ NewMessage(l.n, l.box[l.n], l.flags)
    BY <1>1, Readings DEF ReadsLine
  <2>2. /\ wire # <<>> /\ wire' = Tail(wire) /\ UNCHANGED <<serving, req, fetch>>
    BY <2>1 DEF ReadsLine
  <2>3. At("fetch")' = At("fetch") /\ At("fetching")' = At("fetching") /\ More' = More
    BY <2>1, <2>2 DEF At, Busy, More
  <2>4. PICK n \in Nat : /\ DOMAIN wire = 1 .. n /\ DOMAIN wire' = 1 .. n - 1
                         /\ \A i \in 1 .. n - 1 : wire'[i] = wire[i + 1] /\ i + 1 \in 1 .. n
                         /\ l = wire[1] /\ 1 \in DOMAIN wire
    BY <2>1, <2>2, ReadOff
  <2>5. CASE l.kind = "EXISTS" /\ msn' = msn
    BY <2>2, <2>3, <2>4, <2>5 DEF Above, Highest
  <2>6. CASE l.kind = "EXPUNGE"
    <3>1. At("wait")
      BY <2>4, <2>6 DEF CalmLines
    <3> QED BY <2>3, <3>1 DEF Above, At
  <2>7. CASE l.kind = "FETCH"
    BY <2>4, <2>7 DEF CalmLines
  <2>8. CASE l.kind = "DATA"
    <3>1. /\ At("fetching") /\ Slot(l.n) = Null
          /\ Highest < l.n /\ l.n < serving.begin /\ l.n <= fetch.sent /\ wire' = <<>>
      BY <2>1, <2>8, DataIsNew
    <3>2. NewMessage(l.n, l.box[l.n], l.flags)
      BY <2>1, <2>8, <3>1
    <3>3. PICK k \in Nat : k = l.n
      BY <2>1, LineFacts
    <3>4. Highest' = k
      <4>1. \E u : msn' = [i \in 1 .. k |-> IF i = k THEN u ELSE Slot(i)]
        BY <3>1, <3>2, <3>3 DEF NewMessage
      <4>2. PICK u : msn' = [i \in 1 .. k |-> IF i = k THEN u ELSE Slot(i)]
        BY <4>1
      <4>3. DOMAIN msn' = 1 .. k
        BY <4>2
      <4>4. msn' \in Seq(Uid \cup {Null})
        BY <1>1, HandleUntaggedKeeps DEF Inv, TypesInv, TableTypes
      <4> QED BY <4>3, <4>4, LenProperties DEF Highest
    <3>5. serving.kind = "FETCH" /\ req.kind = "none"
      BY <2>4, <2>8 DEF Turn, Idling
    <3>6. serving.end <= fetch.sent
      BY <3>1, <3>5 DEF Above
    <3>7. DOMAIN wire' = {}
      BY <3>1
    <3>8. ~At("fetch")
      BY <3>1 DEF At
    <3> QED BY <2>2, <2>3, <3>1, <3>3, <3>4, <3>5, <3>6, <3>7, <3>8 DEF Above
  <2> QED BY <2>1, <2>5, <2>6, <2>7, <2>8
<1>2. CASE Purge \/ Edit
  <2>1. todo' = todo /\ ~At("fetch") /\ ~At("fetching")
    BY <1>2 DEF Purge, Edit, At
  <2> QED BY <2>1 DEF Above, At, Busy
<1>3. CASE Onwards
  <2>1. todo' = Tail(todo) /\ Tail(todo) \in Rests
    BY <1>3, OnwardsGo
  <2>2. ~At("fetch")' /\ ~At("fetching")'
    BY <2>1, RestsFit DEF At, Busy
  <2> QED BY <2>2 DEF Above
<1>4. CASE Asking
  <2>1. ~At("fetch")' /\ ~At("fetching")'
    BY <1>4, AskingGo DEF At, Busy
  <2> QED BY <2>1 DEF Above
<1>5. CASE ReadHeaders
  <2>1. Head(todo') = "fetch"
    <3>1. Busy /\ Then(<<"fetch">>)
      BY <1>5 DEF ReadHeaders, At
    <3> QED BY <3>1, Goes, Doings
  <2>2. fetch' = [begin |-> Highest + 1, end |-> newCount, sent |-> 0] /\ msn' = msn
    BY <1>5 DEF ReadHeaders, idxVars
  <2>3. Highest' < fetch'.begin
    BY <2>2, FetchRequest DEF Highest
  <2> QED BY <2>1, <2>3 DEF Above, At
<1>6. CASE Fetched
  <2>1. At("fetching") /\ msn' = msn
    BY <1>6 DEF Fetched, idxVars
  <2>2. Head(todo') \in {"fetch", "fetched"}
    BY <1>6, SteppingGo DEF Stepping, At, Fetched
  <2>3. Head(todo') = "fetch" => Head(wire).res = "OK"
    <3> SUFFICES ASSUME Head(wire).res # "OK" PROVE Head(todo') = "fetched"
      BY <2>2
    <3>1. Busy /\ Then(<<"fetched">>)
      BY <1>6 DEF Fetched, At
    <3> QED BY <3>1, Goes, Doings
  <2>4. Head(wire).res = "OK" => fetch'.begin = fetch.sent + 1
    <3>1. \E e : Head(wire).res = "OK" => fetch' = [fetch EXCEPT !.begin = fetch.sent + 1, !.end = e]
      BY <1>6 DEF Fetched
    <3> QED BY <3>1 DEF Inv, TypesInv, CountTypes
  <2>5. Highest' = Highest /\ Highest <= fetch.sent
    BY <2>1 DEF Above, Highest
  <2>6. Highest < fetch.sent + 1
    BY <2>5, FetchRequest
  <2> QED BY <2>2, <2>3, <2>4, <2>5, <2>6 DEF Above, At
<1>7. CASE SendFetch
  <2>1. /\ At("fetch") /\ More /\ req' = [kind |-> "FETCH", begin |-> fetch.begin, end |-> fetch.end]
        /\ fetch' = [fetch EXCEPT !.sent = fetch.end]
        /\ UNCHANGED <<serving, wire, msn>>
    BY <1>7 DEF SendFetch, Send, srvVars, idxVars
  <2>2. Highest < fetch.begin /\ fetch.begin <= fetch.end /\ Highest' = Highest
    BY <2>1 DEF Above, More, Highest
  <2>3. fetch'.sent = fetch.end
    BY <2>1 DEF Inv, TypesInv, CountTypes
  <2>4. Highest <= fetch.end
    BY <2>2, FetchRequest
  <2>5. Expected = {}
    BY <2>1 DEF Expected, At
  <2>6. serving.kind # "FETCH" /\ \A i \in DOMAIN wire : wire[i].kind # "DATA"
    BY <2>5 DEF Turn, Idling
  <2>7. ~At("fetch")'
    <3>1. Busy /\ Then(<<"fetching">>)
      BY <1>7 DEF SendFetch, At
    <3>2. Head(todo') = "fetching"
      BY <3>1, Goes, Doings
    <3> QED BY <3>2 DEF At
  <2>8. fetch.end <= fetch.end
    BY FetchRequest
  <2> QED BY <2>1, <2>2, <2>3, <2>4, <2>6, <2>7, <2>8 DEF Above
<1>8. CASE Completed \/ TooSoon \/ AllFetched \/ MarkDeleted
  <2>1. Head(todo') \in {"finish", "fetched", "collect"}
    <3>1. PICK a \in {"finish", "fetched", "collect"} : Busy /\ Then(<<a>>)
      BY <1>8 DEF Completed, TooSoon, AllFetched, MarkDeleted, At
    <3> QED BY <3>1, Goes, Doings
  <2> QED BY <2>1 DEF Above, At
<1> QED BY <1>1, <1>2, <1>3, <1>4, <1>5, <1>6, <1>7, <1>8, Doing DEF Stepping

LEMMA PendingKept ==
    ASSUME Inv, Shape, Turn, CalmLines, Pending, Allowed, Above, Client \/ User
    PROVE  Pending'
<1>1. CASE HandleUntagged
  <2>1. PICK l : /\ ReadsLine(l) /\ todo' = todo
                 /\ \/ l.kind = "EXISTS" /\ ParseExists(l.n)
                    \/ l.kind = "EXPUNGE"
                    \/ l.kind = "FETCH"
                    \/ l.kind = "DATA" /\ Slot(l.n) # Null
                    \/ reopen' = reopen
    BY <1>1, Readings
  <2>2. l = wire[1] /\ 1 \in DOMAIN wire
    BY <2>1, ReadOff DEF ReadsLine
  <2>3. At("wait")' = At("wait") /\ At("finish")' = At("finish")
    BY <2>1 DEF At, Busy
  <2>4. CASE l.kind = "EXPUNGE"
    BY <2>1, <2>2, <2>3, <2>4 DEF CalmLines, Pending
  <2>5. CASE l.kind = "EXISTS" /\ ParseExists(l.n)
    BY <2>1, <2>3, <2>5 DEF ParseExists, Pending
  <2>6. CASE l.kind = "DATA" /\ Slot(l.n) # Null
    BY <2>1, <2>6, DataIsNew
  <2>7. CASE l.kind = "FETCH"
    BY <2>2, <2>7 DEF CalmLines
  <2>8. CASE reopen' = reopen
    BY <2>1, <2>3, <2>8 DEF Pending
  <2> QED BY <2>1, <2>4, <2>5, <2>6, <2>7, <2>8
<1>2. CASE Purge
  BY <1>2 DEF Purge, Pending
<1>3. CASE Edit
  BY <1>3 DEF Edit, mboxVars, Pending, At, Busy
<1>4. CASE NotAllowed
  <2> SUFFICES ASSUME "EXPUNGE" \in reopen PROVE FALSE
    BY <1>4 DEF NotAllowed, mboxVars, Pending
  <2>1. At("finish") /\ Tail(todo) = ToForget /\ "ALLOW" \notin reopen
    BY <1>4 DEF NotAllowed, Pending, At
  <2> QED BY <2>1 DEF Allowed, Purging, At, ToExpunge
<1>5. CASE NothingToFetch \/ ReadHeaders \/ Finished
  BY <1>5 DEF NothingToFetch, ReadHeaders, Finished, mboxVars, Pending
<1>6. CASE Polled \/ Status \/ Disallow \/ Stored \/ Expunged \/ MsgOpened \/ TooSoon \/ SendFetch
           \/ Fetched \/ AllFetched \/ MarkDeleted
  <2>1. ~At("wait") /\ ~At("finish") /\ reopen' \subseteq reopen \cup {"ALLOW"}
    BY <1>6 DEF Polled, Status, Disallow, Stored, Expunged, MsgOpened, TooSoon, SendFetch, Fetched,
                AllFetched, MarkDeleted, At, mboxVars
  <2> QED BY <2>1 DEF Pending
<1>7. CASE Completed
  <2>1. Busy /\ Head(todo) = "wait" /\ Then(<<"finish">>) /\ reopen' = reopen
    BY <1>7 DEF Completed, At, mboxVars
  <2>2. todo' # <<>> /\ Head(todo') = "finish" /\ Tail(todo') = Tail(todo)
    BY <2>1, Goes, Doings
  <2> QED BY <2>1, <2>2 DEF Pending, At, Busy
<1>8. CASE Asking
  <2>1. ~At("wait") /\ ~At("finish")
    BY <1>8, AskingGo DEF At
  <2>2. reopen' \subseteq reopen \cup {"ALLOW", "EXPECTED"}
    BY <1>8 DEF Asking, Idle, Noop, Collect, SendExpunge, StoreFailed, Check, Sync, MsgOpen, mboxVars
  <2> QED BY <2>1, <2>2 DEF Pending
<1> QED BY <1>1, <1>2, <1>3, <1>4, <1>5, <1>6, <1>7, <1>8, Doing DEF Onwards, Stepping

LEMMA SavedKept ==
    ASSUME Shape, Saved, Client \/ User
    PROVE  Saved'
<1>1. CASE HandleUntagged \/ Purge
  BY <1>1 DEF HandleUntagged, Purge, Saved, Busy
<1>2. CASE Edit
  BY <1>2 DEF Edit, Saved, Busy
<1>3. CASE Onwards
  <2>1. Busy /\ todo' = Tail(todo) /\ Tail(todo) \in Rests
    BY <1>3, OnwardsGo
  <2> SUFFICES ASSUME Busy', Head(todo') = "purge" PROVE edited' = {}
    BY <2>1, Rested DEF Saved, Busy
  <2>2. Tail(todo) = ToPurge
    BY <2>1, Rested DEF Busy
  <2>3. Fits(Head(todo), ToPurge)
    BY <2>1, <2>2 DEF Shape
  <2>4. Head(todo) \in {"mark", "collect", "stored"}
    <3>1. ToPurge \notin Finishes \cup Notes \cup Statuses \cup {ToForget, ToShow, ToReport, ToStore, ToMark, <<>>}
      BY RestFacts DEF Finishes, Notes, Statuses
    <3> QED BY <2>3, <3>1 DEF Fits
  <2>5. Stored
    BY <1>3, <2>4 DEF Onwards, NotAllowed, NothingToFetch, Finished, Polled, Status, Disallow, Expunged,
                      MsgOpened, At
  <2> QED BY <2>5 DEF Stored
<1>4. CASE Stepping
  <2>1. Busy /\ Tail(todo') = Tail(todo) /\ Head(todo') # "purge"
    BY <1>4, SteppingGo
  <2>2. edited' = edited
    BY <1>4 DEF Stepping, Completed, TooSoon, ReadHeaders, SendFetch, Fetched, AllFetched, MarkDeleted
  <2> QED BY <2>1, <2>2 DEF Saved
<1>5. CASE Asking
  BY <1>5, AskingGo DEF Saved
<1> QED BY <1>1, <1>2, <1>3, <1>4, <1>5, Doing

\* An EXPUNGE changes numbers, and which email is gone.
LEMMA RenumberedLook ==
    ASSUME Inv, NEW l, ReadsLine(l), l.kind = "EXPUNGE", ParseExpunge(l.n)
    PROVE  /\ DOMAIN index' = DOMAIN index
           /\ \A u \in DOMAIN index : /\ index'[u].deleted = index[u].deleted /\ index'[u].flag = index[u].flag
                                      /\ index'[u].changed = index[u].changed
                                      /\ index'[u].active = index[u].active
                                      /\ index'[u].remote = index[u].remote
<1> DEFINE look(a, b) == /\ a.deleted = b.deleted /\ a.flag = b.flag /\ a.changed = b.changed
                         /\ a.active = b.active /\ a.remote = b.remote
<1>1. CASE l.n \notin DOMAIN msn
  BY <1>1 DEF ParseExpunge
<1>2. CASE l.n \in DOMAIN msn
  <2>1. PICK n : n = l.n /\ n \in DOMAIN msn
    BY <1>2
  <2> DEFINE ix == IF msn[n] = Null THEN index ELSE Gone(index, msn[n])
  <2> DEFINE above(u) == \E j \in n + 1 .. Highest : msn[j] = u
  <2>2. index' = [u \in DOMAIN ix |-> IF above(u) THEN [ix[u] EXCEPT !.msn = @ - 1] ELSE ix[u]]
    BY <1>2, <2>1 DEF ParseExpunge, Renumbered
  <2>3. /\ ix \in [DOMAIN index -> EmailSet]
        /\ \A u \in DOMAIN index : look(ix[u], index[u])
    <3>1. CASE msn[n] = Null
      BY <3>1, MarkingTypes
    <3>2. CASE msn[n] # Null
      <4>1. msn[n] \in DOMAIN index
        BY <2>1, <3>2 DEF Inv, MatchInv, NumbersMatch
      <4>2. PICK e : e = [index[msn[n]] EXCEPT !.gone = TRUE, !.msn = Null]
        OBVIOUS
      <4>3. e \in EmailSet /\ look(e, index[msn[n]])
        BY <4>1, <4>2, MarkingTypes, UidFacts DEF EmailSet
      <4>4. Gone(index, msn[n]) = [index EXCEPT ![msn[n]] = e]
        BY <4>1, <4>2, MarkingTypes DEF Gone
      <4> QED BY <3>2, <4>1, <4>3, <4>4, MarkingTypes
    <3> QED BY <3>1, <3>2
  <2> HIDE DEF ix, above
  <2>4. \A u \in DOMAIN index : look([ix[u] EXCEPT !.msn = @ - 1], ix[u])
    BY <2>3 DEF EmailSet
  <2> QED BY <2>2, <2>3, <2>4
<1> QED BY <1>1, <1>2

LEMMA SameChanges ==
    ASSUME LocalChangesKept, edited' \subseteq edited, DOMAIN index \subseteq DOMAIN index',
           \A u \in DOMAIN index : index'[u].changed = index[u].changed
    PROVE  LocalChangesKept'
BY DEF LocalChangesKept

LEMMA ChangesStay ==
    ASSUME Inv, Turn, Listed, CalmLines, Pending, Saved, Above, LocalChangesKept, Client \/ User
    PROVE  LocalChangesKept'
<1>1. CASE HandleUntagged
  <2>1. PICK l : /\ ReadsLine(l) /\ edited' = edited \cap ToSet(l.box)
                 /\ \/ l.kind = "EXISTS" /\ index' = index
                    \/ l.kind = "EXPUNGE" /\ ParseExpunge(l.n)
                    \/ l.kind \in {"FETCH", "DATA"} /\ ParseFetch(l.n, l.flags)
                    \/ l.kind = "DATA" /\ Slot(l.n) = Null /\ NewMessage(l.n, l.box[l.n], l.flags)
    BY <1>1, Readings
  <2>2. edited' \subseteq edited
    BY <2>1
  <2>3. CASE l.kind = "EXISTS" /\ index' = index
    BY <2>2, <2>3, SameChanges
  <2>4. CASE l.kind = "EXPUNGE" /\ ParseExpunge(l.n)
    <3>1. DOMAIN index' = DOMAIN index /\ \A u \in DOMAIN index : index'[u].changed = index[u].changed
      BY <2>1, <2>4, RenumberedLook
    <3> QED BY <2>2, <3>1, SameChanges
  <2>5. CASE l.kind \in {"FETCH", "DATA"} /\ ParseFetch(l.n, l.flags)
    <3>1. DOMAIN index' = DOMAIN index /\ \A u \in DOMAIN index : index'[u].changed = index[u].changed
      BY <2>1, <2>5, FetchSame
    <3> QED BY <2>2, <3>1, SameChanges
  <2>6. CASE l.kind = "DATA" /\ Slot(l.n) = Null /\ NewMessage(l.n, l.box[l.n], l.flags)
    <3>1. DOMAIN index \subseteq DOMAIN index' /\ \A v \in DOMAIN index : index'[v] = index[v]
      BY <2>1, <2>6, ListedNew
    <3> QED BY <2>2, <3>1, SameChanges
  <2> QED BY <2>1, <2>3, <2>4, <2>5, <2>6
<1>2. CASE Purge
  <2>1. At("finish") /\ "EXPUNGE" \in reopen /\ edited' = edited
    BY <1>2 DEF Purge
  <2>2. edited = {}
    BY <2>1 DEF Pending, Saved, At
  <2> QED BY <2>1, <2>2 DEF LocalChangesKept
<1>3. CASE Stored
  BY <1>3 DEF Stored, LocalChangesKept
<1>4. CASE Edit
  <2>1. PICK u \in DOMAIN index :
           /\ \/ index' = [index EXCEPT ![u].deleted = ~@, ![u].changed = TRUE]
              \/ index' = [index EXCEPT ![u].flag = ~@, ![u].changed = TRUE]
           /\ edited' \subseteq edited \cup {u}
    BY <1>4 DEF Edit
  <2>2. PICK e : e = index[u] /\ e \in EmailSet
    BY MarkingTypes
  <2>4. /\ DOMAIN index' = DOMAIN index /\ index'[u].changed = TRUE
        /\ \A v \in DOMAIN index : v # u => index'[v] = index[v]
    <3>1. CASE index' = [index EXCEPT ![u].deleted = ~@, ![u].changed = TRUE]
      <4>1. PICK g : g = [e EXCEPT !.deleted = ~@, !.changed = TRUE]
        OBVIOUS
      <4>2. g.changed = TRUE
        BY <2>2, <4>1 DEF EmailSet
      <4>3. index' = [index EXCEPT ![u] = g]
        BY <2>2, <3>1, <4>1, MarkingTypes DEF EmailSet
      <4> QED BY <4>2, <4>3, MarkingTypes
    <3>2. CASE index' = [index EXCEPT ![u].flag = ~@, ![u].changed = TRUE]
      <4>1. PICK g : g = [e EXCEPT !.flag = ~@, !.changed = TRUE]
        OBVIOUS
      <4>2. g.changed = TRUE
        BY <2>2, <4>1 DEF EmailSet
      <4>3. index' = [index EXCEPT ![u] = g]
        BY <2>2, <3>2, <4>1, MarkingTypes DEF EmailSet
      <4> QED BY <4>2, <4>3, MarkingTypes
    <3> QED BY <2>1, <3>1, <3>2
  <2> QED BY <2>1, <2>4 DEF LocalChangesKept
<1>5. CASE MarkDeleted
  <2>1. edited' = edited
    BY <1>5 DEF MarkDeleted
  <2> DEFINE b(u) == index[u].active /\ ~(index[u].deleted /\ index[u].changed)
  <2>2. index' = index \/ index' = [u \in DOMAIN index |-> [index[u] EXCEPT !.active = b(u)]]
    BY <1>5 DEF MarkDeleted
  <2> HIDE DEF b
  <2>3. \A u \in DOMAIN index : [index[u] EXCEPT !.active = b(u)].changed = index[u].changed
    BY MarkingTypes DEF EmailSet
  <2>4. DOMAIN index' = DOMAIN index /\ \A u \in DOMAIN index : index'[u].changed = index[u].changed
    BY <2>2, <2>3
  <2> QED BY <2>1, <2>4, SameChanges
<1>6. CASE MsgOpen \/ MsgOpened
  <2>1. edited' = edited
    BY <1>6 DEF MsgOpen, MsgOpened
  <2>2. \/ \E u \in DOMAIN index : index' = [index EXCEPT ![u].active = FALSE]
        \/ index' = [u \in DOMAIN index |->
                        IF u = handle THEN [index[u] EXCEPT !.active = TRUE] ELSE index[u]]
    BY <1>6 DEF MsgOpen, MsgOpened
  <2>3. DOMAIN index' = DOMAIN index /\ \A u \in DOMAIN index : index'[u].changed = index[u].changed
    <3>1. ASSUME NEW u \in DOMAIN index, index' = [index EXCEPT ![u].active = FALSE]
          PROVE  DOMAIN index' = DOMAIN index /\ \A v \in DOMAIN index : index'[v].changed = index[v].changed
      <4>1. PICK e : e = [index[u] EXCEPT !.active = FALSE]
        OBVIOUS
      <4>2. e.changed = index[u].changed /\ index' = [index EXCEPT ![u] = e]
        BY <3>1, <4>1, MarkingTypes DEF EmailSet
      <4> QED BY <4>2, MarkingTypes
    <3>2. \A u \in DOMAIN index : [index[u] EXCEPT !.active = TRUE].changed = index[u].changed
      BY MarkingTypes DEF EmailSet
    <3> QED BY <2>2, <3>1, <3>2
  <2> QED BY <2>1, <2>3, SameChanges
<1>7. CASE NotAllowed \/ NothingToFetch \/ Finished \/ Polled \/ Status \/ Disallow \/ Expunged
           \/ Completed \/ TooSoon \/ ReadHeaders \/ SendFetch \/ Fetched \/ AllFetched
           \/ Idle \/ Noop \/ Collect \/ SendExpunge \/ StoreFailed \/ Check \/ Sync
  <2>1. UNCHANGED <<index, edited>>
    BY <1>7 DEF NotAllowed, NothingToFetch, Finished, Polled, Status, Disallow, Expunged, Completed,
                TooSoon, ReadHeaders, SendFetch, Fetched, AllFetched, Idle, Noop, Collect, SendExpunge,
                StoreFailed, Check, Sync, idxVars
  <2> QED BY <2>1 DEF LocalChangesKept
<1> QED BY <1>1, <1>2, <1>3, <1>4, <1>5, <1>6, <1>7 DEF Client, User

\* Without edits nothing is to be kept.
Editing == {"delete", "flag"} \cap world.user # {}

Calm == CalmLines /\ Pending /\ Allowed /\ Saved /\ Above /\ LocalChangesKept

EditInv ==
    /\ world.push = "EXPUNGE" => Inv /\ Shape /\ Turn /\ Listed
    /\ Undisturbed => Calm
    /\ ~Editing => edited = {}

LEMMA CalmStep ==
    ASSUME Inv, Shape, Turn, Listed, Undisturbed, Calm, Next
    PROVE  Calm'
<1>1. CASE Server
  <2>1. UNCHANGED <<world, todo, reopen, edited, index>>
    BY <1>1, ServerLeaves
  <2>2. Pending' /\ Allowed' /\ Saved' /\ LocalChangesKept'
    BY <2>1, AllowedServer DEF Calm, Pending, Saved, LocalChangesKept, At, Busy
  <2> QED BY <1>1, <2>2, CalmServer, AboveServer DEF Calm
<1>2. CASE Client \/ User
  BY <1>2, CalmClient, PendingKept, AllowedKept, SavedKept, AboveClient, ChangesStay DEF Calm
<1> QED BY <1>1, <1>2 DEF Next

LEMMA NoEdits ==
    ASSUME ~Editing, edited = {}, Next
    PROVE  edited' = {}
<1>1. CASE Server
  BY <1>1, ServerLeaves
<1>2. CASE Edit
  BY <1>2 DEF Edit, Editing
<1>3. CASE HandleUntagged \/ Stored
  BY <1>3 DEF HandleUntagged, Stored
<1>4. CASE (Client \/ User) /\ ~Edit /\ ~HandleUntagged /\ ~Stored
  BY <1>4 DEF Client, User, Purge, NotAllowed, NothingToFetch, Finished, Polled, Status, Disallow,
              Expunged, Completed, TooSoon, ReadHeaders, SendFetch, Fetched, AllFetched, Idle, Noop,
              Collect, SendExpunge, StoreFailed, Check, Sync, MsgOpen, MsgOpened, MarkDeleted
<1> QED BY <1>1, <1>2, <1>3, <1>4 DEF Next, Client, User

LEMMA EditInvStep == EditInv /\ [Next]_vars => EditInv'
<1> SUFFICES ASSUME EditInv, [Next]_vars PROVE EditInv'
  OBVIOUS
<1>0. world' = world
  BY WorldFixed
<1>1. Undisturbed' = Undisturbed /\ Editing' = Editing
  BY <1>0 DEF Undisturbed, Editing
<1>2. CASE Next
  <2>1. world.push = "EXPUNGE" => Inv' /\ Shape' /\ Turn' /\ Listed'
    <3> HAVE world.push = "EXPUNGE"
    <3>1. Inv /\ Shape /\ Turn /\ Listed
      BY DEF EditInv
    <3>2. CASE Server
      <4>1. todo' = todo
        BY <3>2, ServerLeaves
      <4>2. Shape'
        BY <3>1, <4>1 DEF Shape, Busy
      <4> QED BY <3>1, <3>2, <4>2, ServerKeeps, ServerStep, TurnServer, ListedServer
    <3>3. CASE Client \/ User
      BY <3>1, <3>3, ClientKeeps, ShapeKept, TurnClient, ListedClient
    <3> QED BY <1>2, <3>2, <3>3 DEF Next
  <2>2. Undisturbed => Calm'
    BY <1>2, CalmStep DEF EditInv, Undisturbed
  <2>3. ~Editing => edited' = {}
    BY <1>2, NoEdits DEF EditInv
  <2> QED BY <1>0, <1>1, <2>1, <2>2, <2>3 DEF EditInv
<1>3. CASE UNCHANGED vars
  <2>1. UNCHANGED <<world, srv, sflags, serving, req, wire, index, msn, hash, reopen, newCount, fetch,
                    batch, todo, told, edited>>
    BY <1>3 DEF vars, srvVars, idxVars, mboxVars
  <2>2. Inv => Inv'
    BY <1>3, StuttersKeep
  <2>3. (Shape => Shape') /\ (Turn => Turn') /\ (Listed => Listed')
    BY <2>1 DEF Shape, Busy, Turn, Expected, At, Listed, Newest
  <2>4. Calm => Calm'
    <3>1. /\ At("fetch")' = At("fetch") /\ At("fetching")' = At("fetching") /\ At("wait")' = At("wait")
          /\ At("finish")' = At("finish") /\ Busy' = Busy /\ More' = More /\ Highest' = Highest
      BY <2>1 DEF At, Busy, More, Highest
    <3>2. CalmLines => CalmLines'
      BY <2>1, <3>1 DEF CalmLines
    <3>3. Allowed => Allowed'
      BY <2>1, AllowedServer
    <3>4. (Pending => Pending') /\ (Saved => Saved') /\ (LocalChangesKept => LocalChangesKept')
      BY <2>1, <3>1 DEF Pending, Saved, LocalChangesKept
    <3>5. Above => Above'
      BY <2>1, <3>1 DEF Above
    <3> QED BY <3>2, <3>3, <3>4, <3>5 DEF Calm
  <2> QED BY <1>0, <1>1, <2>1, <2>2, <2>3, <2>4 DEF EditInv
<1> QED BY <1>2, <1>3

LEMMA InitEditInv == Init => EditInv
<1> SUFFICES ASSUME Init PROVE EditInv
  OBVIOUS
<1>1. /\ wire = <<>> /\ todo = <<>> /\ reopen = {"ALLOW"} /\ edited = {} /\ serving = NoReq /\ req = NoReq
      /\ told = srv /\ srv = [i \in 1 .. Old |-> i] /\ sflags = [u \in 1 .. Old |-> Clear]
      /\ index = [u \in 1 .. Old |-> NewEmail(u, Clear)]
  BY DEF Init
<1>2. Inv
  BY InitInv
<1>3. DOMAIN wire = {} /\ ~Busy
  BY <1>1 DEF Busy
<1>4. Shape
  BY <1>1, <1>3, RestFacts DEF Shape
<1>5. Turn
  <2>1. Expected = {}
    BY <1>3, UnaskedAt
  <2> QED BY <1>1, <1>3, <2>1 DEF Turn, NoReq, Idling
<1>6. Listed
  <2>1. \A p \in DOMAIN told : index[told[p]].msn # Null
    <3> TAKE p \in DOMAIN told
    <3>1. p \in 1 .. Old /\ told[p] = p /\ p # 0
      BY <1>1
    <3> QED BY <1>1, <3>1, UidFacts DEF NewEmail
  <2> QED BY <1>1, <1>3, <2>1 DEF Listed
<1>7. Calm
  BY <1>1, <1>3 DEF Calm, CalmLines, Pending, Allowed, Saved, Above, LocalChangesKept, Purging, At
<1> QED BY <1>1, <1>2, <1>4, <1>5, <1>6, <1>7 DEF EditInv

LEMMA EditInvHolds == Spec => []EditInv
BY InitEditInv, EditInvStep, PTL DEF Spec

\* What the user changed stays changed in the index until it is synced, when
\* the other clients of the mailbox only deliver to it, and the server lets a
\* FETCH go beyond the last message if the user purges: mutt_set_flag(),
\* imap_set_flags(), update_tables().
THEOREM ChangesKept == Spec => []((Editing => Undisturbed) => LocalChangesKept)
<1>1. EditInv => ((Editing => Undisturbed) => LocalChangesKept)
  BY DEF EditInv, Calm, LocalChangesKept
<1> QED BY <1>1, EditInvHolds, PTL

-----------------------------------------------------------------------------
(* What a sync sends is what the user sees *)

\* And the server refuses no STORE.
Obliging == Undisturbed /\ ~world.refuse

\* From the STORE commands to their success; from there to the end of the
\* EXPUNGE; from the marking of deleted messages to the same.
Storing == Busy /\ (Head(todo) = "stored" \/ Tail(todo) \in Notes)
Ending  == Busy /\ (Head(todo) \in {"purge", "expunged"} \/ Tail(todo) = ToForget)
Marked  == \/ Ending
           \/ Busy /\ Head(todo) # "mark" /\ Tail(todo) = ToPurge
           \/ Busy /\ Tail(todo) = ToNoteAndPurge

Here(u) == u \in DOMAIN index /\ \E i \in DOMAIN srv : srv[i] = u

\* The queue has a command for flag g of message u.
Holds(q, u, g)  == \E k \in DOMAIN q : q[k].flag = g /\ u \in q[k].uids
Stores(c, u, g) == c.kind = "STORE" /\ Holds(c.cmds, u, g)
Queued(u, g)    == Holds(batch, u, g) \/ Stores(req, u, g) \/ Stores(serving, u, g)
Right(q) == \A k \in DOMAIN q : \A u \in q[k].uids :
                u \in DOMAIN index /\ Shown(index[u])[q[k].flag] = q[k].on

Synced(u)   == index[u].remote = sflags[u] /\ (~index[u].changed => Shown(index[u]) = sflags[u])
OnItsWay(u) == \A g \in {"deleted", "flag"} :
    \/ sflags[u][g] = Shown(index[u])[g]
    \/ Queued(u, g)
    \/ g = "flag" /\ Marked /\ index[u].deleted

GoneInv == "EXPUNGE" \notin reopen => \A u \in DOMAIN index : ~index[u].gone
ResInv  == /\ \A c \in {serving, req} : c.kind = "STORE" => c.res = "OK"
           /\ Storing /\ Head(todo) # "wait" => rc = "OK"
           /\ \A i \in DOMAIN wire :
                 wire[i].kind = "tagged" /\ At("wait") /\ Tail(todo) \in Notes => wire[i].res = "OK"
QueueInv == /\ Right(batch) /\ \A c \in {serving, req} : c.kind = "STORE" => Right(c.cmds)
            /\ batch # <<>> => Busy /\ \/ Head(todo) = "purge"
                                       \/ Head(todo) \in {"collect", "stored"} /\ Tail(todo) = ToPurge
FlagInv == /\ ~Storing /\ ~Ending => \A u \in Uid : Here(u) => Synced(u)
           /\ Storing \/ Ending => \A u \in Uid : Here(u) => OnItsWay(u)
           /\ Ending => \A u \in DOMAIN index : index[u].remote = Shown(index[u])
EndInv  == Ending /\ Head(todo) # "purge" /\ serving.kind # "STORE" /\ req.kind # "STORE" =>
               \A i \in DOMAIN srv : ~sflags[srv[i]].deleted
ActiveInv == /\ handle # Null => Busy /\ (Head(todo) = "opened" \/ Tail(todo) = ToShow)
             /\ \A u \in Uid : Here(u) => index[u].active \/ u = handle \/ (Marked /\ index[u].deleted)
             /\ At("collect") => \A u \in Uid : Here(u) =>
                   \/ index[u].active
                   \/ /\ Tail(todo) = ToPurge /\ index[u].deleted
                      /\ index[u].remote.deleted \/ Holds(batch, u, "deleted")
DataInv == \A i \in DOMAIN wire : wire[i].kind = "DATA" => wire[i].flags = sflags[wire[i].box[wire[i].n]]

SyncInv == GoneInv /\ ResInv /\ QueueInv /\ FlagInv /\ EndInv /\ ActiveInv /\ DataInv

LEMMA RestHeads ==
    /\ \A r \in Statuses : r # <<>> /\ Head(r) = "status" /\ Tail(r) \in {ToReport, ToStore, ToMark}
    /\ \A r \in Finishes : r # <<>> /\ Head(r) = "finish" /\ Tail(r) \in Statuses
    /\ \A r \in Notes : r # <<>> /\ Head(r) = "stored" /\ Tail(r) \in {<<>>, ToPurge}
BY RestFacts DEF Statuses, Finishes, Notes

\* Where each thing that remains to be done may be met.
Waits == {"wait", "finish", "fetch", "fetching", "fetched"}

LEMMA Places ==
    ASSUME Shape, Busy
    PROVE  /\ Tail(todo) \in Notes \cup {ToForget, ToShow} => Head(todo) \in Waits
           /\ Tail(todo) = ToPurge => Head(todo) \in {"mark", "collect", "stored"}
           /\ Head(todo) \in Waits =>
                 Tail(todo) \in Statuses \cup Finishes \cup Notes \cup {ToForget, ToShow}
           /\ Head(todo) \in {"probe"} => Tail(todo) \in Statuses
           /\ Head(todo) = "poll" => Tail(todo) \in Finishes
           /\ Head(todo) = "status" => Tail(todo) \in {ToReport, ToStore, ToMark}
           /\ Head(todo) = "mark" => Tail(todo) = ToPurge
           /\ Head(todo) \in {"collect", "stored"} => Tail(todo) \in {<<>>, ToPurge}
           /\ Head(todo) \in {"disallow", "purge", "expunged", "opened"} => Tail(todo) = <<>>
<1> DEFINE h == Head(todo)
<1> DEFINE r == Tail(todo)
<1>1. Fits(h, r)
  BY DEF Shape
<1>2. /\ r \in Notes => r # <<>> /\ Head(r) = "stored"
      /\ r \in Statuses => r # <<>> /\ Head(r) = "status"
      /\ r \in Finishes => r # <<>> /\ Head(r) = "finish"
      /\ r = ToForget => r # <<>> /\ Head(r) = "expunged"
      /\ r = ToShow => r # <<>> /\ Head(r) = "opened"
      /\ r = ToReport => r # <<>> /\ Head(r) = "disallow"
      /\ r = ToStore => r # <<>> /\ Head(r) = "collect"
      /\ r = ToMark => r # <<>> /\ Head(r) = "mark"
      /\ r = ToPurge => r # <<>> /\ Head(r) = "purge"
  BY RestHeads, RestFacts
<1> HIDE DEF h, r
<1>3. r \in Notes \cup {ToForget, ToShow} => h \in Waits
  BY <1>1, <1>2 DEF Fits, Waits
<1>4. r = ToPurge => h \in {"mark", "collect", "stored"}
  BY <1>1, <1>2 DEF Fits
<1>5. h \in Waits => r \in Statuses \cup Finishes \cup Notes \cup {ToForget, ToShow}
  BY <1>1 DEF Fits, Waits
<1>6. /\ h \in {"probe"} => r \in Statuses
      /\ h = "poll" => r \in Finishes
      /\ h = "status" => r \in {ToReport, ToStore, ToMark}
      /\ h = "mark" => r = ToPurge
      /\ h \in {"collect", "stored"} => r \in {<<>>, ToPurge}
      /\ h \in {"disallow", "purge", "expunged", "opened"} => r = <<>>
  BY <1>1 DEF Fits
<1> QED BY <1>3, <1>4, <1>5, <1>6 DEF h, r

\* No phase but where its name says.
LEMMA Phases ==
    ASSUME Shape
    PROVE  /\ Storing <=> Busy /\ \/ Head(todo) = "stored"
                                  \/ Head(todo) \in Waits /\ Tail(todo) \in Notes
           /\ Ending  <=> Busy /\ \/ Head(todo) \in {"purge", "expunged"}
                                  \/ Head(todo) \in Waits /\ Tail(todo) = ToForget
           /\ Marked /\ ~Ending => Busy /\ \/ Head(todo) \in {"collect", "stored"} /\ Tail(todo) = ToPurge
                                           \/ Head(todo) \in Waits /\ Tail(todo) = ToNoteAndPurge
           /\ ~(Storing /\ Ending)
<1>1. CASE ~Busy
  BY <1>1 DEF Storing, Ending, Marked
<1>2. CASE Busy
  <2>1. ToNoteAndPurge \in Notes /\ ToForget \notin Notes
    BY RestHeads, RestFacts DEF Notes
  <2>2. /\ Tail(todo) \in Notes \cup {ToForget, ToShow} => Head(todo) \in Waits
        /\ Tail(todo) = ToPurge => Head(todo) \in {"mark", "collect", "stored"}
    BY <1>2, Places
  <2>3. Head(todo) \in {"stored", "purge", "expunged"} => Head(todo) \notin Waits
    BY DEF Waits
  <2>4. Storing <=> Head(todo) = "stored" \/ (Head(todo) \in Waits /\ Tail(todo) \in Notes)
    BY <1>2, <2>2 DEF Storing
  <2>5. Ending <=> Head(todo) \in {"purge", "expunged"} \/ (Head(todo) \in Waits /\ Tail(todo) = ToForget)
    BY <1>2, <2>2 DEF Ending
  <2>6. Marked /\ ~Ending => \/ Head(todo) \in {"collect", "stored"} /\ Tail(todo) = ToPurge
                             \/ Head(todo) \in Waits /\ Tail(todo) = ToNoteAndPurge
    BY <1>2, <2>1, <2>2 DEF Marked
  <2> QED BY <1>2, <2>1, <2>3, <2>4, <2>5, <2>6
<1> QED BY <1>1, <1>2

\* The phase goes on with what remains to be done.
LEMMA PhaseOn ==
    ASSUME Shape, Onwards
    PROVE  /\ Shape' /\ (Storing' <=> Tail(todo) \in Notes)
           /\ Ending' <=> Tail(todo) = ToForget \/ (Head(todo) = "stored" /\ Tail(todo) = ToPurge)
           /\ Marked' <=> Ending' \/ Tail(todo) = ToNoteAndPurge
<1> DEFINE r == Tail(todo)
<1>1. /\ Busy /\ todo' = r /\ r \in Rests
      /\ Head(todo) \in {"finish", "fetched", "poll", "status", "disallow", "stored", "expunged", "opened"}
  BY OnwardsGo
<1>2. /\ r \in Statuses \cup Finishes \cup Notes \cup {ToForget, ToShow, ToReport, ToStore, ToMark, ToPurge, <<>>}
      /\ r = ToPurge => Head(todo) = "stored"
  BY <1>1, Places DEF Rests
<1>3. Shape'
  BY <1>1, RestsFit DEF Shape, Busy
<1>4. /\ r \in Notes => r # <<>> /\ Head(r) = "stored" /\ Tail(r) \in {<<>>, ToPurge}
      /\ r \in Statuses => r # <<>> /\ Head(r) = "status" /\ Tail(r) \in {ToReport, ToStore, ToMark}
      /\ r \in Finishes => r # <<>> /\ Head(r) = "finish" /\ Tail(r) \in Statuses
      /\ r = ToForget => r # <<>> /\ Head(r) = "expunged" /\ Tail(r) = <<>>
      /\ r = ToShow => r # <<>> /\ Head(r) = "opened" /\ Tail(r) = <<>>
      /\ r = ToReport => r # <<>> /\ Head(r) = "disallow" /\ Tail(r) = <<>>
      /\ r = ToStore => r # <<>> /\ Head(r) = "collect" /\ Tail(r) = <<>>
      /\ r = ToMark => r # <<>> /\ Head(r) = "mark" /\ Tail(r) = ToPurge
      /\ r = ToPurge => r # <<>> /\ Head(r) = "purge" /\ Tail(r) = <<>>
  BY RestHeads, RestFacts
<1>5. \A q \in {<<>>, ToPurge, ToReport, ToStore, ToMark} \cup Statuses : q \notin Notes /\ q # ToForget /\ q # ToNoteAndPurge
  BY RestHeads, RestFacts DEF Notes
<1>6. \A q \in {<<>>, ToReport, ToStore, ToMark} \cup Statuses : q # ToPurge
  BY RestHeads, RestFacts
<1>7. ToNoteAndPurge \in Notes
  BY DEF Notes
<1> HIDE DEF r
<1>8. Storing' <=> r # <<>> /\ (Head(r) = "stored" \/ Tail(r) \in Notes)
  BY <1>1 DEF Storing, Busy
<1>9. Ending' <=> r # <<>> /\ (Head(r) \in {"purge", "expunged"} \/ Tail(r) = ToForget)
  BY <1>1 DEF Ending, Busy
<1>10. Marked' <=> Ending' \/ (r # <<>> /\ Head(r) # "mark" /\ Tail(r) = ToPurge)
                   \/ (r # <<>> /\ Tail(r) = ToNoteAndPurge)
  BY <1>1 DEF Marked, Busy
<1>11. Storing' <=> r \in Notes
  BY <1>2, <1>4, <1>5, <1>8
<1>12. Ending' <=> r \in {ToPurge, ToForget}
  BY <1>2, <1>4, <1>5, <1>9
<1>13. Marked' <=> Ending' \/ r = ToNoteAndPurge
  <2>1. r = ToNoteAndPurge => r # <<>> /\ Head(r) = "stored" /\ Tail(r) = ToPurge
    BY RestFacts
  <2>2. r # <<>> /\ Tail(r) = ToPurge => r = ToMark \/ r \in Notes
    <3>1. ToReport # ToPurge /\ ToStore # ToPurge /\ ToMark # ToPurge /\ <<>> # ToPurge
      BY <1>6
    <3>2. \A q \in Statuses : q # ToPurge
      BY <1>6
    <3> HIDE DEF ToPurge, ToReport, ToStore, ToMark
    <3>3. r \in Statuses => Tail(r) # ToPurge
      BY <1>4, <3>1
    <3>4. r \in Finishes => Tail(r) # ToPurge
      BY <1>4, <3>2
    <3>5. r \in {ToForget, ToShow, ToReport, ToStore, ToPurge} => Tail(r) # ToPurge
      BY <1>4, <3>1
    <3> QED BY <1>2, <3>3, <3>4, <3>5
  <2>3. r \in Notes /\ Tail(r) = ToPurge => r = ToNoteAndPurge
    BY <1>6, RestFacts DEF Notes
  <2>4. r # <<>> => Tail(r) # ToNoteAndPurge
    BY <1>2, <1>4, <1>5
  <2> QED BY <1>4, <1>10, <2>1, <2>2, <2>3, <2>4
<1> QED BY <1>2, <1>3, <1>11, <1>12, <1>13 DEF r

\* Steps that go on with a sync, or stay out of it, and leave emails and flags alone.
GoesOn   == NotAllowed \/ NothingToFetch \/ Finished \/ Polled \/ Status \/ Disallow
StepsOn  == Completed \/ TooSoon \/ ReadHeaders \/ SendFetch \/ Fetched \/ AllFetched
StartsOn == Idle \/ Noop \/ Check \/ Sync
Neutral    == GoesOn \/ StepsOn \/ StartsOn

SamePhase == /\ Storing' <=> Storing
             /\ Ending' <=> Ending
             /\ Marked' <=> Marked

\* Where the steps lead: to nothing but what they came for.
Leads ==
    /\ Busy => Head(todo) \notin {"purge", "stored", "collect", "mark", "expunged", "opened"}
    /\ Busy' => Head(todo') # "purge"
    /\ Busy' /\ Head(todo') = "collect" => Busy /\ Head(todo) = "status" /\ Tail(todo') = <<>>
    /\ Busy' /\ Head(todo') = "wait" => Tail(todo') \in Finishes
    /\ Busy /\ Tail(todo) = ToShow => Busy' /\ (Head(todo') = "opened" \/ Tail(todo') = ToShow)

LEMMA GoesOnPhase ==
    ASSUME Shape, GoesOn
    PROVE  SamePhase /\ Leads
<1>1. Onwards
  BY DEF GoesOn, Onwards
<1>2. /\ Busy /\ Head(todo) \in {"finish", "fetched", "poll", "status", "disallow"}
  BY DEF GoesOn, NotAllowed, NothingToFetch, Finished, Polled, Status, Disallow, At
<1>3. todo' = Tail(todo) /\ Tail(todo) \in Rests
  BY <1>1, OnwardsGo
<1>4. /\ Shape' /\ (Storing' <=> Tail(todo) \in Notes)
      /\ Ending' <=> Tail(todo) = ToForget
      /\ Marked' <=> Ending' \/ Tail(todo) = ToNoteAndPurge
  BY <1>1, <1>2, PhaseOn
<1>5. /\ Tail(todo) \in Notes \cup {ToForget, ToShow} => Head(todo) \in Waits
      /\ Tail(todo) # ToPurge
  BY <1>2, Places
<1>6. Storing <=> Tail(todo) \in Notes
  BY <1>2, <1>5, Phases
<1>7. Ending <=> Tail(todo) = ToForget
  BY <1>2, <1>5, Phases
<1>8. Marked <=> Ending \/ Tail(todo) = ToNoteAndPurge
  BY <1>2, <1>5 DEF Marked
<1>9. Busy' /\ Head(todo') = "purge" => FALSE
  <2>1. Tail(todo) # <<>> /\ Head(Tail(todo)) = "purge" => Tail(todo) = ToPurge
    BY <1>3, Rested
  <2> QED BY <1>3, <1>5, <2>1 DEF Busy
<1>10. Busy' /\ Head(todo') = "collect" => Head(todo) = "status" /\ Tail(todo') = <<>>
  <2>1. Tail(todo) \in Statuses \cup Finishes \cup Notes \cup {ToForget, ToShow, ToReport, ToMark, ToStore, <<>>}
    BY <1>3, <1>5 DEF Rests
  <2>2. Tail(todo) # <<>> /\ Head(Tail(todo)) = "collect" => Tail(todo) = ToStore
    BY <2>1, RestHeads, RestFacts
  <2>3. ToStore \notin Statuses \cup Finishes \cup Notes \cup {ToForget, ToShow, <<>>}
    BY RestHeads, RestFacts
  <2>4. Head(todo) \in Waits => Tail(todo) # ToStore
    BY <1>2, <2>3, Places
  <2>5. Head(todo) = "poll" => Tail(todo) # ToStore
    BY <1>2, <2>3, Places
  <2>6. Head(todo) = "disallow" => Tail(todo) # ToStore
    BY <1>2, <2>3, Places
  <2> QED BY <1>2, <1>3, <2>2, <2>4, <2>5, <2>6, RestFacts DEF Busy, Waits
<1>11. Busy' /\ Head(todo') = "wait" => FALSE
  BY <1>3, RestsFit DEF Busy
<1>12. Tail(todo) = ToShow => Busy' /\ Head(todo') = "opened"
  BY <1>3, RestFacts DEF Busy
<1> QED BY <1>2, <1>4, <1>6, <1>7, <1>8, <1>9, <1>10, <1>11, <1>12 DEF SamePhase, Leads

LEMMA StepsOnPhase ==
    ASSUME Shape, StepsOn
    PROVE  SamePhase /\ Leads
<1>1. Stepping /\ ~MarkDeleted
  <2>1. Stepping
    BY DEF StepsOn, Stepping
  <2>2. Busy /\ Head(todo) # "mark"
    BY DEF StepsOn, Completed, TooSoon, ReadHeaders, SendFetch, Fetched, AllFetched, At
  <2> QED BY <2>1, <2>2 DEF MarkDeleted, At
<1>2. /\ Busy /\ Busy' /\ Tail(todo') = Tail(todo)
      /\ Head(todo) \in {"wait", "probe", "finish", "fetch", "fetching"}
      /\ Head(todo') \in {"finish", "fetch", "fetching", "fetched"}
  BY <1>1, SteppingGo DEF Busy
<1>3. Storing' <=> Storing
  BY <1>2 DEF Storing
<1>4. Ending' <=> Ending
  BY <1>2 DEF Ending
<1>5. Marked' <=> Marked
  BY <1>2, <1>4 DEF Marked
<1> QED BY <1>2, <1>3, <1>4, <1>5 DEF SamePhase, Leads

LEMMA StartsOnPhase ==
    ASSUME Shape, StartsOn
    PROVE  SamePhase /\ Leads
<1>1. Asking
  BY DEF StartsOn, Asking
<1>2. ~Busy \/ Head(todo) = "probe"
  BY DEF StartsOn, Idle, Noop, Check, Sync, At
<1>3. ~Busy \/ Tail(todo) \in Statuses
  BY <1>2, Places
<1>4. \A q \in Statuses \cup Finishes : q \notin Notes /\ q # ToForget /\ q # ToPurge /\ q # ToShow
  BY RestHeads, RestFacts
<1>5. ToNoteAndPurge \in Notes
  BY DEF Notes
<1>6. ~Storing /\ ~Ending /\ ~Marked /\ ~(Busy /\ Tail(todo) = ToShow)
  BY <1>2, <1>3, <1>4, <1>5 DEF Storing, Ending, Marked
<1>7. /\ Busy' /\ Head(todo') \in {"poll", "wait", "probe"}
      /\ \/ Head(todo') = "probe" /\ Tail(todo') \in Statuses
         \/ Tail(todo') \in Finishes
  <2>1. CASE Idle \/ Noop
    <3>1. PICK a \in {"poll", "wait"} : Busy /\ Head(todo) = "probe" /\ Then(<<a, "finish">>)
      BY <2>1 DEF Idle, Noop, At
    <3>2. todo' # <<>> /\ Head(todo') = a /\ Tail(todo') = <<"finish">> \o Tail(todo)
      BY <3>1, Goes, Doings
    <3>3. PICK q \in Statuses : q = Tail(todo) /\ Tail(todo') = <<"finish">> \o q
      BY <1>3, <3>1, <3>2
    <3>4. <<"finish">> \o q \in Finishes
      BY Rested
    <3> QED BY <3>2, <3>3, <3>4 DEF Busy
  <2>2. CASE Check
    <3>1. todo' = <<"probe">> \o ToStatus
      BY <2>2, Literals DEF Check
    <3>2. todo' # <<>> /\ Head(todo') = "probe" /\ Tail(todo') = ToStatus
      BY <3>1, Doings, Begun DEF Rests, Statuses
    <3> QED BY <3>2 DEF Statuses, Busy
  <2>3. CASE Sync
    <3>1. \E purge \in BOOLEAN :
             todo' = <<"probe", "status">> \o (IF purge THEN <<"mark", "purge">> ELSE <<"collect">>)
      BY <2>3 DEF Sync
    <3>2. todo' = <<"probe">> \o PurgeStatus \/ todo' = <<"probe">> \o KeepStatus
      BY <3>1, Literals
    <3>3. PurgeStatus \in Rests /\ KeepStatus \in Rests
      BY DEF Rests, Statuses
    <3>4. CASE todo' = <<"probe">> \o PurgeStatus
      BY <3>3, <3>4, Doings, Begun DEF Statuses, Busy
    <3>5. CASE todo' = <<"probe">> \o KeepStatus
      BY <3>3, <3>5, Doings, Begun DEF Statuses, Busy
    <3> QED BY <3>2, <3>4, <3>5
  <2> QED BY <2>1, <2>2, <2>3 DEF StartsOn
<1>8. ~Storing' /\ ~Ending' /\ ~Marked'
  BY <1>4, <1>5, <1>7 DEF Storing, Ending, Marked
<1>9. Head(todo') = "wait" => Tail(todo') \in Finishes
  BY <1>7
<1> QED BY <1>2, <1>6, <1>7, <1>8, <1>9 DEF SamePhase, Leads

LEMMA NeutralPhase ==
    ASSUME Shape, Neutral
    PROVE  /\ SamePhase /\ Leads
           /\ UNCHANGED <<world, srv, sflags, serving, index, batch, handle>>
           /\ req' = req \/ req'.kind \in {"NOOP", "IDLE", "FETCH"}
           /\ rc' = rc \/ Status \/ Completed
<1>1. SamePhase /\ Leads
  BY GoesOnPhase, StepsOnPhase, StartsOnPhase DEF Neutral
<1>2. CASE GoesOn
  BY <1>1, <1>2 DEF GoesOn, NotAllowed, NothingToFetch, Finished, Polled, Status, Disallow, srvVars, idxVars
<1>3. CASE StepsOn
  <2>1. CASE SendFetch
    BY <1>1, <2>1 DEF SendFetch, Send, srvVars, idxVars
  <2> QED BY <1>1, <1>3, <2>1 DEF StepsOn, Completed, TooSoon, ReadHeaders, Fetched, AllFetched, srvVars, idxVars
<1>4. CASE StartsOn
  <2>1. CASE Idle \/ Noop
    BY <1>1, <2>1 DEF Idle, Noop, Send, srvVars, idxVars
  <2> QED BY <1>1, <1>4, <2>1 DEF StartsOn, Check, Sync, srvVars, idxVars
<1> QED BY <1>2, <1>3, <1>4 DEF Neutral

Serene == Inv /\ Shape /\ Turn /\ Listed /\ Calm /\ Obliging /\ SyncInv

\* A STORE is out only while the client waits for it.
LEMMA StoreAwaited ==
    ASSUME Turn, serving.kind = "STORE" \/ req.kind = "STORE"
    PROVE  Busy /\ Head(todo) = "wait" /\ Tail(todo) \in Notes \cup {ToForget}
<1>1. "STORE" \in Idling \cup Expected
  BY DEF Turn
<1> QED BY <1>1 DEF Idling, Expected, At

\* Nor when it is answered.
LEMMA AnsweredNone ==
    ASSUME Inv, Turn, wire # <<>>, Head(wire).kind = "tagged"
    PROVE  serving.kind = "none" /\ req.kind = "none"
<1>1. wire[1] = Head(wire) /\ 1 \in DOMAIN wire
  <2>1. PICK n \in Nat : n = Len(wire) /\ DOMAIN wire = 1 .. n /\ wire \in Seq(LineSet)
    BY LenProperties DEF Inv, TypesInv, WireTypes
  <2> QED BY <2>1
<1> QED BY <1>1 DEF Turn

LEMMA NeutralNoStore ==
    ASSUME Inv, Shape, Turn, Neutral
    PROVE  /\ serving.kind # "STORE" /\ req.kind # "STORE"
           /\ serving'.kind # "STORE" /\ req'.kind # "STORE"
<1>1. ~Busy \/ Head(todo) # "wait" \/ (wire # <<>> /\ Head(wire).kind = "tagged")
  BY DEF Neutral, GoesOn, StepsOn, StartsOn, NotAllowed, NothingToFetch, Finished, Polled, Status, Disallow,
         Completed, TooSoon, ReadHeaders, SendFetch, Fetched, AllFetched, Idle, Noop, Check, Sync, At
<1>2. serving.kind # "STORE" /\ req.kind # "STORE"
  BY <1>1, StoreAwaited, AnsweredNone
<1>3. serving' = serving /\ (req' = req \/ req'.kind \in {"NOOP", "IDLE", "FETCH"})
  BY NeutralPhase
<1> QED BY <1>2, <1>3

LEMMA NeutralGone ==
    ASSUME Shape, Pending, Neutral, GoneInv
    PROVE  GoneInv'
<1>1. index' = index
  BY NeutralPhase
<1>2. "EXPUNGE" \in reopen => "EXPUNGE" \in reopen'
  <2>1. CASE Finished
    BY <2>1 DEF Finished, At, Pending
  <2>2. CASE GoesOn /\ ~Finished
    BY <2>2 DEF GoesOn, NotAllowed, NothingToFetch, Polled, Status, Disallow, mboxVars
  <2>3. CASE StepsOn
    BY <2>3 DEF StepsOn, Completed, TooSoon, ReadHeaders, SendFetch, Fetched, AllFetched, mboxVars
  <2>4. CASE StartsOn
    BY <2>4 DEF StartsOn, Idle, Noop, Check, Sync, mboxVars
  <2> QED BY <2>1, <2>2, <2>3, <2>4 DEF Neutral
<1> QED BY <1>1, <1>2 DEF GoneInv

LEMMA NeutralRes ==
    ASSUME Inv, Shape, Turn, Neutral, ResInv
    PROVE  ResInv'
<1>1. SamePhase /\ Leads /\ (rc' = rc \/ Status \/ Completed)
  BY NeutralPhase
<1>2. serving'.kind # "STORE" /\ req'.kind # "STORE"
  BY NeutralNoStore
<1>3. Storing' /\ Head(todo') # "wait" => rc' = "OK"
  <2> SUFFICES ASSUME Storing PROVE rc' = "OK"
    BY <1>1 DEF SamePhase
  <2>1. CASE Completed
    <3>1. Head(todo) = "wait" /\ Busy /\ wire # <<>> /\ Head(wire).kind = "tagged" /\ rc' = Head(wire).res
      BY <2>1 DEF Completed, At
    <3>2. Tail(todo) \in Notes
      BY <3>1, Phases
    <3>3. wire[1] = Head(wire) /\ 1 \in DOMAIN wire
      <4>1. PICK n \in Nat : n = Len(wire) /\ DOMAIN wire = 1 .. n /\ wire \in Seq(LineSet)
        BY LenProperties DEF Inv, TypesInv, WireTypes
      <4> QED BY <3>1, <4>1
    <3> QED BY <3>1, <3>2, <3>3 DEF ResInv, At
  <2>2. CASE ~Completed
    <3>1. ~Status
      BY Phases DEF Status, At, Waits
    <3>2. Head(todo) # "wait"
      BY <2>2, Phases DEF Neutral, GoesOn, StepsOn, StartsOn, NotAllowed, NothingToFetch, Finished, Polled,
             Status, Disallow, TooSoon, ReadHeaders, SendFetch, Fetched, AllFetched, Idle, Noop, Check, Sync, At
    <3> QED BY <1>1, <2>2, <3>1, <3>2 DEF ResInv
  <2> QED BY <2>1, <2>2
<1>4. At("wait")' => Tail(todo') \notin Notes
  <2>1. \A q \in Finishes : q \notin Notes
    BY RestHeads
  <2> QED BY <1>1, <2>1 DEF At, Leads
<1> QED BY <1>2, <1>3, <1>4 DEF ResInv, At

LEMMA NeutralQueue ==
    ASSUME Inv, Shape, Turn, Neutral, QueueInv
    PROVE  QueueInv' /\ batch = <<>>
<1>1. Leads /\ batch' = batch /\ index' = index
  BY NeutralPhase
<1>2. serving'.kind # "STORE" /\ req'.kind # "STORE"
  BY NeutralNoStore
<1>3. batch = <<>>
  BY <1>1 DEF Leads, QueueInv
<1>4. Right(batch)'
  BY <1>1 DEF QueueInv, Right
<1>5. \A c \in {serving, req}' : c.kind = "STORE" => Right(c.cmds)'
  BY <1>2
<1> QED BY <1>1, <1>2, <1>3, <1>4 DEF QueueInv

LEMMA NeutralFlag ==
    ASSUME Inv, Shape, Turn, Neutral, FlagInv
    PROVE  FlagInv'
<1>1. SamePhase /\ UNCHANGED <<srv, sflags, index, batch>>
  BY NeutralPhase
<1>2. /\ serving.kind # "STORE" /\ req.kind # "STORE"
      /\ serving'.kind # "STORE" /\ req'.kind # "STORE"
  BY NeutralNoStore
<1>3. \A u, g : Queued(u, g)' <=> Queued(u, g)
  BY <1>1, <1>2 DEF Queued, Stores
<1>4. \A u : /\ Here(u)' <=> Here(u)
             /\ Synced(u)' <=> Synced(u)
  BY <1>1 DEF Here, Synced
<1>5. \A u : OnItsWay(u)' <=> OnItsWay(u)
  BY <1>1, <1>3 DEF OnItsWay, SamePhase
<1> QED BY <1>1, <1>4, <1>5 DEF FlagInv, SamePhase

LEMMA NeutralEnd ==
    ASSUME Inv, Shape, Turn, Neutral, EndInv
    PROVE  EndInv'
<1>1. SamePhase /\ Leads /\ UNCHANGED <<srv, sflags>>
  BY NeutralPhase
<1>2. serving.kind # "STORE" /\ req.kind # "STORE"
  BY NeutralNoStore
<1>3. Ending => Head(todo) # "purge"
  BY <1>1 DEF Ending, Leads
<1> QED BY <1>1, <1>2, <1>3 DEF EndInv, SamePhase

LEMMA NeutralActive ==
    ASSUME Shape, Neutral, ActiveInv
    PROVE  ActiveInv'
<1>1. SamePhase /\ Leads /\ UNCHANGED <<srv, index, handle>>
  BY NeutralPhase
<1>2. handle' # Null => Busy' /\ (Head(todo') = "opened" \/ Tail(todo') = ToShow)
  BY <1>1 DEF ActiveInv, Leads
<1>3. \A u : Here(u)' <=> Here(u)
  BY <1>1 DEF Here
<1>4. \A u \in Uid : Here(u)' => index'[u].active \/ u = handle' \/ (Marked' /\ index'[u].deleted)
  BY <1>1, <1>3 DEF ActiveInv, SamePhase
<1>5. At("collect")' => handle' = Null /\ ~Marked'
  <2> SUFFICES ASSUME At("collect")' PROVE handle = Null /\ ~Marked
    BY <1>1 DEF SamePhase
  <2>1. Busy /\ Head(todo) = "status"
    BY <1>1 DEF Leads, At
  <2>2. handle = Null
    BY <2>1, Places DEF ActiveInv, Waits
  <2>3. ~Marked
    BY <2>1, Phases DEF Waits
  <2> QED BY <2>2, <2>3
<1>6. At("collect")' => \A u \in Uid : Here(u)' => index'[u].active
  BY <1>4, <1>5, UidFacts
<1> QED BY <1>2, <1>4, <1>6 DEF ActiveInv

LEMMA NeutralData ==
    ASSUME Inv, Turn, Neutral, DataInv
    PROVE  DataInv'
<1>1. CASE Completed \/ Fetched
  <2>1. wire # <<>> /\ Head(wire).kind = "tagged" /\ wire' = Tail(wire)
    BY <1>1 DEF Completed, Fetched
  <2>2. DOMAIN wire' = {}
    BY <2>1, LastRead
  <2> QED BY <2>2 DEF DataInv
<1>2. CASE GoesOn
  BY <1>2 DEF GoesOn, NotAllowed, NothingToFetch, Finished, Polled, Status, Disallow, srvVars, DataInv
<1>3. CASE StepsOn /\ ~Completed /\ ~Fetched
  BY <1>3 DEF StepsOn, TooSoon, ReadHeaders, SendFetch, AllFetched, srvVars, DataInv
<1>4. CASE StartsOn
  BY <1>4 DEF StartsOn, Idle, Noop, Check, Sync, srvVars, DataInv
<1> QED BY <1>1, <1>2, <1>3, <1>4 DEF Neutral

LEMMA NeutralSync ==
    ASSUME Serene, Neutral
    PROVE  SyncInv'
BY NeutralGone, NeutralRes, NeutralQueue, NeutralFlag, NeutralEnd, NeutralActive, NeutralData DEF Serene, SyncInv, Calm

LEMMA FlagFacts ==
    ASSUME Inv
    PROVE  /\ \A u \in DOMAIN index : /\ index[u] \in EmailSet /\ index[u].remote \in FlagSet
                                      /\ index[u].deleted \in BOOLEAN /\ index[u].flag \in BOOLEAN
                                      /\ Shown(index[u]) \in FlagSet
                                      /\ Shown(index[u])["deleted"] = index[u].deleted
                                      /\ Shown(index[u])["flag"] = index[u].flag
           /\ \A u \in DOMAIN sflags : sflags[u] \in FlagSet
           /\ \A u : Here(u) => u \in DOMAIN index /\ u \in DOMAIN sflags
<1>1. index \in [DOMAIN index -> EmailSet]
  BY DEF Inv, TypesInv, IndexTypes
<1>2. \A u \in DOMAIN index : /\ index[u] \in EmailSet /\ index[u].remote \in FlagSet
                              /\ index[u].deleted \in DeletedSet /\ index[u].flag \in BOOLEAN
  BY <1>1 DEF EmailSet
<1>3. \A u \in DOMAIN index : Shown(index[u]) \in FlagSet
  BY <1>2 DEF Shown, FlagSet
<1>4. DeletedSet \subseteq BOOLEAN
  BY DEF DeletedSet
<1>5. \A u \in DOMAIN sflags : sflags[u] \in FlagSet
  BY DEF Inv, TypesInv, FlagTypes
<1>6. \A u : Here(u) => u \in DOMAIN index /\ u \in DOMAIN sflags
  BY DEF Here, Inv, TypesInv, FlagTypes
<1> QED BY <1>2, <1>3, <1>4, <1>5, <1>6 DEF Shown

LEMMA SameFlags ==
    ASSUME NEW a \in FlagSet, NEW b \in FlagSet, a["deleted"] = b["deleted"], a["flag"] = b["flag"]
    PROVE  a = b
BY DEF FlagSet

\* What cannot be on its way has arrived.
LEMMA Arrived ==
    ASSUME Inv, NEW u, Here(u), OnItsWay(u), \A g : ~Queued(u, g), ~(Marked /\ index[u].deleted)
    PROVE  sflags[u] = Shown(index[u])
<1>1. sflags[u]["deleted"] = Shown(index[u])["deleted"] /\ sflags[u]["flag"] = Shown(index[u])["flag"]
  BY DEF OnItsWay
<1> QED BY <1>1, FlagFacts, SameFlags

LEMMA NothingQueued ==
    ASSUME Turn, batch = <<>>, ~Busy \/ Head(todo) # "wait"
    PROVE  \A u, g : ~Queued(u, g)
<1>1. serving.kind # "STORE" /\ req.kind # "STORE"
  BY StoreAwaited
<1> QED BY <1>1 DEF Queued, Stores, Holds

\* The part of an email that the invariant is about.
SameLook(a, b) == /\ a.deleted = b.deleted /\ a.flag = b.flag /\ a.gone = b.gone
               /\ Shown(a) = Shown(b)

LEMMA RightKept ==
    ASSUME Right(batch), batch' = batch, DOMAIN index \subseteq DOMAIN index',
           \A u \in DOMAIN index : Shown(index'[u]) = Shown(index[u])
    PROVE  Right(batch)'
<1> SUFFICES ASSUME NEW k \in DOMAIN batch, NEW u \in batch[k].uids
             PROVE  u \in DOMAIN index' /\ Shown(index'[u])[batch[k].flag] = batch[k].on
  BY DEF Right
<1>1. u \in DOMAIN index /\ Shown(index[u])[batch[k].flag] = batch[k].on
  BY DEF Right
<1> QED BY <1>1

LEMMA ResOut ==
    ASSUME ~Storing', serving'.kind # "STORE", req'.kind # "STORE"
    PROVE  ResInv'
BY DEF ResInv, Storing, At

LEMMA StoredSync ==
    ASSUME Serene, Stored
    PROVE  SyncInv'
<1> DEFINE r == Tail(todo)
<1>1. /\ Busy /\ Head(todo) = "stored" /\ rc = "OK" /\ r \in {<<>>, ToPurge}
      /\ UNCHANGED <<world, srv, sflags, serving, req, wire, reopen, batch, rc, handle>>
      /\ index' = [u \in DOMAIN index |-> [index[u] EXCEPT !.remote = Shown(index[u]), !.changed = FALSE]]
  <2>1. Busy /\ Head(todo) = "stored"
    BY DEF Stored, At
  <2> QED BY <2>1, Places DEF Serene, Stored, srvVars, mboxVars
<1>2. /\ Shape' /\ ~Storing' /\ (Ending' <=> r = ToPurge) /\ todo' = r
      /\ Ending' => Marked'
      /\ Storing /\ ~Ending /\ (Marked => r = ToPurge)
  <2>1. Onwards
    BY DEF Onwards
  <2>2. r \notin Notes /\ r # ToForget
    BY <1>1, RestHeads, RestFacts
  <2>3. todo' = r /\ Shape' /\ ~Storing' /\ (Ending' <=> r = ToPurge) /\ (Ending' => Marked')
    BY <1>1, <2>1, <2>2, OnwardsGo, PhaseOn DEF Serene, Marked
  <2>4. Storing /\ ~Ending /\ (Marked => r = ToPurge)
    BY <1>1, Phases DEF Serene, Waits
  <2> QED BY <2>3, <2>4
<1>3. /\ serving.kind # "STORE" /\ req.kind # "STORE"
      /\ serving'.kind # "STORE" /\ req'.kind # "STORE"
  BY <1>1, StoreAwaited DEF Serene
<1>4. /\ DOMAIN index' = DOMAIN index
      /\ \A u \in DOMAIN index : /\ SameLook(index'[u], index[u]) /\ index'[u].active = index[u].active
                                 /\ index'[u].remote = Shown(index[u])
  BY <1>1, FlagFacts DEF EmailSet, Shown, SameLook, Serene
<1>5. GoneInv'
  BY <1>1, <1>4 DEF GoneInv, SameLook, Serene, SyncInv
<1>6. ResInv'
  BY <1>2, <1>3, ResOut
<1>7. QueueInv'
  <2>1. Right(batch)'
    BY <1>1, <1>4, RightKept DEF Serene, SyncInv, QueueInv, SameLook
  <2>2. batch # <<>> => Busy' /\ Head(todo') = "purge"
    BY <1>1, <1>2, RestFacts DEF Serene, SyncInv, QueueInv, Busy
  <2> QED BY <1>1, <1>3, <2>1, <2>2 DEF QueueInv
<1>8. FlagInv'
  <2>1. \A u \in Uid : Here(u)' => Here(u) /\ OnItsWay(u) /\ u \in DOMAIN index
    BY <1>1, <1>2, <1>4 DEF Serene, SyncInv, FlagInv, Here
  <2>2. CASE r = ToPurge
    <3>1. \A u, g : Queued(u, g) => Queued(u, g)'
      BY <1>1, <1>3 DEF Queued, Stores
    <3>2. \A u \in Uid : Here(u)' => OnItsWay(u)'
      BY <1>1, <1>2, <1>4, <2>1, <2>2, <3>1 DEF OnItsWay, SameLook
    <3> QED BY <1>2, <1>4, <2>2, <3>2 DEF FlagInv, SameLook
  <2>3. CASE r = <<>>
    <3>1. r # ToPurge
      BY <2>3, RestFacts
    <3>2. batch = <<>>
      BY <1>1, <3>1 DEF Serene, SyncInv, QueueInv
    <3>3. \A u, g : ~Queued(u, g)
      BY <1>1, <3>2, NothingQueued DEF Serene
    <3>4. \A u \in Uid : Here(u)' => Synced(u)'
      <4> SUFFICES ASSUME NEW u \in Uid, Here(u)' PROVE Synced(u)'
        OBVIOUS
      <4>1. sflags[u] = Shown(index[u])
        BY <1>2, <2>1, <3>1, <3>3, Arrived DEF Serene
      <4> QED BY <1>1, <1>4, <2>1, <4>1 DEF Synced, SameLook
    <3> QED BY <1>2, <3>1, <3>4 DEF FlagInv
  <2> QED BY <1>1, <2>2, <2>3
<1>9. EndInv'
  BY <1>2, RestFacts DEF EndInv
<1>10. ActiveInv'
  <2>1. handle = Null
    BY <1>1, Places DEF Serene, SyncInv, ActiveInv, Waits
  <2>2. ~At("collect")'
    BY <1>1, <1>2, RestFacts DEF At, Busy
  <2>3. Marked => Marked'
    BY <1>2
  <2>4. \A u : Here(u)' => Here(u) /\ u \in DOMAIN index
    BY <1>1, <1>4 DEF Here
  <2> QED BY <1>1, <1>4, <2>1, <2>2, <2>3, <2>4 DEF Serene, SyncInv, ActiveInv, SameLook
<1>11. DataInv'
  BY <1>1 DEF Serene, SyncInv, DataInv
<1> QED BY <1>5, <1>6, <1>7, <1>8, <1>9, <1>10, <1>11 DEF SyncInv

\* Outside a sync.
LEMMA RestPhase ==
    ASSUME ~Busy
    PROVE  ~Storing /\ ~Ending /\ ~Marked
BY DEF Storing, Ending, Marked

LEMMA RestPhasePrime ==
    ASSUME ~Busy'
    PROVE  ~Storing' /\ ~Ending' /\ ~Marked' /\ ~At("collect")' /\ ~At("wait")'
BY DEF Storing, Ending, Marked, At

LEMMA ExpungedSync ==
    ASSUME Serene, Expunged
    PROVE  SyncInv'
<1>1. /\ Busy /\ Head(todo) = "expunged" /\ Tail(todo) = <<>>
      /\ UNCHANGED <<world, srv, sflags, serving, req, wire, index, batch, rc, handle>>
      /\ "EXPUNGE" \in reopen => "EXPUNGE" \in reopen'
  <2>1. Busy /\ Head(todo) = "expunged"
    BY DEF Expunged, At
  <2> QED BY <2>1, Places DEF Serene, Expunged, srvVars, idxVars
<1>2. ~Busy'
  <2>1. Onwards
    BY DEF Onwards
  <2> QED BY <1>1, <2>1, OnwardsGo DEF Serene, Busy
<1>3. ~Storing' /\ ~Ending' /\ ~Marked' /\ ~At("collect")' /\ Ending
  BY <1>1, <1>2, RestPhasePrime DEF Ending
<1>4. /\ serving.kind # "STORE" /\ req.kind # "STORE"
      /\ serving'.kind # "STORE" /\ req'.kind # "STORE"
  BY <1>1, StoreAwaited DEF Serene
<1>5. batch = <<>> /\ handle = Null
  BY <1>1, RestFacts DEF Serene, SyncInv, QueueInv, ActiveInv
<1>6. \A u \in Uid : Here(u) => sflags[u] = Shown(index[u]) /\ ~index[u].deleted
  <2> SUFFICES ASSUME NEW u \in Uid, Here(u) PROVE sflags[u] = Shown(index[u]) /\ ~index[u].deleted
    OBVIOUS
  <2>1. OnItsWay(u)
    BY <1>3 DEF Serene, SyncInv, FlagInv
  <2>2. \A g : ~Queued(u, g)
    BY <1>1, <1>5, NothingQueued DEF Serene
  <2>3. ~sflags[u].deleted
    BY <1>1, <1>3, <1>4 DEF Serene, SyncInv, EndInv, Here
  <2>4. sflags[u]["deleted"] = Shown(index[u])["deleted"]
    BY <2>1, <2>2 DEF OnItsWay
  <2>5. ~index[u].deleted
    BY <2>3, <2>4, FlagFacts DEF Serene
  <2> QED BY <2>1, <2>2, <2>5, Arrived DEF Serene
<1>7. GoneInv'
  BY <1>1 DEF GoneInv, Serene, SyncInv
<1>8. ResInv'
  BY <1>3, <1>4, ResOut
<1>9. QueueInv'
  BY <1>1, <1>4, <1>5 DEF QueueInv, Right
<1>10. FlagInv'
  BY <1>1, <1>3, <1>6 DEF FlagInv, Serene, SyncInv, Here, Synced
<1>11. EndInv'
  BY <1>3 DEF EndInv
<1>12. ActiveInv'
  BY <1>1, <1>3, <1>5, <1>6 DEF ActiveInv, Serene, SyncInv, Here
<1>13. DataInv'
  BY <1>1 DEF DataInv, Serene, SyncInv
<1> QED BY <1>7, <1>8, <1>9, <1>10, <1>11, <1>12, <1>13 DEF SyncInv

LEMMA MsgOpenedSync ==
    ASSUME Serene, MsgOpened
    PROVE  SyncInv'
<1>1. /\ Busy /\ Head(todo) = "opened" /\ Tail(todo) = <<>>
      /\ UNCHANGED <<world, srv, sflags, serving, req, wire, batch, rc, reopen>>
      /\ handle' = Null
      /\ index' = [u \in DOMAIN index |-> IF u = handle THEN [index[u] EXCEPT !.active = TRUE] ELSE index[u]]
  <2>1. Busy /\ Head(todo) = "opened"
    BY DEF MsgOpened, At
  <2> QED BY <2>1, Places DEF Serene, MsgOpened, srvVars, mboxVars
<1>2. ~Busy'
  <2>1. Onwards
    BY DEF Onwards
  <2> QED BY <1>1, <2>1, OnwardsGo DEF Serene, Busy
<1>3. ~Storing' /\ ~Ending' /\ ~Marked' /\ ~At("collect")' /\ ~Ending /\ ~Storing /\ ~Marked
  <2>1. ~Ending /\ ~Storing /\ ~Marked
    BY <1>1, Phases DEF Waits, Serene
  <2> QED BY <1>2, <2>1, RestPhasePrime
<1>4. /\ serving.kind # "STORE" /\ req.kind # "STORE"
      /\ serving'.kind # "STORE" /\ req'.kind # "STORE"
  BY <1>1, StoreAwaited DEF Serene
<1>5. batch = <<>>
  BY <1>1 DEF Serene, SyncInv, QueueInv
<1>6. /\ DOMAIN index' = DOMAIN index
      /\ \A u \in DOMAIN index : /\ SameLook(index'[u], index[u])
                                 /\ index'[u].active = (index[u].active \/ u = handle)
                                 /\ index'[u].remote = index[u].remote
                                 /\ index'[u].changed = index[u].changed
  BY <1>1, FlagFacts DEF EmailSet, Shown, SameLook, Serene
<1>7. GoneInv'
  BY <1>1, <1>6 DEF GoneInv, Serene, SyncInv, SameLook
<1>8. ResInv'
  BY <1>3, <1>4, ResOut
<1>9. QueueInv'
  BY <1>1, <1>4, <1>5 DEF QueueInv, Right
<1>10. \A u : Here(u)' => Here(u) /\ u \in DOMAIN index
  BY <1>1, <1>6 DEF Here
<1>11. FlagInv'
  BY <1>1, <1>3, <1>6, <1>10 DEF FlagInv, Serene, SyncInv, Synced, SameLook
<1>12. EndInv'
  BY <1>3 DEF EndInv
<1>13. ActiveInv'
  BY <1>1, <1>3, <1>6, <1>10 DEF ActiveInv, Serene, SyncInv
<1>14. DataInv'
  BY <1>1 DEF DataInv, Serene, SyncInv
<1> QED BY <1>7, <1>8, <1>9, <1>11, <1>12, <1>13, <1>14 DEF SyncInv

-----------------------------------------------------------------------------
(* What is in the queue *)

LEMMA ConcatHolds ==
    ASSUME NEW S, NEW s \in Seq(S), NEW t \in Seq(S)
    PROVE  /\ \A u, g : Holds(s \o t, u, g) <=> Holds(s, u, g) \/ Holds(t, u, g)
           /\ Right(s \o t) <=> Right(s) /\ Right(t)
           /\ s \o t = <<>> => s = <<>> /\ t = <<>>
           /\ s \o t \in Seq(S)
<1>1. PICK m \in Nat : m = Len(s) /\ DOMAIN s = 1 .. m
  BY LenProperties
<1>2. PICK n \in Nat : n = Len(t) /\ DOMAIN t = 1 .. n
  BY LenProperties
<1> DEFINE c == s \o t
<1>3. /\ c \in Seq(S) /\ Len(c) = m + n
      /\ \A i \in 1 .. m + n : c[i] = IF i <= m THEN s[i] ELSE t[i - m]
  BY <1>1, <1>2, ConcatProperties
<1> HIDE DEF c
<1>4. DOMAIN c = 1 .. m + n
  BY <1>3, LenProperties
<1>5. \A i \in DOMAIN s : i \in DOMAIN c /\ c[i] = s[i]
  BY <1>1, <1>2, <1>3, <1>4
<1>6. \A i \in DOMAIN t : i + m \in DOMAIN c /\ c[i + m] = t[i]
  <2> SUFFICES ASSUME NEW i \in DOMAIN t PROVE i + m \in DOMAIN c /\ c[i + m] = t[i]
    OBVIOUS
  <2>1. i \in 1 .. n /\ i + m \in 1 .. m + n /\ ~(i + m <= m) /\ i + m - m = i
    BY <1>1, <1>2
  <2> QED BY <1>3, <1>4, <2>1
<1>7. \A i \in DOMAIN c : \/ i \in DOMAIN s /\ c[i] = s[i]
                          \/ i - m \in DOMAIN t /\ c[i] = t[i - m]
  BY <1>1, <1>2, <1>3, <1>4
<1>8. \A u, g : Holds(c, u, g) <=> Holds(s, u, g) \/ Holds(t, u, g)
  <2> SUFFICES ASSUME NEW u, NEW g PROVE Holds(c, u, g) <=> Holds(s, u, g) \/ Holds(t, u, g)
    OBVIOUS
  <2>1. Holds(s, u, g) => Holds(c, u, g)
    BY <1>5 DEF Holds
  <2>2. Holds(t, u, g) => Holds(c, u, g)
    BY <1>6 DEF Holds
  <2>3. Holds(c, u, g) => Holds(s, u, g) \/ Holds(t, u, g)
    BY <1>7 DEF Holds
  <2> QED BY <2>1, <2>2, <2>3
<1>9. Right(c) <=> Right(s) /\ Right(t)
  <2>1. Right(c) => Right(s)
    BY <1>5 DEF Right
  <2>2. Right(c) => Right(t)
    BY <1>6 DEF Right
  <2>3. Right(s) /\ Right(t) => Right(c)
    <3> SUFFICES ASSUME Right(s), Right(t), NEW k \in DOMAIN c, NEW u \in c[k].uids
                 PROVE  u \in DOMAIN index /\ Shown(index[u])[c[k].flag] = c[k].on
      BY DEF Right
    <3>1. CASE k \in DOMAIN s /\ c[k] = s[k]
      BY <3>1 DEF Right
    <3>2. CASE k - m \in DOMAIN t /\ c[k] = t[k - m]
      BY <3>2 DEF Right
    <3> QED BY <1>7, <3>1, <3>2
  <2> QED BY <2>1, <2>2, <2>3
<1>10. c = <<>> => s = <<>> /\ t = <<>>
  BY <1>1, <1>2, <1>3
<1> QED BY <1>3, <1>8, <1>9, <1>10 DEF c

LEMMA StoreHolds ==
    ASSUME Inv, NEW g \in {"flag", "deleted"}, NEW on \in BOOLEAN
    PROVE  /\ \A u, h : Holds(Store(g, on), u, h) <=> h = g /\ u \in Differing(g, on)
           /\ Right(Store(g, on))
           /\ Store(g, on) = <<>> => Differing(g, on) = {}
<1> DEFINE us == Differing(g, on)
<1>1. \A u \in us : u \in DOMAIN index /\ Shown(index[u])[g] = on
  BY DEF Differing
<1> HIDE DEF us
<1>2. CASE us = {}
  <2>1. Store(g, on) = <<>>
    BY <1>2 DEF Store, us
  <2> QED BY <1>2, <2>1 DEF Holds, Right, us
<1>3. CASE us # {}
  <2>1. PICK c : c = [flag |-> g, on |-> on, uids |-> us]
    OBVIOUS
  <2>2. Store(g, on) = <<c>>
    BY <1>3, <2>1 DEF Store, us
  <2>3. DOMAIN <<c>> = {1} /\ <<c>>[1] = c /\ <<c>> # <<>>
    OBVIOUS
  <2>4. c.flag = g /\ c.on = on /\ c.uids = us
    BY <2>1
  <2>5. \A u, h : Holds(<<c>>, u, h) <=> h = g /\ u \in us
    BY <2>3, <2>4 DEF Holds
  <2>6. Right(<<c>>)
    BY <1>1, <2>3, <2>4 DEF Right
  <2> QED BY <2>2, <2>3, <2>5, <2>6 DEF us
<1> QED BY <1>2, <1>3

LEMMA ChangesHold ==
    ASSUME Inv
    PROVE  /\ \A g \in {"flag", "deleted"}, on \in BOOLEAN : \A u \in Differing(g, on) : Holds(Changes, u, g)
           /\ Right(Changes) /\ Changes \in Seq(CmdSet)
           /\ Changes = <<>> => \A g \in {"flag", "deleted"}, on \in BOOLEAN : Differing(g, on) = {}
<1>1. PICK a, b, c, d : /\ a = Store("deleted", TRUE) /\ b = Store("deleted", FALSE)
                        /\ c = Store("flag", TRUE) /\ d = Store("flag", FALSE)
  OBVIOUS
<1>2. a \in Seq(CmdSet) /\ b \in Seq(CmdSet) /\ c \in Seq(CmdSet) /\ d \in Seq(CmdSet)
  BY <1>1, StoreTypes
<1>3. Right(a) /\ Right(b) /\ Right(c) /\ Right(d)
  BY <1>1, StoreHolds
<1>4. Changes = ((a \o b) \o c) \o d
  BY <1>1 DEF Changes
<1>5. PICK ab : ab = a \o b
  OBVIOUS
<1>6. /\ ab \in Seq(CmdSet) /\ Right(ab) /\ (ab = <<>> => a = <<>> /\ b = <<>>)
      /\ \A u, g : Holds(ab, u, g) <=> Holds(a, u, g) \/ Holds(b, u, g)
  BY <1>2, <1>3, <1>5, ConcatHolds
<1>7. PICK abc : abc = ab \o c
  OBVIOUS
<1>8. /\ abc \in Seq(CmdSet) /\ Right(abc) /\ (abc = <<>> => ab = <<>> /\ c = <<>>)
      /\ \A u, g : Holds(abc, u, g) <=> Holds(ab, u, g) \/ Holds(c, u, g)
  BY <1>2, <1>3, <1>6, <1>7, ConcatHolds
<1>9. Changes = abc \o d
  BY <1>4, <1>5, <1>7
<1>10. /\ Changes \in Seq(CmdSet) /\ Right(Changes) /\ (Changes = <<>> => abc = <<>> /\ d = <<>>)
       /\ \A u, g : Holds(Changes, u, g) <=> Holds(abc, u, g) \/ Holds(d, u, g)
  BY <1>2, <1>3, <1>8, <1>9, ConcatHolds
<1>11. ASSUME NEW g \in {"flag", "deleted"}, NEW on \in BOOLEAN
       PROVE  /\ \A u \in Differing(g, on) : Holds(Changes, u, g)
              /\ Changes = <<>> => Differing(g, on) = {}
  <2>1. PICK s : s = Store(g, on)
    OBVIOUS
  <2>2. s \in {a, b, c, d}
    BY <1>1, <2>1
  <2>3. \A u \in Differing(g, on) : Holds(s, u, g)
    BY <2>1, StoreHolds
  <2>4. \A u : Holds(s, u, g) => Holds(Changes, u, g)
    BY <1>6, <1>8, <1>10, <2>2
  <2>5. Changes = <<>> => s = <<>>
    BY <1>6, <1>8, <1>10, <2>2
  <2>6. s = <<>> => Differing(g, on) = {}
    BY <2>1, StoreHolds
  <2> QED BY <2>3, <2>4, <2>5, <2>6
<1> QED BY <1>10, <1>11

LEMMA MarkDeletedSync ==
    ASSUME Serene, MarkDeleted
    PROVE  SyncInv'
<1>1. /\ Busy /\ Head(todo) = "mark" /\ Tail(todo) = ToPurge
      /\ UNCHANGED <<world, srv, sflags, serving, req, wire, reopen, rc, handle>>
      /\ batch' = Store("deleted", TRUE)
      /\ index' = IF batch' = <<>> THEN index
                  ELSE [u \in DOMAIN index |->
                           [index[u] EXCEPT !.active = @ /\ ~(index[u].deleted /\ index[u].changed)]]
  <2>1. Busy /\ Head(todo) = "mark"
    BY DEF MarkDeleted, At
  <2> QED BY <2>1, Places DEF Serene, MarkDeleted, srvVars, mboxVars
<1>2. Busy' /\ Head(todo') = "collect" /\ Tail(todo') = ToPurge
  <2>1. Stepping
    BY DEF Stepping
  <2> QED BY <1>1, <2>1, SteppingGo DEF Serene, Busy
<1>3. /\ ~Storing /\ ~Ending /\ ~Marked
      /\ ~Storing' /\ ~Ending' /\ Marked'
  <2>1. ToPurge # ToForget /\ ToPurge \notin Notes
    BY RestHeads, RestFacts
  <2>2. ~Storing /\ ~Ending /\ ~Marked
    BY <1>1, Phases DEF Serene, Waits
  <2> QED BY <1>2, <2>1, <2>2 DEF Storing, Ending, Marked
<1>4. /\ serving.kind # "STORE" /\ req.kind # "STORE"
      /\ serving'.kind # "STORE" /\ req'.kind # "STORE"
  BY <1>1, StoreAwaited DEF Serene
<1>5. handle = Null /\ "EXPUNGE" \notin reopen
  BY <1>1, RestFacts DEF Serene, SyncInv, ActiveInv, Calm, Pending, At
<1>6. /\ DOMAIN index' = DOMAIN index
      /\ \A u \in DOMAIN index :
            /\ SameLook(index'[u], index[u])
            /\ index'[u].remote = index[u].remote
            /\ index'[u].changed = index[u].changed
            /\ index'[u].active \/ ~index[u].active
                  \/ (batch' # <<>> /\ index[u].deleted /\ index[u].changed)
  <2>1. CASE batch' = <<>>
    BY <1>1, <2>1 DEF SameLook
  <2>2. CASE batch' # <<>>
    BY <1>1, <2>2, FlagFacts DEF EmailSet, Shown, SameLook, Serene
  <2> QED BY <2>1, <2>2
<1>7. GoneInv'
  BY <1>1, <1>6 DEF GoneInv, Serene, SyncInv, SameLook
<1>8. ResInv'
  BY <1>3, <1>4, ResOut
<1>9. QueueInv'
  <2>1. Right(Store("deleted", TRUE))
    BY StoreHolds DEF Serene
  <2>2. Right(batch)'
    <3> SUFFICES ASSUME NEW k \in DOMAIN batch', NEW u \in batch'[k].uids
                 PROVE  u \in DOMAIN index' /\ Shown(index'[u])[batch'[k].flag] = batch'[k].on
      BY DEF Right
    <3>1. u \in DOMAIN index /\ Shown(index[u])[batch'[k].flag] = batch'[k].on
      BY <1>1, <2>1 DEF Right
    <3> QED BY <1>6, <3>1 DEF SameLook
  <2> QED BY <1>2, <1>4, <2>2 DEF QueueInv
<1>10. \A u : Here(u)' => Here(u) /\ u \in DOMAIN index
  BY <1>1, <1>6 DEF Here
<1>11. FlagInv'
  BY <1>1, <1>3, <1>6, <1>10 DEF FlagInv, Serene, SyncInv, Synced, SameLook
<1>12. EndInv'
  BY <1>3 DEF EndInv
<1>13. ActiveInv'
  <2>1. \A u \in Uid : Here(u)' => index[u].active
    BY <1>3, <1>5, <1>10, UidFacts DEF Serene, SyncInv, ActiveInv
  <2>2. ASSUME NEW u \in Uid, Here(u)', ~index'[u].active
        PROVE  /\ index'[u].deleted
               /\ index'[u].remote.deleted \/ Holds(batch', u, "deleted")
    <3>1. u \in DOMAIN index /\ index[u].active /\ index[u].deleted /\ index[u].changed /\ ~index[u].gone
      BY <1>5, <1>6, <1>10, <2>1, <2>2 DEF Serene, SyncInv, GoneInv
    <3>2. index[u].remote.deleted \/ u \in Differing("deleted", TRUE)
      BY <3>1, FlagFacts DEF Differing, Serene
    <3>3. u \in Differing("deleted", TRUE) => Holds(Store("deleted", TRUE), u, "deleted")
      BY StoreHolds DEF Serene
    <3> QED BY <1>1, <1>6, <3>1, <3>2, <3>3 DEF SameLook
  <2> QED BY <1>1, <1>2, <1>3, <1>5, <2>2 DEF ActiveInv
<1>14. DataInv'
  BY <1>1 DEF DataInv, Serene, SyncInv
<1> QED BY <1>7, <1>8, <1>9, <1>11, <1>12, <1>13, <1>14 DEF SyncInv

\* What differs from the server is sent, or its message is being removed.
LEMMA ToBeSent ==
    ASSUME Serene, At("collect"), NEW u \in Uid, Here(u), NEW g \in {"flag", "deleted"},
           sflags[u][g] # Shown(index[u])[g]
    PROVE  \/ \E on \in BOOLEAN : u \in Differing(g, on)
           \/ g = "deleted" /\ Holds(batch, u, "deleted")
           \/ g = "flag" /\ Tail(todo) = ToPurge /\ index[u].deleted
<1>1. Busy /\ Head(todo) = "collect" /\ u \in DOMAIN index
  BY FlagFacts DEF At, Serene
<1>2. ~Storing /\ ~Ending
  BY <1>1, Phases DEF Serene, Waits
<1>3. index[u].remote = sflags[u] /\ index[u].changed /\ index[u].changed \in BOOLEAN
  <2>1. Synced(u)
    BY <1>2 DEF Serene, SyncInv, FlagInv
  <2>2. index[u].changed \in BOOLEAN
    BY <1>1, FlagFacts DEF Serene, EmailSet
  <2> QED BY <2>1, <2>2 DEF Synced
<1>4. \/ index[u].active
      \/ /\ Tail(todo) = ToPurge /\ index[u].deleted
         /\ index[u].remote.deleted \/ Holds(batch, u, "deleted")
  BY DEF Serene, SyncInv, ActiveInv
<1>5. CASE index[u].active
  <2>1. ~index[u].gone
    BY <1>1 DEF Serene, SyncInv, GoneInv, Calm, Pending, At
  <2>2. Shown(index[u])[g] \in BOOLEAN
    BY <1>1, FlagFacts DEF Serene
  <2>3. u \in Differing(g, Shown(index[u])[g])
    BY <1>1, <1>3, <1>5, <2>1, <2>2 DEF Differing
  <2> QED BY <2>2, <2>3
<1>6. CASE ~index[u].active
  <2>1. CASE g = "deleted"
    <3>1. Shown(index[u])["deleted"] = TRUE
      BY <1>1, <1>4, <1>6, FlagFacts DEF Serene
    <3>2. sflags[u]["deleted"] = index[u].remote.deleted
      BY <1>3
    <3> QED BY <1>1, <1>4, <1>6, <2>1, <3>1, <3>2, FlagFacts DEF Serene, FlagSet
  <2> QED BY <1>4, <1>6, <2>1
<1> QED BY <1>5, <1>6

LEMMA CollectSync ==
    ASSUME Serene, Collect
    PROVE  SyncInv'
<1> DEFINE r == Tail(todo)
<1>1. /\ Busy /\ Head(todo) = "collect" /\ At("collect") /\ r \in {<<>>, ToPurge}
      /\ UNCHANGED <<world, srv, sflags, serving, wire, index, reopen, handle>>
      /\ \/ Changes = <<>> /\ rc' = "OK" /\ Then(<<"stored">>) /\ UNCHANGED <<req, batch>>
         \/ /\ Changes # <<>> /\ Then(<<"wait", "stored">>) /\ batch' = <<>>
            /\ req' = [kind |-> "STORE", cmds |-> batch \o Changes, expunge |-> FALSE, res |-> "OK"]
  <2>1. Busy /\ Head(todo) = "collect"
    BY DEF Collect, At
  <2> QED BY <2>1, Places DEF Serene, Collect, srvVars, idxVars, mboxVars, At
<1>2. /\ Busy' /\ \/ Changes = <<>> /\ Head(todo') = "stored" /\ Tail(todo') = r
                  \/ /\ Changes # <<>> /\ Head(todo') = "wait"
                     /\ Tail(todo') = IF r = ToPurge THEN ToNoteAndPurge ELSE ToNote
  <2>1. <<"stored">> \o <<>> = ToNote
    BY RestFacts, NothingMore DEF ToNote
  <2>2. /\ Then(<<"stored">>) => todo' # <<>> /\ Head(todo') = "stored" /\ Tail(todo') = r
        /\ Then(<<"wait", "stored">>) => todo' # <<>> /\ Head(todo') = "wait" /\ Tail(todo') = <<"stored">> \o r
    BY <1>1, Goes, Doings DEF Serene
  <2>3. r = ToPurge => <<"stored">> \o r = ToNoteAndPurge
    BY DEF ToNoteAndPurge
  <2>4. r # ToPurge => <<"stored">> \o r = ToNote
    BY <1>1, <2>1
  <2> HIDE DEF r
  <2> QED BY <1>1, <2>2, <2>3, <2>4 DEF Busy
<1>3. ~Storing /\ ~Ending /\ Storing' /\ ~Ending' /\ (r = ToPurge => Marked') /\ (Marked => r = ToPurge)
  <2>1. <<>> # ToForget /\ ToPurge # ToForget /\ ToNote # ToForget /\ ToNoteAndPurge # ToForget /\ <<>> # ToPurge
    BY RestFacts
  <2>2. ~Storing /\ ~Ending /\ (Marked => r = ToPurge)
    BY <1>1, Phases DEF Serene, Waits
  <2>3. Storing' /\ ~Ending' /\ (r = ToPurge => Marked')
    BY <1>1, <1>2, <2>1 DEF Storing, Ending, Marked, Notes
  <2> QED BY <2>2, <2>3
<1>4. serving.kind # "STORE" /\ req.kind # "STORE"
  BY <1>1, StoreAwaited DEF Serene
<1>5. /\ \A g \in {"flag", "deleted"}, on \in BOOLEAN : \A u \in Differing(g, on) : Holds(Changes, u, g)
      /\ Right(Changes)
      /\ Changes = <<>> => \A g \in {"flag", "deleted"}, on \in BOOLEAN : Differing(g, on) = {}
      /\ \A u, g : Holds(batch \o Changes, u, g) <=> Holds(batch, u, g) \/ Holds(Changes, u, g)
      /\ Right(batch) /\ Right(batch \o Changes)
  <2>1. Right(batch) /\ Right(Changes) /\ Changes \in Seq(CmdSet) /\ batch \in Seq(CmdSet)
    BY ChangesHold DEF Serene, SyncInv, QueueInv, Inv, TypesInv, CmdTypes
  <2>2. PICK b, c : b = batch /\ c = Changes
    OBVIOUS
  <2>3. /\ \A u, g : Holds(b \o c, u, g) <=> Holds(b, u, g) \/ Holds(c, u, g)
        /\ Right(b \o c) <=> Right(b) /\ Right(c)
    BY <2>1, <2>2, ConcatHolds
  <2> QED BY <2>1, <2>2, <2>3, ChangesHold DEF Serene
<1>6. handle = Null
  BY <1>1, RestFacts DEF Serene, SyncInv, ActiveInv
<1>7. GoneInv'
  BY <1>1 DEF GoneInv, Serene, SyncInv
<1>8. ResInv'
  <2>1. \A i \in DOMAIN wire : wire[i].kind = "EXISTS"
    BY <1>1, OnlyNews DEF Serene, Calm
  <2>2. Head(todo') # "wait" => rc' = "OK"
    BY <1>1, <1>2
  <2>3. req'.kind = "STORE" => req'.res = "OK"
    BY <1>1, <1>4
  <2> QED BY <1>1, <1>4, <2>1, <2>2, <2>3 DEF ResInv
<1>9. QueueInv'
  <2>1. CASE Changes = <<>>
    <3>1. batch' = batch /\ req' = req
      BY <1>1, <2>1
    <3>2. Right(batch)'
      BY <1>1, <1>5, <3>1 DEF Right
    <3>3. batch # <<>> => r = ToPurge
      BY <1>1, RestFacts DEF Serene, SyncInv, QueueInv
    <3> QED BY <1>1, <1>2, <1>4, <2>1, <3>1, <3>2, <3>3 DEF QueueInv
  <2>2. CASE Changes # <<>>
    <3>1. PICK q : q = batch \o Changes
      OBVIOUS
    <3>2. batch' = <<>> /\ req'.cmds = q
      BY <1>1, <2>2, <3>1
    <3>3. Right(q)'
      BY <1>1, <1>5, <3>1 DEF Right
    <3>4. Right(batch)'
      BY <3>2 DEF Right
    <3>5. \A c \in {serving, req}' : c.kind = "STORE" => Right(c.cmds)'
      BY <1>1, <1>4, <3>2, <3>3
    <3> QED BY <3>2, <3>4, <3>5 DEF QueueInv
  <2> QED BY <2>1, <2>2
<1>10. FlagInv'
  <2> SUFFICES ASSUME NEW u \in Uid, Here(u) PROVE OnItsWay(u)'
    BY <1>1, <1>3 DEF FlagInv, Here
  <2> SUFFICES ASSUME NEW g \in {"deleted", "flag"}, sflags[u][g] # Shown(index[u])[g]
               PROVE  Queued(u, g)' \/ (g = "flag" /\ Marked' /\ index[u].deleted)
    BY <1>1 DEF OnItsWay
  <2>1. \/ \E on \in BOOLEAN : u \in Differing(g, on)
        \/ g = "deleted" /\ Holds(batch, u, "deleted")
        \/ g = "flag" /\ r = ToPurge /\ index[u].deleted
    BY <1>1, ToBeSent
  <2>2. CASE Changes = <<>>
    <3>1. ~\E on \in BOOLEAN : u \in Differing(g, on)
      BY <1>5, <2>2
    <3>2. Holds(batch, u, g) => Queued(u, g)'
      BY <1>1, <2>2 DEF Queued
    <3> QED BY <1>3, <2>1, <3>1, <3>2
  <2>3. CASE Changes # <<>>
    <3>1. req'.kind = "STORE" /\ req'.cmds = batch \o Changes
      BY <1>1, <2>3
    <3>2. Holds(batch \o Changes, u, g) => Queued(u, g)'
      BY <3>1 DEF Queued, Stores
    <3>3. (\E on \in BOOLEAN : u \in Differing(g, on)) => Holds(Changes, u, g)
      BY <1>5
    <3> QED BY <1>3, <1>5, <2>1, <3>2, <3>3
  <2> QED BY <2>2, <2>3
<1>11. EndInv'
  BY <1>3 DEF EndInv
<1>12. ActiveInv'
  <2>1. ~At("collect")'
    BY <1>2 DEF At
  <2> QED BY <1>1, <1>3, <1>6, <2>1 DEF ActiveInv, Serene, SyncInv, Here
<1>13. DataInv'
  BY <1>1 DEF DataInv, Serene, SyncInv
<1> QED BY <1>7, <1>8, <1>9, <1>10, <1>11, <1>12, <1>13 DEF SyncInv

LEMMA SendExpungeSync ==
    ASSUME Serene, SendExpunge
    PROVE  SyncInv'
<1>1. /\ Busy /\ Head(todo) = "purge" /\ Tail(todo) = <<>>
      /\ UNCHANGED <<world, srv, sflags, serving, wire, index, handle, rc>>
      /\ reopen' = reopen \cup {"EXPECTED"} /\ batch' = <<>> /\ Then(<<"wait", "expunged">>)
      /\ req' = [kind |-> "STORE", cmds |-> batch, expunge |-> TRUE, res |-> "OK"]
  <2>1. Busy /\ Head(todo) = "purge"
    BY DEF SendExpunge, At
  <2> QED BY <2>1, Places DEF Serene, SendExpunge, Send, srvVars, idxVars
<1>2. Busy' /\ Head(todo') = "wait" /\ Tail(todo') = ToForget
  <2>1. todo' # <<>> /\ Head(todo') = "wait" /\ Tail(todo') = <<"expunged">> \o Tail(todo)
    BY <1>1, Goes, Doings DEF Serene
  <2>2. <<"expunged">> \o <<>> = ToForget
    BY RestFacts, NothingMore DEF ToForget
  <2> QED BY <1>1, <2>1, <2>2 DEF Busy
<1>3. Ending /\ ~Storing /\ Ending' /\ ~Storing' /\ Marked'
  <2>1. ToForget \notin Notes
    BY RestHeads, RestFacts
  <2>2. Ending /\ ~Storing
    BY <1>1, Phases DEF Serene, Waits
  <2> QED BY <1>2, <2>1, <2>2 DEF Storing, Ending, Marked
<1>4. serving.kind # "STORE" /\ req.kind # "STORE"
  BY <1>1, StoreAwaited DEF Serene
<1>5. handle = Null
  BY <1>1, RestFacts DEF Serene, SyncInv, ActiveInv
<1>6. GoneInv'
  BY <1>1 DEF GoneInv, Serene, SyncInv
<1>7. ResInv'
  <2>1. Tail(todo') \notin Notes
    BY <1>2, RestHeads, RestFacts
  <2> QED BY <1>1, <1>3, <1>4, <2>1 DEF ResInv
<1>8. QueueInv'
  <2>1. PICK q : q = batch
    OBVIOUS
  <2>2. Right(q)'
    BY <1>1, <2>1 DEF Right, Serene, SyncInv, QueueInv
  <2>3. Right(batch)'
    BY <1>1 DEF Right
  <2>4. \A c \in {serving, req}' : c.kind = "STORE" => Right(c.cmds)'
    BY <1>1, <1>4, <2>1, <2>2
  <2> QED BY <1>1, <2>3, <2>4 DEF QueueInv
<1>9. \A u, g : Queued(u, g) => Queued(u, g)'
  BY <1>1, <1>4 DEF Queued, Stores
<1>10. \A u : Here(u)' <=> Here(u)
  BY <1>1 DEF Here
<1>11. FlagInv'
  <2>1. \A u \in Uid : Here(u) => OnItsWay(u)'
    BY <1>1, <1>3, <1>9 DEF OnItsWay, Serene, SyncInv, FlagInv
  <2> QED BY <1>1, <1>3, <1>10, <2>1 DEF FlagInv, Serene, SyncInv
<1>12. EndInv'
  BY <1>1 DEF EndInv
<1>13. ActiveInv'
  <2>1. ~At("collect")'
    BY <1>2 DEF At
  <2> QED BY <1>1, <1>3, <1>5, <1>10, <2>1 DEF ActiveInv, Serene, SyncInv
<1>14. DataInv'
  BY <1>1 DEF DataInv, Serene, SyncInv
<1> QED BY <1>6, <1>7, <1>8, <1>11, <1>12, <1>13, <1>14 DEF SyncInv

LEMMA MsgOpenSync ==
    ASSUME Serene, MsgOpen
    PROVE  SyncInv'
<1>1. ~Busy /\ UNCHANGED <<world, srv, sflags, serving, wire, reopen, batch, rc>>
  BY DEF MsgOpen, srvVars, mboxVars
<1>2. PICK u \in DOMAIN index : /\ index' = [index EXCEPT ![u].active = FALSE]
                                /\ req' = [kind |-> "UIDFETCH", uid |-> u]
                                /\ handle' = u
  BY DEF MsgOpen, Send
<1>3. Busy' /\ Head(todo') = "wait" /\ Tail(todo') = ToShow
  <2>1. todo' = <<"wait">> \o ToShow
    BY Literals DEF MsgOpen
  <2>2. "wait" \in Tasks /\ ToShow \in Rests
    BY Doings DEF Rests
  <2> QED BY <2>1, <2>2, Begun DEF Busy
<1>4. ~Storing /\ ~Ending /\ ~Marked /\ ~Storing' /\ ~Ending' /\ ~Marked'
  <2>1. ToShow \notin Notes /\ ToShow # ToForget /\ ToShow # ToPurge /\ ToShow # ToNoteAndPurge
    BY RestHeads, RestFacts
  <2> QED BY <1>1, <1>3, <2>1 DEF Storing, Ending, Marked
<1>5. /\ serving.kind # "STORE" /\ req.kind # "STORE"
      /\ serving'.kind # "STORE" /\ req'.kind # "STORE"
  BY <1>1, <1>2, StoreAwaited DEF Serene
<1>6. batch = <<>>
  BY <1>1 DEF Serene, SyncInv, QueueInv
<1>7. /\ DOMAIN index' = DOMAIN index
      /\ \A v \in DOMAIN index : /\ SameLook(index'[v], index[v])
                                 /\ index'[v].active = (index[v].active /\ v # u)
                                 /\ index'[v].remote = index[v].remote
                                 /\ index'[v].changed = index[v].changed
  <2>1. PICK e : e = [index[u] EXCEPT !.active = FALSE]
    OBVIOUS
  <2>2. /\ SameLook(e, index[u]) /\ e.active = FALSE /\ e.remote = index[u].remote
        /\ e.changed = index[u].changed
    BY <2>1, FlagFacts DEF EmailSet, SameLook, Shown, Serene
  <2>3. index' = [index EXCEPT ![u] = e]
    BY <1>2, <2>1, MarkingTypes DEF Serene
  <2>4. \A v \in DOMAIN index : index[v].active \in BOOLEAN
    BY FlagFacts DEF EmailSet, Serene
  <2> QED BY <2>2, <2>3, <2>4, MarkingTypes DEF SameLook, Serene
<1>8. \A v : Here(v)' => Here(v) /\ v \in DOMAIN index
  BY <1>1, <1>7 DEF Here
<1>9. GoneInv'
  BY <1>1, <1>7 DEF GoneInv, Serene, SyncInv, SameLook
<1>10. ResInv'
  BY <1>4, <1>5, ResOut
<1>11. QueueInv'
  BY <1>1, <1>5, <1>6 DEF QueueInv, Right
<1>12. FlagInv'
  BY <1>1, <1>4, <1>7, <1>8 DEF FlagInv, Serene, SyncInv, Synced, SameLook
<1>13. EndInv'
  BY <1>4 DEF EndInv
<1>14. ActiveInv'
  <2>1. handle = Null
    BY <1>1 DEF Serene, SyncInv, ActiveInv
  <2>2. \A v \in Uid : Here(v)' => index'[v].active \/ v = u
    BY <1>4, <1>7, <1>8, <2>1, UidFacts DEF Serene, SyncInv, ActiveInv
  <2>3. ~At("collect")'
    BY <1>3 DEF At
  <2> QED BY <1>2, <1>3, <2>2, <2>3 DEF ActiveInv
<1>15. DataInv'
  BY <1>1 DEF DataInv, Serene, SyncInv
<1> QED BY <1>9, <1>10, <1>11, <1>12, <1>13, <1>14, <1>15 DEF SyncInv

LEMMA EditSync ==
    ASSUME Serene, Edit
    PROVE  SyncInv'
<1>1. ~Busy /\ ~Busy' /\ UNCHANGED <<world, srv, sflags, serving, req, wire, reopen, batch, rc, handle>>
  BY DEF Edit, srvVars, mboxVars, Busy
<1>2. PICK u \in DOMAIN index : \/ index' = [index EXCEPT ![u].deleted = ~@, ![u].changed = TRUE]
                                \/ index' = [index EXCEPT ![u].flag = ~@, ![u].changed = TRUE]
  BY DEF Edit
<1>3. ~Storing /\ ~Ending /\ ~Marked /\ ~Storing' /\ ~Ending' /\ ~Marked' /\ ~At("collect")'
  BY <1>1, RestPhase, RestPhasePrime
<1>4. /\ serving.kind # "STORE" /\ req.kind # "STORE"
      /\ serving'.kind # "STORE" /\ req'.kind # "STORE"
  BY <1>1, StoreAwaited DEF Serene
<1>5. batch = <<>> /\ handle = Null
  BY <1>1 DEF Serene, SyncInv, QueueInv, ActiveInv
<1>6. /\ DOMAIN index' = DOMAIN index
      /\ \A v \in DOMAIN index : /\ index'[v].gone = index[v].gone
                                 /\ index'[v].active = index[v].active
                                 /\ index'[v].remote = index[v].remote
                                 /\ index'[v].changed \/ index'[v] = index[v]
  <2>1. PICK e : e = index[u] /\ e \in EmailSet
    BY FlagFacts DEF Serene
  <2>2. CASE index' = [index EXCEPT ![u].deleted = ~@, ![u].changed = TRUE]
    <3>1. PICK d : d = [e EXCEPT !.deleted = ~@, !.changed = TRUE]
      OBVIOUS
    <3>2. d.gone = e.gone /\ d.active = e.active /\ d.remote = e.remote /\ d.changed
      BY <2>1, <3>1 DEF EmailSet
    <3>3. index' = [index EXCEPT ![u] = d]
      BY <2>1, <2>2, <3>1, MarkingTypes DEF EmailSet, Serene
    <3> QED BY <2>1, <3>2, <3>3, MarkingTypes DEF Serene
  <2>3. CASE index' = [index EXCEPT ![u].flag = ~@, ![u].changed = TRUE]
    <3>1. PICK d : d = [e EXCEPT !.flag = ~@, !.changed = TRUE]
      OBVIOUS
    <3>2. d.gone = e.gone /\ d.active = e.active /\ d.remote = e.remote /\ d.changed
      BY <2>1, <3>1 DEF EmailSet
    <3>3. index' = [index EXCEPT ![u] = d]
      BY <2>1, <2>3, <3>1, MarkingTypes DEF EmailSet, Serene
    <3> QED BY <2>1, <3>2, <3>3, MarkingTypes DEF Serene
  <2> QED BY <1>2, <2>2, <2>3
<1>7. \A v : Here(v)' => Here(v) /\ v \in DOMAIN index
  BY <1>1, <1>6 DEF Here
<1>8. GoneInv'
  BY <1>1, <1>6 DEF GoneInv, Serene, SyncInv
<1>9. ResInv'
  BY <1>3, <1>4, ResOut
<1>10. QueueInv'
  BY <1>1, <1>4, <1>5 DEF QueueInv, Right
<1>11. FlagInv'
  <2>1. \A v \in Uid : Here(v)' => Synced(v)'
    BY <1>1, <1>3, <1>6, <1>7 DEF FlagInv, Serene, SyncInv, Synced
  <2> QED BY <1>3, <2>1 DEF FlagInv
<1>12. EndInv'
  BY <1>3 DEF EndInv
<1>13. ActiveInv'
  BY <1>1, <1>3, <1>5, <1>6, <1>7 DEF ActiveInv, Serene, SyncInv
<1>14. DataInv'
  BY <1>1 DEF DataInv, Serene, SyncInv
<1> QED BY <1>8, <1>9, <1>10, <1>11, <1>12, <1>13, <1>14 DEF SyncInv

LEMMA NoStoreFailed == Serene => ~StoreFailed
<1> SUFFICES ASSUME Serene, StoreFailed PROVE FALSE
  OBVIOUS
<1>1. Busy /\ Head(todo) = "stored" /\ rc # "OK"
  BY DEF StoreFailed, At
<1>2. Storing
  BY <1>1 DEF Storing
<1> QED BY <1>1, <1>2 DEF Serene, SyncInv, ResInv

LEMMA PurgeSync ==
    ASSUME Serene, Purge
    PROVE  SyncInv'
<1> DEFINE kept == {u \in DOMAIN index \ {v \in DOMAIN index : index[v].gone} : ~index[u].deleted}
<1>1. /\ Busy /\ Head(todo) = "finish" /\ Tail(todo) = ToForget
      /\ UNCHANGED <<world, srv, sflags, serving, req, wire, batch, todo, rc, handle>>
      /\ index' = [u \in kept |-> [index[u] EXCEPT !.active = TRUE, !.changed = FALSE]]
  <2>1. Busy /\ Head(todo) = "finish" /\ "EXPUNGE" \in reopen
    BY DEF Purge, At
  <2>2. Tail(todo) = ToForget
    BY <2>1 DEF Serene, Calm, Pending
  <2> QED BY <2>1, <2>2 DEF Purge, srvVars
<1>2. /\ DOMAIN index' = kept /\ kept \subseteq DOMAIN index
      /\ \A u \in kept : /\ SameLook(index'[u], index[u]) /\ ~index[u].gone /\ ~index[u].deleted
                         /\ index'[u].active = TRUE /\ index'[u].remote = index[u].remote
  <2>1. \A u \in kept : u \in DOMAIN index /\ ~index[u].gone /\ ~index[u].deleted
    OBVIOUS
  <2> HIDE DEF kept
  <2>2. DOMAIN index' = kept
    BY <1>1
  <2>3. \A u \in kept : index'[u] = [index[u] EXCEPT !.active = TRUE, !.changed = FALSE]
    BY <1>1
  <2>4. \A u \in kept : /\ SameLook([index[u] EXCEPT !.active = TRUE, !.changed = FALSE], index[u])
                        /\ [index[u] EXCEPT !.active = TRUE, !.changed = FALSE].active = TRUE
                        /\ [index[u] EXCEPT !.active = TRUE, !.changed = FALSE].remote = index[u].remote
    BY <2>1, FlagFacts DEF EmailSet, Shown, SameLook, Serene
  <2> QED BY <2>1, <2>2, <2>3, <2>4
<1> HIDE DEF kept
<1>3. Ending /\ ~Storing /\ Ending' /\ ~Storing'
  <2>1. ToForget \notin Notes
    BY RestHeads, RestFacts
  <2> QED BY <1>1, <2>1 DEF Storing, Ending, Busy
<1>4. /\ serving.kind # "STORE" /\ req.kind # "STORE"
      /\ serving'.kind # "STORE" /\ req'.kind # "STORE"
  BY <1>1, StoreAwaited DEF Serene
<1>5. batch = <<>> /\ handle = Null
  BY <1>1, RestFacts DEF Serene, SyncInv, QueueInv, ActiveInv
<1>6. \A u : Here(u)' => Here(u) /\ u \in kept
  BY <1>1, <1>2 DEF Here
<1>7. GoneInv'
  BY <1>2 DEF GoneInv, SameLook
<1>8. ResInv'
  BY <1>3, <1>4, ResOut
<1>9. QueueInv'
  <2>1. batch' = <<>>
    BY <1>1, <1>5
  <2>2. Right(batch)'
    BY <2>1 DEF Right
  <2>3. \A c \in {serving, req}' : c.kind = "STORE" => Right(c.cmds)'
    BY <1>4
  <2> QED BY <2>1, <2>2, <2>3 DEF QueueInv
<1>10. FlagInv'
  <2>1. ASSUME NEW u \in Uid, Here(u)' PROVE OnItsWay(u)'
    <3>1. OnItsWay(u) /\ u \in kept
      BY <1>3, <1>6, <2>1 DEF FlagInv, Serene, SyncInv
    <3>2. \A g : ~Queued(u, g)
      BY <1>1, <1>5, NothingQueued DEF Serene
    <3>3. sflags[u] = Shown(index[u])
      BY <1>2, <1>6, <2>1, <3>1, <3>2, Arrived DEF Serene
    <3> QED BY <1>1, <1>2, <3>1, <3>3 DEF OnItsWay, SameLook
  <2>2. \A u \in DOMAIN index' : index'[u].remote = Shown(index'[u])
    BY <1>2, <1>3 DEF FlagInv, Serene, SyncInv, SameLook
  <2> QED BY <1>3, <2>1, <2>2 DEF FlagInv
<1>11. EndInv'
  BY <1>1, <1>3, <1>4 DEF EndInv, Serene, SyncInv
<1>12. ActiveInv'
  <2>1. ~At("collect")'
    BY <1>1 DEF At
  <2> QED BY <1>1, <1>2, <1>5, <1>6, <2>1 DEF ActiveInv
<1>13. DataInv'
  BY <1>1 DEF DataInv, Serene, SyncInv
<1> QED BY <1>7, <1>8, <1>9, <1>10, <1>11, <1>12, <1>13 DEF SyncInv

-----------------------------------------------------------------------------
(* Lines read *)

\* What was said of all lines is said of the rest.
LEMMA HeardRes ==
    ASSUME Inv, ResInv, wire # <<>>, wire' = Tail(wire), UNCHANGED <<serving, req, todo, rc>>
    PROVE  ResInv'
<1>1. PICK k \in Nat : /\ DOMAIN wire = 1 .. k /\ DOMAIN wire' = 1 .. k - 1
                       /\ \A i \in 1 .. k - 1 : wire'[i] = wire[i + 1] /\ i + 1 \in 1 .. k
  BY ReadOff
<1>2. \A i \in DOMAIN wire' : wire'[i].kind = "tagged" /\ At("wait") /\ Tail(todo) \in Notes => wire'[i].res = "OK"
  BY <1>1 DEF ResInv
<1> QED BY <1>2 DEF ResInv, Storing, At, Busy

LEMMA HeardData ==
    ASSUME Inv, DataInv, wire # <<>>, wire' = Tail(wire), UNCHANGED sflags
    PROVE  DataInv'
<1>1. PICK k \in Nat : /\ DOMAIN wire = 1 .. k /\ DOMAIN wire' = 1 .. k - 1
                       /\ \A i \in 1 .. k - 1 : wire'[i] = wire[i + 1] /\ i + 1 \in 1 .. k
  BY ReadOff
<1> QED BY <1>1 DEF DataInv

LEMMA StillPhase ==
    ASSUME todo' = todo
    PROVE  SamePhase /\ (Busy' <=> Busy) /\ \A l : At(l)' <=> At(l)
BY DEF SamePhase, Storing, Ending, Marked, Busy, At

\* Nothing changes but the numbers, and which emails are gone.
LEMMA LookSync ==
    ASSUME Serene, UNCHANGED <<srv, sflags, serving, req, batch, todo, rc, handle>>,
           DOMAIN index' = DOMAIN index,
           \A u \in DOMAIN index : /\ index'[u].deleted = index[u].deleted /\ index'[u].flag = index[u].flag
                                   /\ index'[u].changed = index[u].changed
                                   /\ index'[u].active = index[u].active
                                   /\ index'[u].remote = index[u].remote
    PROVE  QueueInv' /\ FlagInv' /\ EndInv' /\ ActiveInv'
<1>1. SamePhase /\ (Busy' <=> Busy) /\ \A l : At(l)' <=> At(l)
  BY StillPhase
<1>2. \A u \in DOMAIN index : Shown(index'[u]) = Shown(index[u])
  BY DEF Shown
<1>3. QueueInv'
  <2>1. Right(batch)'
    BY <1>2, RightKept DEF Serene, SyncInv, QueueInv
  <2>2. \A q : Right(q) => Right(q)'
    BY <1>2 DEF Right
  <2>3. \A c \in {serving, req}' : c.kind = "STORE" => Right(c.cmds)'
    BY <2>2 DEF Serene, SyncInv, QueueInv
  <2> QED BY <1>1, <2>1, <2>3 DEF Serene, SyncInv, QueueInv, Busy
<1>4. \A u : Here(u)' <=> Here(u)
  BY DEF Here
<1>5. \A u \in DOMAIN index : Synced(u)' <=> Synced(u)
  BY <1>2 DEF Synced
<1>6. \A u, g : Queued(u, g)' <=> Queued(u, g)
  BY DEF Queued
<1>7. \A u \in DOMAIN index : OnItsWay(u)' <=> OnItsWay(u)
  BY <1>1, <1>2, <1>6 DEF OnItsWay, SamePhase
<1>8. \A u : Here(u) => u \in DOMAIN index
  BY DEF Here
<1>9. FlagInv'
  BY <1>1, <1>2, <1>4, <1>5, <1>7, <1>8 DEF Serene, SyncInv, FlagInv, SamePhase
<1>10. EndInv'
  BY <1>1 DEF Serene, SyncInv, EndInv, SamePhase
<1>11. ActiveInv'
  BY <1>1, <1>4, <1>8 DEF Serene, SyncInv, ActiveInv, SamePhase, Busy, At
<1> QED BY <1>3, <1>9, <1>10, <1>11

LEMMA NewLook ==
    ASSUME NEW f \in FlagSet, NEW n
    PROVE  LET e == NewEmail(n, f) IN
           e.remote = f /\ Shown(e) = f /\ e.active = TRUE /\ e.gone = FALSE
<1>1. f = [deleted |-> f.deleted, flag |-> f.flag]
  BY DEF FlagSet
<1>2. PICK e : e = NewEmail(n, f)
  OBVIOUS
<1>3. e.deleted = f.deleted /\ e.flag = f.flag /\ e.remote = f /\ e.active = TRUE /\ e.gone = FALSE
  BY <1>2 DEF NewEmail
<1>4. Shown(e) = f
  BY <1>1, <1>3 DEF Shown
<1> QED BY <1>2, <1>3, <1>4

LEMMA NewSync ==
    ASSUME Serene, NEW l, ReadsLine(l), l.kind = "DATA", Slot(l.n) = Null,
           NewMessage(l.n, l.box[l.n], l.flags), UNCHANGED <<reopen, todo, rc, handle>>
    PROVE  SyncInv'
<1>1. /\ told' = told /\ l.box = told /\ l.n \in DOMAIN told /\ l.flags \in FlagSet
  BY LineFacts DEF Follows, Serene
<1>2. PICK n \in DOMAIN told : n = l.n
  BY <1>1
<1>3. PICK u : u = told[n] /\ u \in DOMAIN sflags /\ u \notin DOMAIN index
  BY <1>2, NewIsNew DEF Inv, BoxInv, Known, Serene
<1>4. l = wire[1] /\ 1 \in DOMAIN wire /\ wire # <<>> /\ wire' = Tail(wire)
  BY ReadOff DEF ReadsLine, Serene
<1>5. PICK f \in FlagSet : f = l.flags /\ f = sflags[u]
  <2>1. l.flags = sflags[l.box[l.n]]
    BY <1>4 DEF Serene, SyncInv, DataInv
  <2> QED BY <1>1, <1>2, <1>3, <2>1
<1>6. index' = [v \in DOMAIN index \cup {u} |-> IF v = u THEN NewEmail(n, f) ELSE index[v]]
  BY <1>1, <1>2, <1>3, <1>5 DEF NewMessage
<1>7. PICK e : e = NewEmail(n, f) /\ e.remote = f /\ Shown(e) = f /\ e.active = TRUE /\ e.gone = FALSE
  BY NewLook
<1>8. /\ DOMAIN index' = DOMAIN index \cup {u} /\ index'[u] = e
      /\ \A v \in DOMAIN index : index'[v] = index[v]
  BY <1>3, <1>6, <1>7
<1>9. Busy /\ Head(todo) = "fetching"
  BY DataIsNew DEF Serene, Calm, At
<1>10. /\ UNCHANGED <<srv, sflags, serving, req, batch>>
       /\ SamePhase /\ (Busy' <=> Busy) /\ \A x : At(x)' <=> At(x)
  BY StillPhase DEF ReadsLine
<1>11. /\ serving.kind # "STORE" /\ req.kind # "STORE"
       /\ serving'.kind # "STORE" /\ req'.kind # "STORE"
  BY <1>9, <1>10, StoreAwaited DEF Serene
<1>12. batch = <<>> /\ ~At("collect")'
  BY <1>9, <1>10 DEF Serene, SyncInv, QueueInv, At
<1>13. \A v : Here(v)' => \/ v = u
                          \/ Here(v) /\ v \in DOMAIN index
  BY <1>8, <1>10 DEF Here
<1>14. GoneInv'
  BY <1>7, <1>8 DEF GoneInv, Serene, SyncInv
<1>15. ResInv'
  BY <1>4, <1>10, HeardRes DEF Serene, SyncInv
<1>16. QueueInv'
  <2>1. batch' = <<>>
    BY <1>10, <1>12
  <2>2. Right(batch)'
    BY <2>1 DEF Right
  <2>3. \A c \in {serving, req}' : c.kind = "STORE" => Right(c.cmds)'
    BY <1>11
  <2> QED BY <2>1, <2>2, <2>3 DEF QueueInv
<1>17. FlagInv'
  <2>1. Synced(u)' /\ OnItsWay(u)'
    BY <1>5, <1>7, <1>8, <1>10 DEF Synced, OnItsWay
  <2>2. \A v \in DOMAIN index : /\ Synced(v) => Synced(v)'
                                /\ OnItsWay(v) => OnItsWay(v)'
    <3>1. \A v, g : Queued(v, g)' <=> Queued(v, g)
      BY <1>10 DEF Queued
    <3> QED BY <1>8, <1>10, <3>1 DEF Synced, OnItsWay, SamePhase
  <2> QED BY <1>7, <1>8, <1>10, <1>13, <2>1, <2>2 DEF FlagInv, Serene, SyncInv, SamePhase
<1>18. EndInv'
  BY <1>10 DEF EndInv, Serene, SyncInv, SamePhase
<1>19. ActiveInv'
  BY <1>7, <1>8, <1>10, <1>12, <1>13 DEF ActiveInv, Serene, SyncInv, SamePhase, Busy
<1>20. DataInv'
  BY <1>4, <1>10, HeardData DEF Serene, SyncInv
<1> QED BY <1>14, <1>15, <1>16, <1>17, <1>18, <1>19, <1>20 DEF SyncInv

LEMMA HeardSync ==
    ASSUME Serene, HandleUntagged
    PROVE  SyncInv'
<1>1. PICK l : /\ ReadsLine(l) /\ UNCHANGED <<idling, todo, rc, handle>>
               /\ \/ /\ l.kind = "EXISTS" /\ ParseExists(l.n)
                     /\ UNCHANGED <<index, msn, hash, mchanged, check>>
                  \/ /\ l.kind = "EXPUNGE" /\ ParseExpunge(l.n)
                     /\ UNCHANGED <<hash, mchanged, newCount, check>>
                  \/ /\ l.kind = "FETCH" \/ (l.kind = "DATA" /\ Slot(l.n) # Null)
                     /\ ParseFetch(l.n, l.flags) /\ UNCHANGED <<msn, hash, newCount>>
                  \/ /\ l.kind = "DATA" /\ Slot(l.n) = Null
                     /\ NewMessage(l.n, l.box[l.n], l.flags)
                     /\ UNCHANGED <<mchanged, reopen, newCount, check>>
  BY Readings DEF Serene
<1>2. l = wire[1] /\ 1 \in DOMAIN wire /\ wire # <<>> /\ wire' = Tail(wire)
  BY <1>1, ReadOff DEF ReadsLine, Serene
<1>3. /\ l.kind # "FETCH"
      /\ l.kind = "DATA" => Slot(l.n) = Null
  <2>1. l.kind # "FETCH"
    BY <1>2 DEF Serene, Calm, CalmLines
  <2> QED BY <1>1, <2>1, DataIsNew DEF Serene, Calm
<1>4. UNCHANGED <<srv, sflags, serving, req, batch, todo, rc, handle>>
  BY <1>1 DEF ReadsLine
<1>5. ResInv' /\ DataInv'
  BY <1>2, <1>4, HeardRes, HeardData DEF Serene, SyncInv
<1>6. CASE l.kind = "EXISTS" /\ ParseExists(l.n) /\ index' = index
  <2>1. "EXPUNGE" \in reopen => "EXPUNGE" \in reopen'
    BY <1>6 DEF ParseExists
  <2>2. GoneInv'
    BY <1>6, <2>1 DEF GoneInv, Serene, SyncInv
  <2>3. QueueInv' /\ FlagInv' /\ EndInv' /\ ActiveInv'
    BY <1>4, <1>6, LookSync
  <2> QED BY <1>5, <2>2, <2>3 DEF SyncInv
<1>7. CASE l.kind = "EXPUNGE" /\ ParseExpunge(l.n)
  <2>1. GoneInv'
    <3>1. "EXPUNGE" \in reopen' \/ UNCHANGED <<index, reopen>>
      BY <1>7 DEF ParseExpunge
    <3> QED BY <3>1 DEF GoneInv, Serene, SyncInv
  <2>2. QueueInv' /\ FlagInv' /\ EndInv' /\ ActiveInv'
    BY <1>1, <1>4, <1>7, RenumberedLook, LookSync DEF Serene
  <2> QED BY <1>5, <2>1, <2>2 DEF SyncInv
<1>8. CASE l.kind = "DATA" /\ NewMessage(l.n, l.box[l.n], l.flags) /\ reopen' = reopen
  BY <1>1, <1>3, <1>4, <1>8, NewSync
<1> QED BY <1>1, <1>3, <1>6, <1>7, <1>8

LEMMA SyncClient == Serene /\ (Client \/ User) => SyncInv'
<1> SUFFICES ASSUME Serene, Client \/ User PROVE SyncInv'
  OBVIOUS
<1>1. \/ HandleUntagged \/ Purge \/ Edit \/ Neutral \/ MarkDeleted \/ Stored \/ Expunged \/ MsgOpened
      \/ Collect \/ SendExpunge \/ StoreFailed \/ MsgOpen
  BY DEF Client, User, Neutral, GoesOn, StepsOn, StartsOn
<1> QED BY <1>1, HeardSync, PurgeSync, EditSync, NeutralSync, MarkDeletedSync, StoredSync, ExpungedSync,
           MsgOpenedSync, CollectSync, SendExpungeSync, NoStoreFailed, MsgOpenSync

-----------------------------------------------------------------------------
(* Steps of the server *)

LEMMA ServedSync ==
    ASSUME Serene, Server, EndInv',
           \A u \in DOMAIN index : Here(u)' =>
               /\ Here(u) /\ (OnItsWay(u) => OnItsWay(u)')
               /\ ~Storing /\ ~Ending => sflags'[u] = sflags[u],
           \A c \in {serving', req'} : c.kind = "STORE" => Right(c.cmds)
    PROVE  GoneInv' /\ QueueInv' /\ FlagInv' /\ EndInv' /\ ActiveInv'
<1>1. UNCHANGED <<world, index, reopen, batch, todo, rc, handle>>
  BY ServerLeaves
<1>2. SamePhase /\ (Busy' <=> Busy) /\ \A l : At(l)' <=> At(l)
  BY <1>1, StillPhase
<1>3. GoneInv'
  BY <1>1 DEF Serene, SyncInv, GoneInv
<1>4. QueueInv'
  <2>1. \A q : Right(q) => Right(q)'
    BY <1>1 DEF Right
  <2>2. Right(batch)'
    BY <1>1 DEF Serene, SyncInv, QueueInv, Right
  <2>3. \A c \in {serving, req}' : c.kind = "STORE" => Right(c.cmds)'
    BY <2>1
  <2> QED BY <1>1, <1>2, <2>2, <2>3 DEF Serene, SyncInv, QueueInv, Busy
<1>5. \A u : Here(u)' => u \in DOMAIN index /\ Here(u)
  <2> SUFFICES ASSUME NEW u, Here(u)' PROVE u \in DOMAIN index /\ Here(u)
    OBVIOUS
  <2>1. u \in DOMAIN index
    BY <1>1 DEF Here
  <2> QED BY <2>1
<1>6. FlagInv'
  <2>1. ~Storing /\ ~Ending => \A u \in Uid : Here(u)' => Synced(u)'
    <3> SUFFICES ASSUME ~Storing, ~Ending, NEW u \in Uid, Here(u)' PROVE Synced(u)'
      OBVIOUS
    <3>1. u \in DOMAIN index /\ Here(u) /\ sflags'[u] = sflags[u]
      BY <1>5
    <3>2. Synced(u)
      BY <3>1 DEF Serene, SyncInv, FlagInv
    <3> QED BY <1>1, <3>1, <3>2 DEF Synced
  <2>2. Storing \/ Ending => \A u \in Uid : Here(u)' => OnItsWay(u)'
    <3> SUFFICES ASSUME Storing \/ Ending, NEW u \in Uid, Here(u)' PROVE OnItsWay(u)'
      OBVIOUS
    <3>1. u \in DOMAIN index /\ Here(u)
      BY <1>5
    <3>2. OnItsWay(u)
      BY <3>1 DEF Serene, SyncInv, FlagInv
    <3> QED BY <3>1, <3>2
  <2>3. Ending => \A u \in DOMAIN index' : index'[u].remote = Shown(index'[u])
    BY <1>1 DEF Serene, SyncInv, FlagInv
  <2> QED BY <1>2, <2>1, <2>2, <2>3 DEF FlagInv, SamePhase
<1>7. ActiveInv'
  BY <1>1, <1>2, <1>5 DEF Serene, SyncInv, ActiveInv, SamePhase, Busy, At
<1> QED BY <1>3, <1>4, <1>6, <1>7

\* What was said of all lines is said of one more.
LEMMA SaidRes ==
    ASSUME Serene, Server,
           \A c \in {serving', req'} : c.kind = "STORE" => c.res = "OK",
           \/ wire' = wire
           \/ \E l : /\ wire' = Append(wire, l)
                     /\ l.kind = "tagged" /\ At("wait") /\ Tail(todo) \in Notes => l.res = "OK"
    PROVE  ResInv'
<1>1. UNCHANGED <<todo, rc>>
  BY ServerLeaves
<1>2. Storing' <=> Storing
  BY <1>1, StillPhase DEF SamePhase
<1>3. At("wait")' <=> At("wait")
  BY <1>1, StillPhase
<1>4. \A i \in DOMAIN wire' :
         wire'[i].kind = "tagged" /\ At("wait") /\ Tail(todo) \in Notes => wire'[i].res = "OK"
  <2>1. CASE wire' = wire
    BY <2>1 DEF Serene, SyncInv, ResInv
  <2>2. CASE wire' # wire
    <3>1. PICK l : /\ wire' = Append(wire, l)
                   /\ l.kind = "tagged" /\ At("wait") /\ Tail(todo) \in Notes => l.res = "OK"
      BY <2>2
    <3>2. PICK n \in Nat : /\ DOMAIN wire = 1 .. n /\ DOMAIN wire' = 1 .. n + 1
                           /\ \A i \in 1 .. n : wire'[i] = wire[i]
                           /\ wire'[n + 1] = l
      BY <3>1, Written DEF Serene
    <3>3. ASSUME NEW i \in 1 .. n + 1, wire'[i].kind = "tagged", At("wait"), Tail(todo) \in Notes
          PROVE  wire'[i].res = "OK"
      <4>1. CASE i \in 1 .. n
        <5>1. PICK m : m = wire'[i] /\ m = wire[i] /\ i \in DOMAIN wire
          BY <3>2, <4>1
        <5> QED BY <3>3, <5>1 DEF Serene, SyncInv, ResInv
      <4>2. CASE i = n + 1
        <5>1. PICK m : m = wire'[i] /\ m = l
          BY <3>2, <4>2
        <5> QED BY <3>1, <3>3, <5>1
      <4>3. i \in 1 .. n \/ i = n + 1
        BY <3>3
      <4> QED BY <4>1, <4>2, <4>3
    <3> QED BY <3>2, <3>3
  <2> QED BY <2>1, <2>2
<1> QED BY <1>1, <1>2, <1>3, <1>4 DEF Serene, SyncInv, ResInv

LEMMA SaidData ==
    ASSUME Serene,
           sflags' = sflags \/ \A i \in DOMAIN wire : wire[i].kind # "DATA",
           \/ wire' = wire
           \/ \E l : /\ wire' = Append(wire, l)
                     /\ l.kind = "DATA" => l.flags = sflags'[l.box[l.n]]
    PROVE  DataInv'
<1>1. \A i \in DOMAIN wire : wire[i].kind = "DATA" => wire[i].flags = sflags'[wire[i].box[wire[i].n]]
  BY DEF Serene, SyncInv, DataInv
<1>2. CASE wire' = wire
  BY <1>1, <1>2 DEF DataInv
<1>3. CASE wire' # wire
  <2>1. PICK l : /\ wire' = Append(wire, l)
                 /\ l.kind = "DATA" => l.flags = sflags'[l.box[l.n]]
    BY <1>3
  <2>2. PICK n \in Nat : /\ DOMAIN wire = 1 .. n /\ DOMAIN wire' = 1 .. n + 1
                         /\ \A i \in 1 .. n : wire'[i] = wire[i]
                         /\ wire'[n + 1] = l
    BY <2>1, Written DEF Serene
  <2>3. ASSUME NEW i \in 1 .. n + 1, wire'[i].kind = "DATA"
        PROVE  wire'[i].flags = sflags'[wire'[i].box[wire'[i].n]]
    <3>1. CASE i \in 1 .. n
      <4>1. PICK m : m = wire'[i] /\ m = wire[i] /\ i \in DOMAIN wire
        BY <2>2, <3>1
      <4> QED BY <1>1, <2>3, <4>1
    <3>2. CASE i = n + 1
      <4>1. PICK m : m = wire'[i] /\ m = l
        BY <2>2, <3>2
      <4> QED BY <2>1, <2>3, <4>1
    <3>3. i \in 1 .. n \/ i = n + 1
      BY <2>3
    <3> QED BY <3>1, <3>2, <3>3
  <2> QED BY <2>2, <2>3 DEF DataInv
<1> QED BY <1>2, <1>3

\* No data on the wire unless a FETCH is served.
LEMMA NoData ==
    ASSUME Turn, serving.kind # "FETCH"
    PROVE  \A i \in DOMAIN wire : wire[i].kind # "DATA"
BY DEF Turn

\* Emails, flags and queue as before.
LEMMA SamePlace ==
    ASSUME Serene, Server, NEW u, Here(u)', UNCHANGED <<srv, sflags>>,
           \A g : Queued(u, g) => Queued(u, g)'
    PROVE  /\ Here(u) /\ (OnItsWay(u) => OnItsWay(u)') /\ sflags'[u] = sflags[u]
<1>1. UNCHANGED <<index, todo>>
  BY ServerLeaves
<1>2. Marked' <=> Marked
  BY <1>1, StillPhase DEF SamePhase
<1>3. Here(u)
  BY <1>1 DEF Here
<1>4. OnItsWay(u) => OnItsWay(u)'
  BY <1>1, <1>2 DEF OnItsWay
<1> QED BY <1>3, <1>4

LEMMA TakeSync ==
    ASSUME Serene, Take
    PROVE  SyncInv'
<1>1. /\ req # NoReq /\ serving.kind \in Idling /\ serving' = Taken(req) /\ req' = NoReq
      /\ UNCHANGED <<srv, sflags, wire, batch, todo>>
  BY DEF Take, Idling, ToClient
<1>2. Taken(req).kind = req.kind /\ (req.kind = "STORE" => Taken(req) = req)
  <2>1. req \in RequestSet
    BY DEF Serene, Inv, TypesInv, CmdTypes
  <2> QED BY <2>1 DEF Taken, RequestSet
<1>3. Server /\ NoReq.kind = "none" /\ serving.kind # "STORE"
  BY <1>1 DEF Server, NoReq, Idling
<1>4. \A u, g : Queued(u, g) => Queued(u, g)'
  <2>1. \A u, g : Stores(req, u, g) => Stores(serving', u, g)
    BY <1>1, <1>2 DEF Stores
  <2>2. \A u, g : ~Stores(serving, u, g)
    BY <1>3 DEF Stores
  <2> QED BY <1>1, <2>1, <2>2 DEF Queued, Stores, Holds
<1>5. \A c \in {serving', req'} : c.kind = "STORE" => Right(c.cmds) /\ c.res = "OK"
  BY <1>1, <1>2, <1>3 DEF Serene, SyncInv, QueueInv, ResInv
<1>6. EndInv'
  <2>1. Ending' <=> Ending
    BY <1>1, StillPhase DEF SamePhase
  <2> QED BY <1>1, <1>2, <1>3, <2>1 DEF Serene, SyncInv, EndInv
<1>7. GoneInv' /\ QueueInv' /\ FlagInv' /\ EndInv' /\ ActiveInv'
  BY <1>1, <1>3, <1>4, <1>5, <1>6, SamePlace, ServedSync
<1>8. ResInv' /\ DataInv'
  BY <1>1, <1>3, <1>5, SaidRes, SaidData
<1> QED BY <1>7, <1>8 DEF SyncInv

LEMMA DeliverSync ==
    ASSUME Serene, Deliver
    PROVE  SyncInv'
<1> DEFINE u == Cardinality(DOMAIN sflags) + 1
<1>1. /\ MaySpeak /\ UNCHANGED <<serving, req, batch, todo, index>>
      /\ srv' = Append(srv, u)
      /\ sflags' = [v \in DOMAIN sflags \cup {u} |-> IF v = u THEN Clear ELSE sflags[v]]
      /\ \E n : wire' = Append(wire, Line("EXISTS", n, Clear))
  BY DEF Deliver, ToClient, idxVars, Say
<1>2. PICK k \in Nat : DOMAIN sflags = 1 .. k /\ u = k + 1
  <2>1. PICK k \in 0 .. MaxUid : sflags \in [1 .. k -> FlagSet]
    BY DEF Serene, Inv, TypesInv, FlagTypes
  <2>2. k \in Nat /\ DOMAIN sflags = 1 .. k
    BY <2>1, UidFacts
  <2>3. Cardinality(1 .. k) = k
    BY <2>2, FS_Interval
  <2> QED BY <2>2, <2>3
<1>3. u \in Uid
  BY DEF Deliver
<1> HIDE DEF u
<1>4. u \notin DOMAIN sflags /\ u \notin DOMAIN index
  BY <1>2 DEF Serene, Listed
<1>5. srv \in Seq(Uid) /\ \A i \in DOMAIN srv : srv[i] \in DOMAIN sflags
  BY DEF Serene, Inv, TypesInv, WireTypes, FlagTypes
<1>6. PICK m \in Nat : /\ DOMAIN srv = 1 .. m /\ DOMAIN srv' = 1 .. m + 1
                       /\ \A j \in 1 .. m : srv'[j] = srv[j]
                       /\ srv'[m + 1] = u
  <2>1. PICK m \in Nat : m = Len(srv) /\ DOMAIN srv = 1 .. m
    BY <1>5, LenProperties
  <2>2. /\ DOMAIN srv' = 1 .. m + 1
        /\ \A j \in 1 .. m : srv'[j] = srv[j]
        /\ srv'[m + 1] = u
    BY <1>1, <1>3, <1>5, <2>1, Appending
  <2> QED BY <2>1, <2>2
<1>7. \A v \in DOMAIN sflags : sflags'[v] = sflags[v]
  BY <1>1, <1>4
<1>8. sflags'[u] = Clear
  BY <1>1
<1>9. \A i \in DOMAIN srv' : srv'[i] = u \/ (i \in DOMAIN srv /\ srv'[i] = srv[i])
  BY <1>6
<1>10. Server
  BY DEF Server
<1>11. \A i \in DOMAIN wire : wire[i].kind # "DATA"
  <2>1. serving.kind = "IDLE" \/ wire = <<>>
    BY <1>1 DEF MaySpeak, Serving
  <2>2. CASE serving.kind = "IDLE"
    BY <2>2, NoData DEF Serene
  <2> QED BY <2>1, <2>2
<1>12. (Marked' <=> Marked) /\ (Ending' <=> Ending)
  BY <1>1, StillPhase DEF SamePhase
<1>13. \A v \in DOMAIN index : Here(v)' =>
          /\ Here(v) /\ (OnItsWay(v) => OnItsWay(v)') /\ sflags'[v] = sflags[v]
  <2> SUFFICES ASSUME NEW v \in DOMAIN index, Here(v)'
               PROVE  Here(v) /\ (OnItsWay(v) => OnItsWay(v)') /\ sflags'[v] = sflags[v]
    OBVIOUS
  <2>1. PICK i \in DOMAIN srv' : srv'[i] = v
    BY DEF Here
  <2>2. i \in DOMAIN srv /\ srv[i] = v
    BY <1>4, <1>9, <2>1
  <2>3. Here(v) /\ sflags'[v] = sflags[v]
    BY <1>5, <1>7, <2>2 DEF Here
  <2>4. \A g : Queued(v, g)' <=> Queued(v, g)
    BY <1>1 DEF Queued
  <2>5. OnItsWay(v) => OnItsWay(v)'
    BY <1>1, <1>12, <2>3, <2>4 DEF OnItsWay
  <2> QED BY <2>3, <2>5
<1>14. EndInv'
  <2>1. ~Clear.deleted
    BY DEF Clear
  <2>2. \A i \in DOMAIN srv' : sflags'[srv'[i]] = Clear \/ (i \in DOMAIN srv /\ sflags'[srv'[i]] = sflags[srv[i]])
    BY <1>5, <1>7, <1>8, <1>9
  <2> QED BY <1>1, <1>12, <2>1, <2>2 DEF Serene, SyncInv, EndInv
<1>15. \A c \in {serving', req'} : c.kind = "STORE" => Right(c.cmds) /\ c.res = "OK"
  BY <1>1 DEF Serene, SyncInv, QueueInv, ResInv
<1>16. GoneInv' /\ QueueInv' /\ FlagInv' /\ EndInv' /\ ActiveInv'
  BY <1>10, <1>13, <1>14, <1>15, ServedSync
<1>17. PICK l : wire' = Append(wire, l) /\ l.kind = "EXISTS"
  BY <1>1 DEF Line
<1>18. ResInv' /\ DataInv'
  BY <1>10, <1>11, <1>15, <1>17, SaidRes, SaidData
<1> QED BY <1>16, <1>18 DEF SyncInv

\* The completion of a command that is no STORE, and a message of a FETCH.
LEMMA AnswerPlainSync ==
    ASSUME Serene, AnswerPlain \/ AnswerFetch
    PROVE  SyncInv'
<1>1. /\ Server /\ UNCHANGED <<srv, sflags, req, batch, todo, index>> /\ wire = <<>>
      /\ serving.kind \in {"NOOP", "UIDFETCH", "FETCH"}
  BY DEF Server, AnswerPlain, AnswerFetch, Tagged, Serving, ToClient, idxVars
<1>2. ~(At("wait") /\ Tail(todo) \in Notes)
  <2> SUFFICES ASSUME At("wait"), Tail(todo) \in Notes PROVE FALSE
    OBVIOUS
  <2>1. Expected \subseteq {"STORE", "FETCH"} /\ ("FETCH" \in Expected => At("fetching"))
    BY DEF Expected
  <2>2. ~At("fetching")
    BY DEF At
  <2> QED BY <1>1, <2>1, <2>2 DEF Serene, Turn, Idling
<1>3. serving'.kind # "STORE" /\ req'.kind # "STORE"
  <2>1. req.kind = "none"
    BY <1>1 DEF Serene, Turn, Idling
  <2>2. CASE serving' = NoReq
    BY <1>1, <2>1, <2>2 DEF NoReq
  <2>3. CASE serving.kind = "FETCH" /\ serving' = [serving EXCEPT !.begin = @ + 1]
    <3>1. serving \in [kind : {"FETCH"}, begin : Nat, end : Nat]
      BY <2>3 DEF Serene, Inv, TypesInv, CmdTypes, RequestSet
    <3> QED BY <1>1, <2>1, <2>3, <3>1
  <2> QED BY <2>2, <2>3 DEF AnswerPlain, AnswerFetch, Tagged, Serving
<1>4. \A u, g : Queued(u, g) => Queued(u, g)'
  BY <1>1 DEF Queued, Stores, Holds
<1>5. EndInv'
  <2>1. Ending' <=> Ending
    BY <1>1, StillPhase DEF SamePhase
  <2>2. req.kind # "STORE"
    BY <1>1, <1>3
  <2> QED BY <1>1, <2>1, <2>2 DEF Serene, SyncInv, EndInv
<1>6. GoneInv' /\ QueueInv' /\ FlagInv' /\ EndInv' /\ ActiveInv'
  BY <1>1, <1>3, <1>4, <1>5, SamePlace, ServedSync
<1>7. \E l : wire' = Append(wire, l) /\ (l.kind = "DATA" => l.flags = sflags'[l.box[l.n]])
  <2>1. CASE \E r : Tagged(r)
    <3>1. PICK r : Tagged(r)
      BY <2>1
    <3>2. PICK l : wire' = Append(wire, l) /\ l.kind = "tagged"
      BY <3>1, TaggedRes DEF Tagged, Say
    <3> QED BY <3>2
  <2>2. CASE Say(Line("DATA", serving.begin, sflags[srv[serving.begin]]))
    <3>1. PICK l : l = Line("DATA", serving.begin, sflags[srv[serving.begin]])
      OBVIOUS
    <3>2. l.flags = sflags[srv[serving.begin]] /\ l.box = srv' /\ l.n = serving.begin
      BY <3>1 DEF Line
    <3>3. wire' = Append(wire, l)
      BY <2>2, <3>1 DEF Say
    <3> QED BY <1>1, <3>2, <3>3
  <2> QED BY <2>1, <2>2 DEF AnswerPlain, AnswerFetch
<1>8. ResInv' /\ DataInv'
  <2>1. ResInv'
    BY <1>1, <1>2, <1>3, <1>7, SaidRes
  <2>2. DataInv'
    BY <1>1, <1>7, SaidData
  <2> QED BY <2>1, <2>2
<1> QED BY <1>6, <1>8 DEF SyncInv

\* What a command is not the first to say, the rest of them say.
LEMMA TailHolds ==
    ASSUME NEW S, NEW q \in Seq(S), q # <<>>
    PROVE  /\ \A u, g : Holds(q, u, g) =>
                 (Head(q).flag = g /\ u \in Head(q).uids) \/ Holds(Tail(q), u, g)
           /\ Right(q) => Right(Tail(q))
           /\ Right(q) => \A u \in Head(q).uids : /\ u \in DOMAIN index
                                                  /\ Shown(index[u])[Head(q).flag] = Head(q).on
<1>1. PICK n \in Nat : n = Len(q) /\ DOMAIN q = 1 .. n /\ n # 0
  BY LenProperties, EmptySeq
<1> DEFINE t == Tail(q)
<1>2. /\ t \in Seq(S) /\ Len(t) = n - 1
      /\ \A i \in 1 .. n - 1 : t[i] = q[i + 1]
  BY <1>1, HeadTailProperties
<1>3. Head(q) = q[1] /\ 1 \in DOMAIN q
  BY <1>1
<1> HIDE DEF t
<1>4. DOMAIN t = 1 .. n - 1
  BY <1>1, <1>2, LenProperties
<1>5. \A i \in DOMAIN t : i + 1 \in DOMAIN q /\ t[i] = q[i + 1]
  BY <1>1, <1>2, <1>4
<1>6. \A i \in DOMAIN q : i = 1 \/ (i - 1 \in DOMAIN t /\ t[i - 1] = q[i])
  <2> TAKE i \in DOMAIN q
  <2>1. i = 1 \/ (i - 1 \in 1 .. n - 1 /\ (i - 1) + 1 = i)
    BY <1>1
  <2> QED BY <1>2, <1>4, <2>1
<1>7. \A u, g : Holds(q, u, g) => (Head(q).flag = g /\ u \in Head(q).uids) \/ Holds(t, u, g)
  BY <1>3, <1>6 DEF Holds
<1>8. Right(q) => Right(t)
  BY <1>5 DEF Right
<1>9. Right(q) => \A u \in Head(q).uids : u \in DOMAIN index /\ Shown(index[u])[Head(q).flag] = Head(q).on
  BY <1>3 DEF Right
<1> QED BY <1>7, <1>8, <1>9 DEF t

LEMMA FlagSets ==
    ASSUME NEW f, NEW g, NEW on, f \in FlagSet, g \in {"deleted", "flag"}
    PROVE  /\ [f EXCEPT ![g] = on][g] = on
           /\ \A h \in {"deleted", "flag"} \ {g} : [f EXCEPT ![g] = on][h] = f[h]
BY DEF FlagSet

LEMMA AnswerStoreSync ==
    ASSUME Serene, AnswerStore
    PROVE  SyncInv'
<1>1. /\ Server /\ UNCHANGED <<srv, wire, req, batch, todo, index>>
      /\ serving.kind = "STORE" /\ serving.cmds # <<>>
  BY DEF Server, AnswerStore, Serving, ToClient, idxVars
<1> DEFINE c == Head(serving.cmds)
<1> DEFINE rest == Tail(serving.cmds)
<1>2. serving \in [kind : {"STORE"}, cmds : Seq(CmdSet), expunge : BOOLEAN, res : {"OK", "NO"}]
  BY <1>1, StoreRequest DEF Serene, Inv, TypesInv, CmdTypes
<1>3. c \in CmdSet /\ rest \in Seq(CmdSet)
  BY <1>1, <1>2, HeadTailProperties
<1>4. /\ \A u, g : Holds(serving.cmds, u, g) => (c.flag = g /\ u \in c.uids) \/ Holds(rest, u, g)
      /\ Right(rest)
      /\ \A u \in c.uids : u \in DOMAIN index /\ Shown(index[u])[c.flag] = c.on
  <2>1. Right(serving.cmds)
    BY <1>1 DEF Serene, SyncInv, QueueInv
  <2> QED BY <1>1, <1>2, <2>1, TailHolds
<1>5. /\ sflags' = [u \in DOMAIN sflags |->
                       IF u \in c.uids THEN [sflags[u] EXCEPT ![c.flag] = c.on] ELSE sflags[u]]
      /\ serving' = [serving EXCEPT !.cmds = Tail(@), !.res = "OK"]
  <2>1. ~world.refuse
    BY DEF Serene, Obliging
  <2> QED BY <2>1 DEF AnswerStore, c
<1>6. serving'.kind = "STORE" /\ serving'.cmds = rest /\ serving'.res = "OK"
  BY <1>2, <1>5
<1>7. c.flag \in {"deleted", "flag"}
  BY <1>3, DeletedKind
<1> HIDE DEF c, rest
<1>8. \A u \in DOMAIN index : Here(u)' =>
         /\ Here(u) /\ (OnItsWay(u) => OnItsWay(u)')
         /\ ~Storing /\ ~Ending => sflags'[u] = sflags[u]
  <2> SUFFICES ASSUME NEW u \in DOMAIN index, Here(u)'
               PROVE  /\ Here(u) /\ (OnItsWay(u) => OnItsWay(u)')
                      /\ ~Storing /\ ~Ending => sflags'[u] = sflags[u]
    OBVIOUS
  <2>1. Here(u)
    BY <1>1 DEF Here
  <2>2. Storing \/ Ending
    <3>1. Busy /\ Head(todo) = "wait" /\ Tail(todo) \in Notes \cup {ToForget}
      BY <1>1, StoreAwaited DEF Serene
    <3> QED BY <3>1 DEF Storing, Ending
  <2>3. sflags[u] \in FlagSet /\ u \in DOMAIN sflags
    BY <2>1, FlagFacts DEF Serene
  <2>4. Marked' <=> Marked
    BY <1>1, StillPhase DEF SamePhase
  <2>5. ASSUME OnItsWay(u), NEW g \in {"deleted", "flag"}
        PROVE  \/ sflags'[u][g] = Shown(index'[u])[g]
               \/ Queued(u, g)'
               \/ g = "flag" /\ Marked' /\ index'[u].deleted
    <3>1. CASE u \in c.uids /\ g = c.flag
      <4>1. sflags'[u] = [sflags[u] EXCEPT ![c.flag] = c.on]
        BY <1>5, <2>3, <3>1
      <4>2. PICK f, on : f \in FlagSet /\ f = sflags[u] /\ on = c.on
        BY <2>3
      <4>3. sflags'[u][g] = c.on
        <5>1. sflags'[u] = [f EXCEPT ![g] = on]
          BY <3>1, <4>1, <4>2
        <5>2. [f EXCEPT ![g] = on][g] = on
          BY <4>2 DEF FlagSet
        <5> QED BY <4>2, <5>1, <5>2
      <4> QED BY <1>1, <1>4, <3>1, <4>3
    <3>2. CASE ~(u \in c.uids /\ g = c.flag)
      <4>1. sflags'[u][g] = sflags[u][g]
        <5>1. CASE u \notin c.uids
          BY <1>5, <2>3, <5>1
        <5>2. CASE u \in c.uids
          <6>1. sflags'[u] = [sflags[u] EXCEPT ![c.flag] = c.on]
            BY <1>5, <2>3, <5>2
          <6> QED BY <1>7, <2>3, <3>2, <5>2, <6>1, FlagSets
        <5> QED BY <5>1, <5>2
      <4>2. Queued(u, g) => Queued(u, g)'
        <5>1. Stores(serving, u, g) => Stores(serving', u, g)
          BY <1>4, <1>6, <3>2 DEF Stores
        <5> QED BY <1>1, <5>1 DEF Queued
      <4> QED BY <1>1, <2>4, <2>5, <4>1, <4>2 DEF OnItsWay
    <3> QED BY <3>1, <3>2
  <2>6. OnItsWay(u) => OnItsWay(u)'
    BY <2>5 DEF OnItsWay
  <2> QED BY <2>1, <2>2, <2>6
<1>9. \A d \in {serving', req'} : d.kind = "STORE" => Right(d.cmds) /\ d.res = "OK"
  BY <1>1, <1>4, <1>6 DEF Serene, SyncInv, QueueInv, ResInv
<1>10. EndInv'
  BY <1>6 DEF EndInv
<1>11. GoneInv' /\ QueueInv' /\ FlagInv' /\ EndInv' /\ ActiveInv'
  BY <1>1, <1>8, <1>9, <1>10, ServedSync
<1>12. \A i \in DOMAIN wire : wire[i].kind # "DATA"
  BY <1>1, NoData DEF Serene
<1>13. ResInv' /\ DataInv'
  BY <1>1, <1>9, <1>12, SaidRes, SaidData
<1> QED BY <1>11, <1>13 DEF SyncInv

\* A removal leaves what is there there.
LEMMA AnswerExpungeSync ==
    ASSUME Serene, AnswerExpunge
    PROVE  SyncInv'
<1>1. /\ Server /\ UNCHANGED <<sflags, serving, req, batch, todo, index>>
      /\ serving.kind = "STORE"
  BY DEF Server, AnswerExpunge, Serving, ToClient, idxVars
<1>2. PICK i \in DOMAIN srv : srv' = RemoveAt(srv, i) /\ Say(Line("EXPUNGE", i, Clear))
  BY DEF AnswerExpunge, Removed, Serene, Obliging, Undisturbed
<1>3. srv \in Seq(Uid)
  BY DEF Serene, Inv, TypesInv, WireTypes
<1>4. \A j \in DOMAIN srv' : \E p \in DOMAIN srv : srv'[j] = srv[p]
  <2>1. PICK n \in Nat : n = Len(srv) /\ DOMAIN srv = 1 .. n
    BY <1>3, LenProperties
  <2>2. /\ srv' \in Seq(Uid) /\ Len(srv') = n - 1
        /\ \A j \in 1 .. n - 1 : srv'[j] = IF j < i THEN srv[j] ELSE srv[j + 1]
    BY <1>2, <1>3, <2>1, Removal
  <2>3. DOMAIN srv' = 1 .. n - 1
    BY <2>2, LenProperties
  <2> TAKE j \in DOMAIN srv'
  <2>4. j \in DOMAIN srv /\ j + 1 \in DOMAIN srv
    BY <2>1, <2>3
  <2> QED BY <2>2, <2>3, <2>4
<1>5. Marked' <=> Marked
  BY <1>1, StillPhase DEF SamePhase
<1>6. \A u \in DOMAIN index : Here(u)' =>
         Here(u) /\ (OnItsWay(u) => OnItsWay(u)') /\ sflags'[u] = sflags[u]
  <2> SUFFICES ASSUME NEW u \in DOMAIN index, Here(u)'
               PROVE  Here(u) /\ (OnItsWay(u) => OnItsWay(u)')
    BY <1>1
  <2>1. Here(u)
    BY <1>4 DEF Here
  <2>2. \A g : Queued(u, g)' <=> Queued(u, g)
    BY <1>1 DEF Queued
  <2>3. OnItsWay(u) => OnItsWay(u)'
    BY <1>1, <1>5, <2>2 DEF OnItsWay
  <2> QED BY <2>1, <2>3
<1>7. \A d \in {serving', req'} : d.kind = "STORE" => Right(d.cmds) /\ d.res = "OK"
  BY <1>1 DEF Serene, SyncInv, QueueInv, ResInv
<1>8. EndInv'
  BY <1>1 DEF EndInv
<1>9. GoneInv' /\ QueueInv' /\ FlagInv' /\ EndInv' /\ ActiveInv'
  BY <1>1, <1>6, <1>7, <1>8, ServedSync
<1>10. PICK l : wire' = Append(wire, l) /\ l.kind = "EXPUNGE"
  BY <1>2 DEF Say, Line
<1>11. ResInv' /\ DataInv'
  BY <1>1, <1>7, <1>10, SaidRes, SaidData
<1> QED BY <1>9, <1>11 DEF SyncInv

LEMMA AnswerBatchSync ==
    ASSUME Serene, AnswerBatch
    PROVE  SyncInv'
<1>1. /\ Server /\ UNCHANGED <<srv, sflags, req, batch, todo, index>> /\ wire = <<>>
      /\ serving.kind = "STORE" /\ serving.cmds = <<>> /\ serving' = NoReq
      /\ serving.expunge => \A i \in DOMAIN srv : ~sflags[srv[i]].deleted
      /\ Tagged(IF serving.expunge THEN "OK" ELSE serving.res)
  BY DEF Server, AnswerBatch, Serving, Tagged, ToClient, idxVars
<1>2. serving.res = "OK" /\ (serving.expunge <=> Tail(todo) = ToForget)
  BY <1>1 DEF Serene, SyncInv, ResInv, Turn
<1>3. \A u, g : ~Stores(serving, u, g)
  BY <1>1 DEF Stores, Holds
<1>4. \A u, g : Queued(u, g) => Queued(u, g)'
  BY <1>1, <1>3 DEF Queued, Stores, Holds
<1>5. \A d \in {serving', req'} : d.kind = "STORE" => Right(d.cmds) /\ d.res = "OK"
  BY <1>1 DEF Serene, SyncInv, QueueInv, ResInv, NoReq
<1>6. EndInv'
  <2>1. Ending' <=> Ending
    BY <1>1, StillPhase DEF SamePhase
  <2>2. Busy /\ Head(todo) = "wait"
    BY <1>1, StoreAwaited DEF Serene
  <2>3. Ending => Tail(todo) = ToForget
    BY <2>2 DEF Ending
  <2> QED BY <1>1, <1>2, <2>1, <2>3 DEF EndInv
<1>7. GoneInv' /\ QueueInv' /\ FlagInv' /\ EndInv' /\ ActiveInv'
  BY <1>1, <1>4, <1>5, <1>6, SamePlace, ServedSync
<1>8. PICK l : wire' = Append(wire, l) /\ l.kind = "tagged" /\ l.res = "OK"
  <2>1. Tagged("OK")
    BY <1>1, <1>2
  <2> QED BY <2>1, TaggedRes DEF Tagged, Say
<1>9. ResInv' /\ DataInv'
  BY <1>1, <1>5, <1>8, SaidRes, SaidData
<1> QED BY <1>7, <1>9 DEF SyncInv

LEMMA SyncServer == Serene /\ Server => SyncInv'
<1> SUFFICES ASSUME Serene, Server PROVE SyncInv'
  OBVIOUS
<1>1. ~OthersExpunge /\ ~OthersFlag
  BY DEF Serene, Obliging, Undisturbed, OthersExpunge, OthersFlag
<1> QED BY <1>1, TakeSync, DeliverSync, AnswerPlainSync, AnswerStoreSync, AnswerExpungeSync,
           AnswerBatchSync DEF Server

-----------------------------------------------------------------------------
(* The flags of the server and of the index agree when the client rests *)

SyncedInv == EditInv /\ (Obliging => SyncInv)

LEMMA SyncedInvStep == SyncedInv /\ [Next]_vars => SyncedInv'
<1> SUFFICES ASSUME SyncedInv, [Next]_vars PROVE SyncedInv'
  OBVIOUS
<1>1. EditInv' /\ world' = world
  BY WorldFixed, EditInvStep DEF SyncedInv
<1>2. Obliging' = Obliging
  BY <1>1 DEF Obliging, Undisturbed
<1>3. ASSUME Obliging PROVE SyncInv'
  <2>1. Serene
    BY <1>3 DEF Serene, SyncedInv, EditInv, Obliging, Undisturbed
  <2>2. CASE Next
    BY <2>1, <2>2, SyncServer, SyncClient DEF Next
  <2>3. CASE UNCHANGED vars
    <3>1. UNCHANGED <<srv, sflags, serving, req, wire, index, reopen, batch, todo, rc, handle>>
      BY <2>3 DEF vars, srvVars, idxVars, mboxVars
    <3>2. SamePhase /\ (Busy' <=> Busy) /\ \A l : At(l)' <=> At(l)
      BY <3>1, StillPhase
    <3>3. GoneInv' /\ DataInv'
      BY <2>1, <3>1 DEF Serene, SyncInv, GoneInv, DataInv
    <3>4. ResInv'
      BY <2>1, <3>1, <3>2 DEF Serene, SyncInv, ResInv, SamePhase, At
    <3>5. QueueInv' /\ FlagInv' /\ EndInv' /\ ActiveInv'
      BY <2>1, <3>1, LookSync
    <3> QED BY <3>3, <3>4, <3>5 DEF SyncInv
  <2> QED BY <2>2, <2>3
<1> QED BY <1>1, <1>2, <1>3 DEF SyncedInv

LEMMA InitSyncedInv == Init => SyncedInv
<1> SUFFICES ASSUME Init PROVE SyncedInv
  OBVIOUS
<1>1. /\ wire = <<>> /\ todo = <<>> /\ batch = <<>> /\ handle = Null /\ serving = NoReq /\ req = NoReq
      /\ sflags = [u \in 1 .. Old |-> Clear]
      /\ index = [u \in 1 .. Old |-> NewEmail(u, Clear)]
  BY DEF Init
<1>2. ~Busy /\ ~Storing /\ ~Ending /\ ~Marked /\ DOMAIN wire = {} /\ DOMAIN batch = {}
  BY <1>1 DEF Busy, Storing, Ending, Marked
<1>3. \A u \in DOMAIN index : /\ index[u].remote = Clear /\ Shown(index[u]) = Clear /\ sflags[u] = Clear
                              /\ index[u].active /\ ~index[u].gone
  BY <1>1, NewLook, ClearIsFlags
<1>4. \A u : Here(u) => u \in DOMAIN index
  BY DEF Here
<1>5. GoneInv /\ ResInv /\ QueueInv
  BY <1>1, <1>2, <1>3 DEF GoneInv, ResInv, QueueInv, Right, NoReq, At
<1>6. FlagInv /\ EndInv
  BY <1>2, <1>3, <1>4 DEF FlagInv, EndInv, Synced
<1>7. ActiveInv /\ DataInv
  BY <1>1, <1>2, <1>3, <1>4 DEF ActiveInv, DataInv, At
<1> QED BY <1>5, <1>6, <1>7, InitEditInv DEF SyncedInv, SyncInv

LEMMA SyncedInvHolds == Spec => []SyncedInv
BY InitSyncedInv, SyncedInvStep, PTL DEF Spec

\* When the client is at rest, an email without local changes shows the flags
\* that the server has, and the flags that the next sync compares with are
\* those of the server, when the other clients of the mailbox only deliver to
\* it, the server lets a FETCH go beyond the last message if the user purges,
\* and it refuses no STORE: imap_sync_mailbox(), imap_set_flags(),
\* imap_read_headers().
THEOREM FlagsSynced == Spec => [](Obliging => SyncedFlags)
<1>1. ASSUME SyncedInv, Obliging PROVE SyncedFlags
  <2> SUFFICES ASSUME ~Busy, NEW u \in DOMAIN index, u \in ToSet(srv)
               PROVE  /\ ~index[u].changed => Shown(index[u]) = sflags[u]
                      /\ index[u].remote = sflags[u]
    BY DEF SyncedFlags
  <2>1. Here(u)
    BY DEF Here, ToSet
  <2>2. ~Storing /\ ~Ending
    BY RestPhase
  <2>3. u \in Uid
    <3>1. DOMAIN index \subseteq Uid
      BY <1>1 DEF SyncedInv, EditInv, Obliging, Undisturbed, Inv, TypesInv, IndexTypes
    <3> QED BY <3>1
  <2>4. Synced(u)
    BY <1>1, <2>1, <2>2, <2>3 DEF SyncedInv, SyncInv, FlagInv
  <2> QED BY <2>4 DEF Synced
<1> QED BY <1>1, SyncedInvHolds, PTL

\* A message that the server removes is one whose flags have reached it.
LEMMA UndeletedStep == SyncedInv /\ Obliging /\ [Next]_vars =>
    (AnswerExpunge => \A u \in ToSet(srv) \ ToSet(srv') : u \in DOMAIN index => index[u].deleted)
<1> SUFFICES ASSUME SyncedInv, Obliging, AnswerExpunge,
                    NEW u \in ToSet(srv) \ ToSet(srv'), u \in DOMAIN index
             PROVE  index[u].deleted
  OBVIOUS
<1>1. /\ serving.kind = "STORE" /\ serving.cmds = <<>> /\ serving.expunge
  BY DEF AnswerExpunge, Serving
<1>2. Serene
  BY DEF Serene, SyncedInv, EditInv, Obliging, Undisturbed
<1>3. PICK i \in DOMAIN srv : sflags[srv[i]].deleted /\ srv' = RemoveAt(srv, i)
  BY DEF AnswerExpunge, Removed
<1>4. srv[i] = u
  <2>1. srv \in Seq(Uid)
    BY <1>2 DEF Serene, Inv, TypesInv, WireTypes
  <2>2. PICK n \in Nat : n = Len(srv) /\ DOMAIN srv = 1 .. n
    BY <2>1, LenProperties
  <2>3. /\ srv' \in Seq(Uid) /\ Len(srv') = n - 1
        /\ \A j \in 1 .. n - 1 : srv'[j] = IF j < i THEN srv[j] ELSE srv[j + 1]
    BY <1>3, <2>1, <2>2, Removal
  <2>4. DOMAIN srv' = 1 .. n - 1
    BY <2>3, LenProperties
  <2>5. PICK p \in DOMAIN srv : srv[p] = u
    BY DEF ToSet
  <2>6. CASE p < i
    <3>1. p \in DOMAIN srv' /\ srv'[p] = u
      BY <2>2, <2>3, <2>4, <2>5, <2>6
    <3> QED BY <3>1 DEF ToSet
  <2>7. CASE p > i
    <3>1. p - 1 \in 1 .. n - 1 /\ ~(p - 1 < i) /\ (p - 1) + 1 = p
      BY <2>2, <2>7
    <3>2. p - 1 \in DOMAIN srv' /\ srv'[p - 1] = u
      BY <2>3, <2>4, <2>5, <3>1
    <3> QED BY <3>2 DEF ToSet
  <2> QED BY <2>2, <2>5, <2>6, <2>7
<1>5. Here(u) /\ u \in Uid
  BY <1>2, <1>4 DEF Here, Serene, Inv, TypesInv, IndexTypes
<1>6. Busy /\ Head(todo) = "wait" /\ Tail(todo) = ToForget
  BY <1>1, <1>2, StoreAwaited DEF Serene, Turn
<1>7. OnItsWay(u)
  BY <1>2, <1>5, <1>6 DEF Ending, Serene, SyncInv, FlagInv
<1>8. \A g : ~Queued(u, g)
  <2>1. batch = <<>>
    BY <1>2, <1>6, Literals DEF Serene, SyncInv, QueueInv
  <2>2. req.kind = "none"
    BY <1>1, <1>2 DEF Serene, Turn, Idling
  <2> QED BY <1>1, <2>1, <2>2 DEF Queued, Stores, Holds
<1>9. sflags[u]["deleted"] = Shown(index[u])["deleted"]
  BY <1>7, <1>8 DEF OnItsWay
<1> QED BY <1>2, <1>3, <1>4, <1>9, FlagFacts DEF Serene

\* The EXPUNGE of a sync removes no message that the index shows as not
\* deleted, in the same environments (world never changes):
\* imap_sync_mailbox() has stored the flags before it sends one, and what is
\* still in its queue goes with it.
THEOREM UndeletedStay == Spec /\ []Obliging => UndeletedSurvive
BY SyncedInvHolds, UndeletedStep, PTL DEF Spec, UndeletedSurvive
=============================================================================
