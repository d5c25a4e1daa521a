--------------------------------- MODULE Pop ---------------------------------
(***************************************************************************)
(* A POP3 mailbox (pop/pop.c and pop/lib.c under mx.c), and                *)
(* pop_fetch_mail(), which moves the mail of a server to the spool file    *)
(* while the mailbox is not open.                                          *)
(* The server numbers the messages anew in every session, and removes what *)
(* a session has marked when the session ends with QUIT, and only then.    *)
(* The connection may be lost at every command, QUIT included, before or   *)
(* after the server has carried it out.                                    *)
(*                                                                         *)
(* One command is one step, except that logging in with what follows, and  *)
(* the headers of new messages, are fetched in one.  $message_cache_dir is *)
(* not set: texts are kept by the place of the message on the server, and  *)
(* there are no more than POP_CACHE_LEN of them.  Headers are not cached,  *)
(* $pop_last is off, $pop_check_interval has always passed, and the        *)
(* mailbox is not read-only.                                               *)
(***************************************************************************)
EXTENDS MxLocal

CONSTANTS
    Letter,      \* messages that may be delivered, once each
    PopWorlds,   \* what happens besides, by the value of world
    None         \* no text

(***************************************************************************)
(*   user     what the user does besides checking, syncing and closing;    *)
(*            insists: always answers $pop_reconnect with yes              *)
(*   removes  other clients remove messages, when no session is open       *)
(*   refuses  commands the server may answer with -ERR                     *)
(*   letters  bound: how many are delivered                                *)
(***************************************************************************)
ASSUME PopAssumption ==
    PopWorlds \subseteq [user : SUBSET {"read", "delete", "undelete", "fetch", "insist"},
                         removes : BOOLEAN,
                         refuses : SUBSET {"LOGIN", "STAT", "UIDL", "DELE", "QUIT"},
                         letters : Nat]

VARIABLES
    world,       \* one of PopWorlds, chosen at the start
    box,         \* server: the messages, in order
    session,     \* server: the session, with its numbers and its marks
    link,        \* adata->status: "none", "connected", "disconnected"
    cache,       \* adata->cache: place -> the text kept for it, or None
    number,      \* pop_fetch_mail(): the number it is at
    spool,       \* what it has stored
    arrived      \* history: letters delivered so far

netVars == <<box, session, link>>
popVars == <<mxVars, world, netVars, cache, number, spool, arrived>>

Place == 1 .. Cardinality(Letter)
\* refno and place (e->index + 1) count from 1; refno 0 is the -1 of the code.
Entry == [uid : Letter, refno : {0} \cup Place, place : Place, read : BOOLEAN,
          old : BOOLEAN, deleted : BOOLEAN, purge : BOOLEAN, changed : BOOLEAN]

\* Bound: a lost message is marked but not counted, and may be unmarked again
\* and again; msg_deleted goes below zero no further than this.
LowestCount == -1

NoSession == [state |-> "none", list |-> <<>>, marks |-> {}]
Emptied   == [p \in Place |-> None]

-----------------------------------------------------------------------------
(* The server, and the commands sent to it *)

Serves == session.state = "transaction"

Deliver(m) ==
    /\ m \notin arrived /\ Cardinality(arrived) < world.letters
    /\ box' = Append(box, m)
    /\ arrived' = arrived \cup {m}
    /\ UNCHANGED <<mxVars, world, session, link, cache, number, spool>>

OthersRemove(m) ==
    /\ world.removes /\ ~Serves
    /\ box' = AtPlaces(box, {n \in DOMAIN box : box[n] # m})
    /\ UNCHANGED <<mxVars, world, session, link, cache, number, spool, arrived>>

GivesUp ==               \* the server ends a session that idles
    /\ session.state # "none" /\ session' = NoSession
    /\ UNCHANGED <<mxVars, world, box, link, cache, number, spool, arrived>>

\* pop_query() returns 0, -2 and -1.
Answered     == link = "connected" /\ Serves
Refused(cmd) == /\ link = "connected"
                /\ session.state = "authorization" \/ (Serves /\ cmd \in world.refuses)
Lost         == session' = NoSession /\ link' = "disconnected" /\ box' = box

Removes(numbers) ==
    box' = AtPlaces(box, {k \in DOMAIN box : \A n \in numbers : session.list[n] # box[k]})

\* QUIT: carried out; refused, with some marks carried out and some not.
Quits       == Removes(session.marks) /\ session' = NoSession
QuitRefused == /\ "QUIT" \in world.refuses /\ session.marks # {}
               /\ \E some \in SUBSET session.marks : Removes(some)
               /\ session' = NoSession

\* pop_logout(): whatever the answer, the session is over.
Logout == /\ session' = NoSession
          /\ \/ box' = box /\ (session.marks # {} => link = "connected")
             \/ link = "connected" /\ session.marks # {} /\ (Quits \/ QuitRefused)

\* pop_open_connection()
Login       == link' = "connected" /\ box' = box
               /\ session' = [state |-> "transaction", list |-> box, marks |-> {}]
LoginFails  == Lost \/ (session' = NoSession /\ link' = "none" /\ box' = box)
AuthRefused == /\ "LOGIN" \in world.refuses
               /\ link' = "connected" /\ box' = box
               /\ session' = [NoSession EXCEPT !.state = "authorization"]
StatRefused == "STAT" \in world.refuses /\ Login

-----------------------------------------------------------------------------
(* Numbers *)

NumberIn(list, u) == IF u \in ToSet(list) THEN CHOOSE n \in DOMAIN list : list[n] = u ELSE 0

\* Mutation: the numbers of the last session are kept.
OldNumbers(v, list) == v

\* pop_reconnect() with check_uidl()
Verified(v, list) == [i \in DOMAIN v |-> [v[i] EXCEPT !.refno = NumberIn(list, v[i].uid)]]

\* Mutation: a message that is not listed keeps its number.
NumberedIfListed(v, list) ==
    [i \in DOMAIN v |-> LET n == NumberIn(list, v[i].uid)
                        IN  IF n = 0 THEN v[i] ELSE [v[i] EXCEPT !.refno = n, !.place = n]]

\* pop_fetch_headers() with fetch_uidl()
Numbered(v, list) ==
    [i \in DOMAIN v |-> LET n == NumberIn(list, v[i].uid)
                        IN  [v[i] EXCEPT !.refno = n, !.place = IF n = 0 THEN @ ELSE n]]

\* clear_cache: a message is at another place than before.
Moved(v, list) == \E i \in DOMAIN v : NumberIn(list, v[i].uid) \notin {0, v[i].place}

LostMarked(v) == [i \in DOMAIN v |-> IF v[i].refno = 0 THEN [v[i] EXCEPT !.deleted = TRUE] ELSE v[i]]

Unknown(v, list) ==
    LET new == AtPlaces(list, {n \in DOMAIN list : \A i \in DOMAIN v : v[i].uid # list[n]})
    IN  [i \in DOMAIN new |-> LET n == NumberIn(list, new[i]) IN
            [uid |-> new[i], refno |-> n, place |-> n, read |-> FALSE, old |-> FALSE,
             deleted |-> FALSE, purge |-> FALSE, changed |-> FALSE]]

-----------------------------------------------------------------------------
(* pop_mbox_open(), pop_reconnect() *)

Kept == UNCHANGED <<world, number, spool, arrived>>

Open ==
    /\ mpc = "closed"
    /\ Login /\ mpc' = "uidl"
    /\ Kept /\ UNCHANGED <<indexVars, callVars, cache>>

\* mx_fastclose_mailbox() with pop_mbox_close()
Shut == FastClose /\ link' = "none" /\ cache' = Emptied

\* Mutation: the marks set before are taken for granted.
ResumeWhereLost == mpc' = "reconnect" /\ UNCHANGED callVars

\* Whoever lost the connection begins anew when there is another.
Again == /\ mpc' = "reconnect"
         /\ pos' = IF task \in {"sync", "close"} THEN 1 ELSE pos
         /\ UNCHANGED <<task, purge, status>>

Proceed == mpc' = CASE task = "none" -> "uidl" [] task = "read" -> "retr" [] OTHER -> "save"

StillConnected ==
    /\ mpc = "reconnect" /\ link = "connected"
    /\ Proceed
    /\ Kept /\ UNCHANGED <<indexVars, callVars, netVars, cache>>

Reconnect ==             \* "Verifying message indexes..."
    /\ mpc = "reconnect" /\ link # "connected"
    /\ Login
    /\ index' = Verified(index, box)
    /\ Proceed
    /\ Kept /\ UNCHANGED <<mchanged, msgDeleted, callVars, cache>>

\* Something is refused, or the connection is lost again: before the numbers
\* are reset or amid the new ones.  The user is asked only when it is lost.
GivesUpReconnecting == "insist" \notin world.user \/ world.refuses # {}

ReconnectFails ==
    /\ mpc = "reconnect" /\ link # "connected" /\ GivesUpReconnecting
    /\ session' = NoSession /\ box' = box
    /\ IF task = "none" THEN Shut
       ELSE /\ \/ index' = index
               \/ \E k \in 0 .. Len(box) : index' = Verified(index, SubSeq(box, 1, k))
            /\ Idle /\ link' = "disconnected"
            /\ UNCHANGED <<mchanged, msgDeleted, cache>>
    /\ Kept

-----------------------------------------------------------------------------
(* pop_mbox_check(), pop_fetch_headers() *)

StartCheck == BeginCheck /\ Kept /\ UNCHANGED <<netVars, cache>>

CheckLogout ==
    /\ mpc = "stat" /\ task = "check"
    /\ Logout /\ link' = "disconnected"
    /\ mpc' = "connect"
    /\ Kept /\ UNCHANGED <<indexVars, callVars, cache>>

CheckConnect ==
    /\ mpc = "connect"
    /\ \/ Login /\ mpc' = "uidl" /\ UNCHANGED callVars
       \/ (LoginFails \/ AuthRefused \/ StatRefused) /\ Idle
    /\ Kept /\ UNCHANGED <<indexVars, cache>>

\* pop_clear_cache() of a check
CacheAfter(clear) == cache' = IF task = "check" /\ clear THEN Emptied ELSE cache

\* An opened mailbox and one with new messages are counted.
Counted == IF task = "none" \/ Len(index') > Len(index) THEN Recounted(index')
           ELSE UNCHANGED <<mchanged, msgDeleted>>

FetchHeaders ==
    /\ mpc = "uidl" /\ Answered
    /\ index' = LostMarked(Numbered(index, session.list)) \o Unknown(index, session.list)
    /\ CacheAfter(Moved(index, session.list))
    /\ Counted /\ Idle
    /\ Kept /\ UNCHANGED netVars

\* The list breaks off, or the headers of the new messages do.
FetchBreaks ==
    /\ mpc = "uidl" /\ Lost
    /\ \E known \in (IF Serves THEN {SubSeq(session.list, 1, k) : k \in 0 .. Len(session.list)}
                     ELSE {<<>>}) :
         /\ CacheAfter(Moved(index, known))
         /\ \/ index' = Numbered(index, known)
            \/ /\ Serves /\ known = session.list
               /\ LET new == Unknown(index, known) IN
                  \E k \in 0 .. Len(new) - 1 :
                     index' = LostMarked(Numbered(index, known)) \o SubSeq(new, 1, k)
    /\ IF task = "none" THEN Again /\ UNCHANGED <<mchanged, msgDeleted>> ELSE Counted /\ Idle
    /\ Kept

\* No message has a number then, and the connection stays.
UidlRefused ==
    /\ mpc = "uidl" /\ Refused("UIDL")
    /\ IF task = "none"
       THEN Shut /\ Logout
       ELSE /\ index' = Numbered(index, <<>>)
            /\ Idle
            /\ UNCHANGED <<mchanged, msgDeleted, netVars, cache>>
    /\ Kept

-----------------------------------------------------------------------------
(* The user *)

User ==
    /\ \/ \E i \in DOMAIN index :
             \/ "read" \in world.user /\ SetRead(i)
             \/ "delete" \in world.user /\ SetDeleted(i, TRUE, FALSE)
             \/ /\ "undelete" \in world.user /\ msgDeleted > LowestCount
                /\ SetDeleted(i, FALSE, FALSE)
       \/ \E answer \in {TRUE} \cup (IF "undelete" \in world.user THEN {FALSE} ELSE {}) :
             BeginSync(answer) \/ BeginClose(answer)
    /\ Kept /\ UNCHANGED <<netVars, cache>>

Leave ==                 \* nothing to sync, or the user exits without it
    /\ mpc = "idle"
    /\ Shut /\ Logout
    /\ Kept

Die ==
    /\ mpc # "closed"
    /\ Shut /\ session' = NoSession /\ box' = box
    /\ number' = 0
    /\ UNCHANGED <<world, spool, arrived>>

-----------------------------------------------------------------------------
(* pop_msg_open() *)

\* A text that is kept is shown as it is; otherwise the message is fetched.
Read(i) ==
    /\ "read" \in world.user
    /\ mpc = "idle" /\ i \in DOMAIN index /\ cache[index[i].place] = None
    /\ mpc' = "reconnect" /\ task' = "read" /\ pos' = i
    /\ Kept /\ UNCHANGED <<indexVars, purge, status, netVars, cache>>

Retrieve ==
    /\ mpc = "retr" /\ This.refno # 0
    /\ Answered /\ This.refno \in DOMAIN session.list /\ This.refno \notin session.marks
    /\ cache' = [cache EXCEPT ![This.place] = session.list[This.refno]]
    /\ Idle
    /\ Kept /\ UNCHANGED <<indexVars, netVars>>

RetrieveLost ==
    /\ mpc = "retr" /\ This.refno # 0
    /\ Lost /\ Again
    /\ Kept /\ UNCHANGED <<indexVars, cache>>

\* "The message index is incorrect", the server says -ERR, or the disk is full.
NotRetrieved ==
    /\ mpc = "retr" /\ Idle
    /\ Kept /\ UNCHANGED <<indexVars, netVars, cache>>

-----------------------------------------------------------------------------
(* pop_mbox_sync() *)

StartSync ==
    /\ mpc = "stat" /\ task \in {"sync", "close"}
    /\ mpc' = "reconnect" /\ pos' = 1 /\ UNCHANGED <<task, purge, status>>
    /\ Kept /\ UNCHANGED <<indexVars, netVars, cache>>

ToDelete == This.deleted /\ This.refno # 0

Dele ==
    /\ At("save") /\ ToDelete
    /\ Answered /\ This.refno \in DOMAIN session.list /\ This.refno \notin session.marks
    /\ session' = [session EXCEPT !.marks = @ \cup {This.refno}]
    /\ NextMessage
    /\ Kept /\ UNCHANGED <<indexVars, box, link, cache>>

SkipMessage ==
    /\ At("save") /\ ~ToDelete
    /\ NextMessage
    /\ Kept /\ UNCHANGED <<indexVars, netVars, cache>>

SyncLost ==              \* at a DELE or at QUIT, which may have been carried out
    /\ mpc = "save" /\ (At("save") => ToDelete)
    /\ \/ Lost
       \/ ~At("save") /\ Answered /\ Quits /\ link' = "disconnected"
    /\ Again
    /\ Kept /\ UNCHANGED <<indexVars, cache>>

\* Marked twice in this session, not a number of it, or not permitted.
DeleRefused ==
    /\ At("save") /\ ToDelete
    /\ \/ Refused("DELE")
       \/ Answered /\ (This.refno \in session.marks \/ This.refno \notin DOMAIN session.list)
    /\ SyncFails
    /\ Kept /\ UNCHANGED <<netVars, cache>>

\* Mutation: the texts stay.
CacheStays == cache' = cache

CacheCleared == cache' = Emptied

SyncEnds ==
    /\ mpc = "save" /\ pos > Len(index) /\ Answered
    /\ Quits
    /\ IF Closes THEN Shut
       ELSE /\ Idle /\ link' = "disconnected" /\ CacheCleared
            /\ TablesUpdated
    /\ Kept

SyncNotEnded ==          \* QUIT is refused: the connection is closed unnoticed
    /\ mpc = "save" /\ pos > Len(index) /\ Answered
    /\ QuitRefused
    /\ SyncFails
    /\ Kept /\ UNCHANGED <<link, cache>>

-----------------------------------------------------------------------------
(* pop_fetch_mail() *)

FetchMail(answer) ==     \* the answer to "Delete messages from server?"
    /\ mpc = "closed" /\ "fetch" \in world.user
    /\ Login
    /\ mpc' = "fetch" /\ number' = 1 /\ purge' = answer
    /\ UNCHANGED <<indexVars, task, pos, status, world, cache, spool, arrived>>

FetchVars == UNCHANGED <<indexVars, task, purge, pos, status, world, cache, arrived>>

Stored == spool' = spool \cup {session.list[number]}

Fetching == mpc = "fetch" /\ Answered /\ number \in DOMAIN session.list

FetchMessage ==          \* RETR, mx_msg_commit()
    /\ Fetching
    /\ Stored
    /\ IF purge THEN mpc' = "fetchdele" /\ number' = number
       ELSE mpc' = mpc /\ number' = number + 1
    /\ FetchVars /\ UNCHANGED netVars

FetchNotStored ==        \* RSET follows if anything was written, else QUIT
    /\ Fetching
    /\ mpc' \in {"fetchrset", "fetchquit"}
    /\ FetchVars /\ UNCHANGED <<netVars, number, spool>>

FetchDele ==
    /\ mpc = "fetchdele" /\ Answered
    /\ session' = [session EXCEPT !.marks = @ \cup {number}]
    /\ mpc' = "fetch" /\ number' = number + 1
    /\ FetchVars /\ UNCHANGED <<box, link, spool>>

FetchDeleRefused ==
    /\ mpc = "fetchdele" /\ Refused("DELE")
    /\ mpc' = "fetchquit"
    /\ FetchVars /\ UNCHANGED <<netVars, number, spool>>

FetchReset ==
    /\ mpc = "fetchrset" /\ Answered
    /\ session' = [session EXCEPT !.marks = {}]
    /\ mpc' = "fetchquit"
    /\ FetchVars /\ UNCHANGED <<box, link, number, spool>>

FetchEnds ==             \* QUIT, or the connection is lost
    /\ mpc \in {"fetch", "fetchdele", "fetchrset", "fetchquit"}
    /\ \/ session' = NoSession /\ box' = box
       \/ /\ mpc = "fetchquit" \/ (mpc = "fetch" /\ number > Len(session.list))
          /\ Answered /\ (Quits \/ QuitRefused)
    /\ link' = "none" /\ mpc' = "closed" /\ number' = 0 /\ purge' = FALSE
    /\ UNCHANGED <<indexVars, task, pos, status, world, cache, spool, arrived>>

-----------------------------------------------------------------------------

PopInit ==
    /\ MxInit
    /\ world \in PopWorlds
    /\ box = <<>> /\ session = NoSession /\ link = "none"
    /\ cache = Emptied /\ number = 0 /\ spool = {} /\ arrived = {}

Server == GivesUp \/ \E m \in Letter : Deliver(m) \/ OthersRemove(m)

Reader ==
    \/ Open \/ StillConnected \/ Reconnect \/ ReconnectFails
    \/ StartCheck \/ CheckLogout \/ CheckConnect
    \/ FetchHeaders \/ FetchBreaks \/ UidlRefused
    \/ Retrieve \/ RetrieveLost \/ NotRetrieved \/ \E i \in DOMAIN index : Read(i)

Saver ==
    \/ StartSync \/ Dele \/ SkipMessage \/ SyncLost \/ DeleRefused \/ SyncEnds \/ SyncNotEnded

Fetcher ==
    \/ FetchMessage \/ FetchNotStored \/ FetchDele \/ FetchDeleRefused \/ FetchReset \/ FetchEnds
    \/ \E answer \in BOOLEAN : FetchMail(answer)

PopNext == Server \/ Reader \/ User \/ Leave \/ Die \/ Saver \/ Fetcher

PopSpec == PopInit /\ [][PopNext]_popVars

-----------------------------------------------------------------------------
(* Properties *)

PopTypeOK ==
    /\ MxTypeOK(Entry)
    /\ mpc \in {"closed", "idle", "stat", "connect", "uidl", "reconnect", "retr", "save",
                "fetch", "fetchdele", "fetchrset", "fetchquit"}
    /\ world \in PopWorlds
    /\ box \in Seq(Letter) /\ session.list \in Seq(Letter)
    /\ session.state \in {"none", "authorization", "transaction"}
    /\ session.marks \subseteq DOMAIN session.list
    /\ link \in {"none", "connected", "disconnected"}
    /\ cache \in [Place -> Letter \cup {None}]
    /\ number \in 0 .. Cardinality(Letter) + 1
    /\ spool \subseteq arrived /\ arrived \subseteq Letter

\* A message has the number it has in the session of the server, or none:
\* when the user may ask for anything, and when a message is fetched or
\* deleted, after all the sessions there have been.
NumbersAreOfSession ==
    mpc \in {"idle", "save", "retr"} /\ link = "connected" /\ Serves =>
        \A i \in DOMAIN index :
            LET n == index[i].refno IN
            n # 0 => n \in DOMAIN session.list /\ session.list[n] = index[i].uid

\* What the end of a session of NeoMutt removes from the server is shown as
\* deleted in the index at that moment, or stored in the spool file.
RemovedWereMarked ==
    [][session # NoSession /\ session' = NoSession =>
        \A u \in ToSet(box) \ ToSet(box') :
            \/ u \in spool
            \/ \E i \in DOMAIN index : index[i].uid = u /\ index[i].deleted]_popVars

\* A sync that succeeds leaves no message on the server that it drops from the
\* index: pop_mbox_sync() begins anew after every lost connection.
SyncRemovesMarked ==
    [][SyncEnds => \A i \in DOMAIN index : index[i].deleted => index[i].uid \notin ToSet(box')]_popVars

\* The text kept for the place of a message is its own: "see if we already
\* have the message in our cache in case $message_cache_dir is unset"
\* (pop_msg_open() in pop/pop.c).
CacheIsOfMessage ==
    \A i \in DOMAIN index : cache[index[i].place] \in {None, index[i].uid}
=============================================================================
