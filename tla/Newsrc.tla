------------------------------- MODULE Newsrc -------------------------------
(***************************************************************************)
(* A newsgroup (nntp/nntp.c under mx.c) and the newsrc file that says      *)
(* which of its articles have been read (nntp/newsrc.c), next to another   *)
(* newsreader of the same user.                                            *)
(*                                                                         *)
(* newsrc holds the articles of the group that are read, and whether       *)
(* another group is subscribed, which stands for the rest of the file.     *)
(* Every change of the file is seen in its size or time.  The group itself *)
(* stays subscribed and is never renumbered; NeoMutt has no header cache,  *)
(* so nothing is deleted; $nntp_context is 0 and $nntp_poll has passed.    *)
(***************************************************************************)
EXTENDS MxLocal

CONSTANTS
    MaxArticle,   \* bound: articles are 1..MaxArticle
    NewsWorlds,   \* what happens besides, by the value of world
    None          \* no request

Article == 1 .. MaxArticle

(***************************************************************************)
(*   user    what the user does besides checking, syncing and closing      *)
(*   others  what the other newsreader does to newsrc while nobody has     *)
(*           locked it; "hasty": also between the rename() and the stat()  *)
(*           of NeoMutt; "rename": it replaces the file instead of writing *)
(*           to it; "neomutt": it is NeoMutt, whose locks are read locks   *)
(*   server  what the server does besides answering                        *)
(***************************************************************************)
ASSUME NewsAssumption ==
    /\ MaxArticle \in Nat \ {0}
    /\ NewsWorlds \subseteq
         [user   : SUBSET {"read", "unread", "catchup", "uncatchup", "subscribe", "nowrite"},
          others : SUBSET {"read", "unread", "subscribe", "hasty", "rename", "neomutt"},
          server : SUBSET {"post", "cancel", "expire", "fail"}]

Text == [read : SUBSET Article, sub : BOOLEAN]

VARIABLES
    world,       \* one of NewsWorlds, chosen at the start
    newsrc,      \* the file
    fp,          \* adata->fp_newsrc: "closed", "open", or "stale": replaced since
    old,         \* what a stale handle reads
    seen,        \* adata->size and mtime are those of the file
    text,        \* newsrc_ent and subscribed
    modified,    \* adata->newsrc_modified
    selected,    \* CurrentNewsSrv is set
    range,       \* first_message and last_message
    loaded,      \* last_loaded
    opened,      \* the mailbox is open
    request,     \* what the user has asked for in the list of newsgroups
    articles,    \* server: the articles it has
    posted       \* server: how many have been posted

fileVars   == <<newsrc, fp, old, seen>>
groupVars  == <<text, modified, selected, range, loaded, opened, request>>
serverVars == <<articles, posted>>
newsVars   == <<mxVars, world, fileVars, groupVars, serverVars>>

Entry == [anum : Article, read : BOOLEAN, old : BOOLEAN, deleted : {FALSE}, purge : {FALSE},
          changed : BOOLEAN]

Requests == {"catchup", "uncatchup", "subscribe", "unsubscribe"}
EmptyText == [read |-> {}, sub |-> FALSE]

\* The answer to GROUP.
FirstOnServer == Min(articles \cup {posted + 1})

-----------------------------------------------------------------------------
(* The server and the other newsreader *)

Others == UNCHANGED <<mxVars, world, groupVars>>

Post ==
    /\ "post" \in world.server /\ posted < MaxArticle
    /\ posted' = posted + 1 /\ articles' = articles \cup {posted + 1}
    /\ Others /\ UNCHANGED fileVars

Cancel(a) ==
    /\ "cancel" \in world.server /\ a \in articles
    /\ articles' = articles \ {a}
    /\ Others /\ UNCHANGED <<fileVars, posted>>

Expire ==
    /\ "expire" \in world.server /\ articles # {}
    /\ articles' = articles \ {Min(articles)}
    /\ Others /\ UNCHANGED <<fileVars, posted>>

\* A file that has replaced another is not locked.
MayUpdate ==
    \/ fp = "closed" \/ mpc = "lock"
    \/ mpc = "stamp" /\ "hasty" \in world.others
    \/ "neomutt" \in world.others

Updates(new) ==
    /\ MayUpdate
    /\ newsrc' = new /\ newsrc # new
    /\ seen' = FALSE
    /\ IF fp = "open" /\ {"rename", "neomutt"} \cap world.others # {}
       THEN fp' = "stale" /\ old' = newsrc
       ELSE UNCHANGED <<fp, old>>
    /\ Others /\ UNCHANGED serverVars

OthersRead(a) ==
    "read" \in world.others /\ a \in articles /\ Updates([newsrc EXCEPT !.read = @ \cup {a}])
OthersUnread(a) == "unread" \in world.others /\ Updates([newsrc EXCEPT !.read = @ \ {a}])
OthersSubscribe == "subscribe" \in world.others /\ Updates([newsrc EXCEPT !.sub = ~@])

-----------------------------------------------------------------------------
(* nntp_select_server(), nntp_newsrc_parse(), nntp_newsrc_close() *)

Close == fp' = "closed" /\ old' = EmptyText

OpenNewsrc ==
    /\ mpc = "stat"
    /\ fp' = "open" /\ mpc' = "lock"
    /\ UNCHANGED <<indexVars, callVars, world, newsrc, old, seen, groupVars, serverVars>>

\* Mutation: the file is read once.
SeenOnce == seen \/ selected

Unchanged == seen

NextStep == CASE task = "none" -> "group" [] task = "browse" -> "edit" [] OTHER -> "poll"

LockNewsrc ==
    /\ mpc = "lock"
    /\ IF Unchanged THEN UNCHANGED <<text, modified, seen>>
       ELSE text' = (IF fp = "stale" THEN old ELSE newsrc) /\ modified' = TRUE /\ seen' = TRUE
    /\ selected' = TRUE
    /\ IF selected THEN UNCHANGED range ELSE range' = <<FirstOnServer, posted>>
    /\ mpc' = NextStep
    /\ UNCHANGED <<indexVars, callVars, world, newsrc, fp, old, loaded, opened, request, serverVars>>

Forgotten == /\ text' = EmptyText /\ modified' = FALSE /\ selected' = FALSE /\ seen' = FALSE
             /\ range' = <<0, 0>> /\ loaded' = 0 /\ request' = None /\ opened' = FALSE

LockFails ==             \* "Timeout exceeded while attempting fcntl lock"
    /\ mpc = "lock"
    /\ Close
    /\ CASE task = "none"   -> /\ mpc' = "closed" /\ Forgotten
                               /\ UNCHANGED callVars
         [] task = "browse" -> /\ mpc' = (IF opened THEN "idle" ELSE "closed")
                               /\ task' = "none" /\ request' = None
                               /\ UNCHANGED <<purge, pos, status, text, modified, selected, seen,
                                              range, loaded, opened>>
         [] OTHER           -> Idle /\ UNCHANGED <<groupVars, seen>>
    /\ UNCHANGED <<indexVars, world, newsrc, serverVars>>

-----------------------------------------------------------------------------
(* nntp_mbox_open() *)

Open ==
    /\ mpc = "closed"
    /\ mpc' = IF selected THEN "group" ELSE "stat"
    /\ UNCHANGED <<indexVars, callVars, world, fileVars, groupVars, serverVars>>

SelectGroup ==
    /\ mpc = "group"
    /\ range' = <<FirstOnServer, posted>> /\ loaded' = FirstOnServer - 1
    /\ Close /\ mpc' = "headers"
    /\ UNCHANGED <<indexVars, callVars, world, newsrc, seen, text, modified, selected, opened,
                   request, serverVars>>

\* nntp_fetch_headers() with nntp_article_status()
Fetched(numbers) ==
    LET sorted == SetToSortSeq(numbers, LAMBDA a, b : a < b)
    IN  [i \in DOMAIN sorted |-> [anum |-> sorted[i], read |-> sorted[i] \in text.read,
            old |-> FALSE, deleted |-> FALSE, purge |-> FALSE, changed |-> FALSE]]

Headers ==
    /\ mpc = "headers"
    /\ index' = Fetched(articles \cap (range[1] .. range[2]))
    /\ loaded' = range[2] /\ modified' = FALSE
    /\ opened' = TRUE /\ mpc' = "idle"
    /\ UNCHANGED <<mchanged, msgDeleted, callVars, world, fileVars, text, selected, range, request,
                   serverVars>>

OpenFails ==
    /\ mpc \in {"group", "headers"} /\ "fail" \in world.server
    /\ mpc' = "closed" /\ Close
    /\ UNCHANGED <<indexVars, callVars, world, newsrc, seen, groupVars, serverVars>>

-----------------------------------------------------------------------------
(* check_mailbox() *)

\* Mutation: an article that is no longer read stays read.
Reread(e) == [e EXCEPT !.read = @ \/ e.anum \in text.read]

Reflagged(e) == [e EXCEPT !.read = e.anum \in text.read, !.old = FALSE]

\* The length of the array that check_mailbox() allocates.
Negative == modified /\ loaded - FirstOnServer + 1 < 0

Poll ==
    /\ mpc = "poll" /\ ~Negative
    /\ range' = <<FirstOnServer, posted>>
    /\ IF modified
       THEN /\ index' = [i \in DOMAIN index |->
                            IF index[i].changed THEN index[i] ELSE Reflagged(index[i])]
            /\ Recounted(index') /\ modified' = FALSE /\ status' = "reopened"
       ELSE UNCHANGED <<indexVars, modified, status>>
    /\ mpc' = "fetch"
    /\ UNCHANGED <<task, purge, pos, world, fileVars, text, selected, loaded, opened, request,
                   serverVars>>

PollFails ==
    /\ mpc = "poll" /\ "fail" \in world.server
    /\ Close /\ SyncFails
    /\ UNCHANGED <<world, newsrc, seen, groupVars, serverVars>>

\* Mutation: what could not be fetched counts as loaded.
LoadedAll(new, numbers) == range[2]

LoadedTo(new, numbers) == IF new = numbers THEN range[2] ELSE Max(new \cup {loaded})

\* The headers of all new articles, or of the first of them.
FetchNew ==
    /\ mpc = "fetch"
    /\ LET numbers == articles \cap (loaded + 1 .. range[2]) IN
       \E new \in SUBSET numbers :
          /\ \A a \in new, b \in numbers \ new : a < b
          /\ new # numbers => "fail" \in world.server
          /\ index' = index \o Fetched(new)
          /\ loaded' = IF range[2] > loaded THEN LoadedTo(new, numbers) ELSE loaded
          /\ LET rc == IF status = "reopened" THEN status ELSE IF new # {} THEN "newmail" ELSE "ok"
             IN  /\ IF rc = "ok" THEN UNCHANGED <<mchanged, msgDeleted>> ELSE Recounted(index')
                 /\ IF task = "check" \/ rc # "ok" THEN Close /\ Idle
                    ELSE mpc' = "save" /\ UNCHANGED <<fp, old, callVars>>
    /\ UNCHANGED <<world, newsrc, seen, text, modified, selected, range, opened, request, serverVars>>

-----------------------------------------------------------------------------
(* nntp_mbox_sync(), nntp_newsrc_gen_entries(), nntp_newsrc_update() *)

ReadIn(v)   == {v[i].anum : i \in {j \in DOMAIN v : v[j].read}}
UnreadIn(v) == {v[i].anum : i \in {j \in DOMAIN v : ~v[j].read}}

\* "we mark "missing" entries as read/deleted", but for those between two
\* unread articles, and at the end of the list after one.
Generated(v) ==
    LET unread == {a \in UnreadIn(v) : a >= range[1]}
        runs(a) == \E u \in unread :
            /\ u <= a
            /\ \A r \in ReadIn(v) : ~(u < r /\ r <= a)
            /\ \/ \E w \in unread : w >= a /\ \A r \in ReadIn(v) : ~(a < r /\ r < w)
               \/ \A i \in DOMAIN v : v[i].anum <= a
    IN  {a \in 1 .. loaded : ~runs(a)}

\* update_file(): the handle, and its lock, are those of the file replaced.
Replaced(new) ==
    /\ text' = new
    /\ newsrc' = new /\ old' = newsrc /\ fp' = "stale"
    /\ mpc' = "stamp"

Save ==
    /\ mpc = "save"
    /\ Replaced([text EXCEPT !.read = Generated(index)])
    /\ UNCHANGED <<indexVars, callVars, world, seen, modified, selected, range, loaded, opened,
                   request, serverVars>>

\* stat() of the file of that name, nntp_newsrc_close()
Stamp ==
    /\ mpc = "stamp"
    /\ seen' = TRUE /\ Close
    /\ IF task = "browse"
       THEN /\ mpc' = (IF opened THEN "idle" ELSE "closed")
            /\ task' = "none" /\ request' = None
            /\ UNCHANGED <<indexVars, purge, pos, status, opened>>
       ELSE SyncReturns /\ opened' = ~Closes /\ UNCHANGED request
    /\ UNCHANGED <<world, newsrc, text, modified, selected, range, loaded, serverVars>>

-----------------------------------------------------------------------------
(* The user *)

Marked(v, r) == [i \in DOMAIN v |-> IF v[i].read = r THEN v[i]
                                    ELSE [v[i] EXCEPT !.read = r, !.changed = TRUE]]

SetUnread(i) ==
    /\ mpc = "idle" /\ index[i].read
    /\ index' = [index EXCEPT ![i].read = FALSE, ![i].changed = TRUE]
    /\ mchanged' = TRUE
    /\ UNCHANGED <<msgDeleted, mpc, callVars>>

Marks ==
    /\ \E i \in DOMAIN index : \/ "read" \in world.user /\ SetRead(i)
                               \/ "unread" \in world.user /\ SetUnread(i)
    /\ UNCHANGED <<world, fileVars, groupVars, serverVars>>

\* mutt_newsgroup_catchup() of the open group, from the index, or before it is
\* closed.
Catchup ==
    /\ mpc = "idle" /\ "catchup" \in world.user
    /\ text' = [text EXCEPT !.read = 1 .. range[2]]
    /\ index' = Marked(index, TRUE) /\ mchanged' = (mchanged \/ index' # index)
    /\ UNCHANGED <<msgDeleted, mpc, callVars, world, fileVars, modified, selected, range, loaded,
                   opened, request, serverVars>>

Calls == /\ BeginCheck \/ BeginSync(TRUE) \/ BeginClose(TRUE)
         /\ UNCHANGED <<world, fileVars, groupVars, serverVars>>

Leave ==                 \* nothing to sync, or <toggle-write>
    /\ mpc = "idle"
    /\ "nowrite" \in world.user \/ (~mchanged /\ Aged(index) = index)
    /\ FastClose /\ opened' = FALSE
    /\ UNCHANGED <<world, fileVars, text, modified, selected, range, loaded, request, serverVars>>

\* In the list of newsgroups, with the mailbox open or not.
Browse(what) ==
    /\ mpc = "idle" \/ (mpc = "closed" /\ selected)
    /\ (IF what = "unsubscribe" THEN "subscribe" ELSE what) \in world.user
    /\ request' = what /\ task' = "browse" /\ mpc' = "stat"
    /\ UNCHANGED <<indexVars, purge, pos, status, world, fileVars, text, modified, selected, range,
                   loaded, opened, serverVars>>

Edit ==
    /\ mpc = "edit"
    /\ Replaced(CASE request = "catchup"   -> [text EXCEPT !.read = 1 .. range[2]]
                  [] request = "uncatchup" -> [text EXCEPT !.read = 1 .. range[1] - 1]
                  [] OTHER                 -> [text EXCEPT !.sub = request = "subscribe"])
    /\ IF request \in {"catchup", "uncatchup"}
       THEN /\ index' = Marked(index, request = "catchup")
            /\ mchanged' = (mchanged \/ index' # index)
       ELSE UNCHANGED <<index, mchanged>>
    /\ UNCHANGED <<msgDeleted, callVars, world, seen, modified, selected, range, loaded, opened,
                   request, serverVars>>

Gone ==
    /\ FastClose /\ Close /\ Forgotten
    /\ UNCHANGED <<world, newsrc, serverVars>>

Die == mpc # "closed" /\ Gone

OutOfMemory == mpc = "poll" /\ Negative /\ Gone

-----------------------------------------------------------------------------

NewsInit ==
    /\ MxInit
    /\ world \in NewsWorlds
    /\ newsrc \in {EmptyText, [EmptyText EXCEPT !.read = {1}]}
    /\ fp = "closed" /\ old = EmptyText /\ seen = FALSE
    /\ text = EmptyText /\ modified = FALSE /\ selected = FALSE
    /\ range = <<0, 0>> /\ loaded = 0 /\ opened = FALSE /\ request = None
    /\ articles = {1} /\ posted = 1

Elsewhere ==
    \/ Post \/ Expire \/ OthersSubscribe
    \/ \E a \in Article : Cancel(a) \/ OthersRead(a) \/ OthersUnread(a)

Reader == \/ Open \/ SelectGroup \/ Headers \/ OpenFails
          \/ Poll \/ PollFails \/ FetchNew \/ OutOfMemory
Writer == OpenNewsrc \/ LockNewsrc \/ LockFails \/ Save \/ Stamp \/ Edit
User   == Marks \/ Catchup \/ Calls \/ Leave \/ Die \/ \E what \in Requests : Browse(what)

NewsNext == Elsewhere \/ Reader \/ Writer \/ User

NewsSpec == NewsInit /\ [][NewsNext]_newsVars

-----------------------------------------------------------------------------
(* Properties *)

NewsTypeOK ==
    /\ MxTypeOK(Entry)
    /\ mpc \in {"closed", "group", "headers", "idle", "stat", "lock", "poll", "fetch", "save",
                "edit", "stamp"}
    /\ world \in NewsWorlds
    /\ newsrc \in Text /\ old \in Text /\ text \in Text
    /\ fp \in {"closed", "open", "stale"}
    /\ {seen, modified, selected, opened} \subseteq BOOLEAN
    /\ range \in (0 .. MaxArticle + 1) \X (0 .. MaxArticle) /\ loaded \in 0 .. MaxArticle
    /\ request \in Requests \cup {None}
    /\ articles \subseteq 1 .. posted /\ posted \in Article

NeoMuttWrites == mpc # "stamp" /\ mpc' = "stamp"
UnreadHere(a) == \E i \in DOMAIN index : index[i].anum = a /\ ~index[i].read /\ index[i].changed

\* NeoMutt takes back nothing that stands in newsrc, whoever has written it,
\* unless its user asks for it: "Leave newsrc locked" (check_mailbox()).
MarksKept ==
    [][NeoMuttWrites =>
        /\ newsrc'.sub # newsrc.sub => request \in {"subscribe", "unsubscribe"}
        /\ \A a \in (newsrc.read \ newsrc'.read) \cap articles :
              UnreadHere(a) \/ request = "uncatchup"]_newsVars

\* What a sync writes as read has been read or is not there: "we mark
\* "missing" entries as read/deleted" (nntp_newsrc_gen_entries()), but not
\* what could not be fetched, and not what arrives while it is writing.
UnreadKept ==
    [][mpc = "save" /\ mpc' = "stamp" =>
        \A a \in (newsrc'.read \ newsrc.read) \cap articles : a \in ReadIn(index)]_newsVars

\* As long as nobody has changed the file, the index shows what stands in it,
\* but for marks that are not saved yet and articles that have expired.
MarksShown ==
    mpc = "idle" /\ seen /\ ~modified =>
        \A i \in DOMAIN index :
            ~index[i].changed /\ index[i].anum >= range[1] =>
                (index[i].read <=> index[i].anum \in newsrc.read)

\* The array of check_mailbox() has a length.
LengthFits == mpc = "poll" => ~Negative
=============================================================================
