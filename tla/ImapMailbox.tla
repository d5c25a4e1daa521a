----------------------------- MODULE ImapMailbox -----------------------------
(***************************************************************************)
(* The selected IMAP mailbox: the table that maps message numbers to       *)
(* emails, the index the user sees, and what the server says about both.   *)
(* The client is one thread; todo is what it has still to do before the    *)
(* user is asked again.  The server may speak whenever a command of the    *)
(* client is in progress, and in IDLE all the time; it reports no removal  *)
(* during FETCH (RFC 3501, 7.4.1).                                         *)
(*                                                                         *)
(* deleted is the flag \Deleted; flag stands for each of the other flags.  *)
(* The client reads a line before the server sends the next, except in     *)
(* IDLE.  The connection lasts: ImapSession has the lost ones.             *)
(***************************************************************************)
EXTENDS Naturals, FiniteSets, Sequences, SequencesExt

CONSTANTS
    MaxUid,     \* UIDs are 1..MaxUid
    Old,        \* the first Old of them are in the mailbox from the start
    Scenarios,  \* environments to consider, see Scenario
    MaxWire     \* lines the server sends in IDLE ahead of the client

Uid  == 1 .. MaxUid
Null == 0

(***************************************************************************)
(* user: what the user does besides checking for mail; purge and keep are  *)
(* the two ways to sync.  others: what other clients do.  push: the line   *)
(* that reports a removal.  idle: $imap_idle.  range: of a FETCH beyond    *)
(* the last message the server says BAD, or sends the messages there when  *)
(* it starts, or there when it has sent the others.  refuse: it may say NO *)
(* to a STORE.                                                             *)
(***************************************************************************)
Scenario ==
    [user   : SUBSET {"delete", "flag", "purge", "keep", "read"},
     others : SUBSET {"deliver", "expunge", "flag"},
     push   : {"EXPUNGE", "VANISHED"},
     idle   : BOOLEAN, range : {"bad", "start", "sent"}, refuse : BOOLEAN]

ASSUME MailboxAssumption ==
    /\ MaxUid \in Nat \ {0} /\ Old \in 0 .. MaxUid /\ MaxWire \in Nat \ {0}
    /\ Scenarios \subseteq Scenario

VARIABLES
    world,      \* the scenario, fixed at the start
    srv,        \* server: the UIDs in the mailbox, by message number
    sflags,     \* server: the flags of every message there has been
    serving,    \* server: the command in progress
    req,        \* the command on its way to the server
    wire,       \* lines on their way to the client
    index,      \* m->emails: UID to Email
    msn,        \* mdata->msn: message number to UID, or Null
    hash,       \* UIDs in mdata->uid_hash
    mchanged,   \* m->changed
    reopen,     \* mdata->reopen
    newCount,   \* mdata->new_mail_count
    check,      \* mdata->check_status
    idling,     \* adata->state is IMAP_IDLE
    fetch,      \* msn_begin, msn_end, fetch_msn_end of read_headers_fetch_new()
    batch,      \* STORE commands in the queue
    todo,       \* what the client goes on with
    rc,         \* what the last command returned
    handle,     \* the email imap_msg_open() works on
    told,       \* history: the mailbox as the lines read describe it
    edited      \* history: messages with changes the user made and not synced

srvVars  == <<srv, sflags, serving>>
idxVars  == <<index, msn, hash, mchanged>>
mboxVars == <<reopen, newCount, check>>
vars     == <<world, srvVars, req, wire, idxVars, mboxVars, idling, fetch, batch,
              todo, rc, handle, told, edited>>

Flags == [deleted : BOOLEAN, flag : BOOLEAN]
Email == [deleted : BOOLEAN, flag : BOOLEAN, changed : BOOLEAN, active : BOOLEAN,
          gone : BOOLEAN,         \* e->index is INT_MAX
          msn : 0 .. MaxUid,      \* edata->msn
          remote : Flags]         \* the flags in edata

Clear   == [deleted |-> FALSE, flag |-> FALSE]
Shown(e) == [deleted |-> e.deleted, flag |-> e.flag]
Highest == Len(msn)               \* imap_msn_highest()
Slot(i) == IF i \in DOMAIN msn THEN msn[i] ELSE Null

NewEmail(n, f) ==
    [deleted |-> f.deleted, flag |-> f.flag, changed |-> FALSE, active |-> TRUE,
     gone |-> FALSE, msn |-> n, remote |-> f]

Busy    == todo # <<>>
At(l)   == Busy /\ Head(todo) = l
Then(s) == todo' = s \o Tail(todo)

NoReq == [kind |-> "none"]

-----------------------------------------------------------------------------
(* The server *)

Serving(k) == serving.kind = k
Say(line)  == wire' = Append(wire, line)
Line(kind, n, f) == [kind |-> kind, n |-> n, flags |-> f, box |-> srv', res |-> "OK"]

MaySpeak ==
    \/ Serving("IDLE") /\ Len(wire) < MaxWire
    \/ serving.kind \notin {"none", "IDLE"} /\ wire = <<>>

ToClient == <<idxVars, mboxVars, idling, fetch, batch, todo, rc, handle, told, edited>>

Taken(r) ==
    IF r.kind = "FETCH" /\ world.range = "start" /\ r.end > Len(srv)
    THEN [r EXCEPT !.end = Len(srv)]
    ELSE r

Take ==                    \* the next command, or the DONE before it
    /\ req # NoReq /\ serving.kind \in {"none", "IDLE"}
    /\ serving' = Taken(req) /\ req' = NoReq
    /\ UNCHANGED <<world, srv, sflags, wire, ToClient>>

Deliver ==
    /\ "deliver" \in world.others /\ MaySpeak
    /\ LET u == Cardinality(DOMAIN sflags) + 1 IN
          /\ u \in Uid
          /\ srv' = Append(srv, u)
          /\ sflags' = [v \in DOMAIN sflags \cup {u} |-> IF v = u THEN Clear ELSE sflags[v]]
    /\ Say(Line("EXISTS", Len(srv'), Clear))
    /\ UNCHANGED <<world, serving, req, ToClient>>

Removed(i) ==              \* the server forgets message i and says so
    /\ srv' = RemoveAt(srv, i)
    /\ Say(Line(world.push, IF world.push = "EXPUNGE" THEN i ELSE srv[i], Clear))

OthersExpunge ==
    /\ "expunge" \in world.others /\ MaySpeak /\ ~Serving("FETCH")
    /\ \E i \in DOMAIN srv : Removed(i)
    /\ UNCHANGED <<world, sflags, serving, req, ToClient>>

OthersFlag ==
    /\ "flag" \in world.others /\ MaySpeak
    /\ \E i \in DOMAIN srv :
          /\ sflags' = [sflags EXCEPT ![srv[i]].flag = ~@]
          /\ srv' = srv
          /\ Say(Line("FETCH", i, sflags'[srv[i]]))
    /\ UNCHANGED <<world, serving, req, ToClient>>

Tagged(res) ==
    /\ srv' = srv
    /\ Say([Line("tagged", Null, Clear) EXCEPT !.res = res])
    /\ serving' = NoReq

AnswerPlain ==             \* NOOP, UID FETCH
    /\ serving.kind \in {"NOOP", "UIDFETCH"} /\ wire = <<>>
    /\ Tagged(IF Serving("UIDFETCH") /\ serving.uid \notin ToSet(srv) THEN "NO" ELSE "OK")
    /\ UNCHANGED <<world, sflags, req, ToClient>>

TooFar == world.range = "bad" /\ serving.end > Len(srv)

AnswerFetch ==             \* FETCH begin:end
    /\ Serving("FETCH") /\ wire = <<>>
    /\ \/ /\ serving.begin \in DOMAIN srv /\ serving.begin <= serving.end /\ ~TooFar
          /\ srv' = srv
          /\ Say(Line("DATA", serving.begin, sflags[srv[serving.begin]]))
          /\ serving' = [serving EXCEPT !.begin = @ + 1]
       \/ /\ serving.begin \notin DOMAIN srv \/ serving.begin > serving.end \/ TooFar
          /\ Tagged(IF TooFar THEN "BAD" ELSE "OK")
    /\ UNCHANGED <<world, sflags, req, ToClient>>

AnswerStore ==             \* the first of a batch of UID STORE commands
    /\ Serving("STORE") /\ wire = <<>> /\ serving.cmds # <<>>
    /\ LET c == Head(serving.cmds) IN
       \E ok \in {TRUE} \cup (IF world.refuse THEN {FALSE} ELSE {}) :
          /\ sflags' = IF ok
                       THEN [u \in DOMAIN sflags |->
                                IF u \in c.uids THEN [sflags[u] EXCEPT ![c.flag] = c.on]
                                                ELSE sflags[u]]
                       ELSE sflags
          /\ serving' = [serving EXCEPT !.cmds = Tail(@), !.res = IF ok THEN "OK" ELSE "NO"]
    /\ UNCHANGED <<world, srv, wire, req, ToClient>>

AnswerExpunge ==           \* EXPUNGE at the end of a batch: one line each
    /\ Serving("STORE") /\ wire = <<>> /\ serving.cmds = <<>> /\ serving.expunge
    /\ \E i \in DOMAIN srv : sflags[srv[i]].deleted /\ Removed(i)
    /\ UNCHANGED <<world, sflags, serving, req, ToClient>>

AnswerBatch ==             \* the last completion of the batch
    /\ Serving("STORE") /\ wire = <<>> /\ serving.cmds = <<>>
    /\ serving.expunge => \A i \in DOMAIN srv : ~sflags[srv[i]].deleted
    /\ Tagged(IF serving.expunge THEN "OK" ELSE serving.res)
    /\ UNCHANGED <<world, sflags, req, ToClient>>

Server == Take \/ Deliver \/ OthersExpunge \/ OthersFlag \/ AnswerPlain
          \/ AnswerFetch \/ AnswerStore \/ AnswerExpunge \/ AnswerBatch

-----------------------------------------------------------------------------
(* Untagged lines: cmd_handle_untagged() *)

\* Message i leaves the table and those above move down: what EXPUNGE and
\* VANISHED do to the numbers.
Renumbered(ix, i) ==
    [u \in DOMAIN ix |->
        IF \E j \in i + 1 .. Highest : msn[j] = u THEN [ix[u] EXCEPT !.msn = @ - 1] ELSE ix[u]]

\* Mutant: the email keeps the number of its successor.
GoneKeepsNumber(ix, u) == [ix EXCEPT ![u].gone = TRUE]

Gone(ix, u) == [ix EXCEPT ![u].gone = TRUE, ![u].msn = Null]

ParseExists(n) ==
    IF n > Highest
    THEN reopen' = reopen \cup {"NEWMAIL"} /\ newCount' = n
    ELSE UNCHANGED <<reopen, newCount>>

ParseExpunge(n) ==
    IF n \in DOMAIN msn
    THEN /\ index' = Renumbered(IF msn[n] = Null THEN index ELSE Gone(index, msn[n]), n)
         /\ msn' = RemoveAt(msn, n)
         /\ reopen' = reopen \cup {"EXPUNGE"}
    ELSE UNCHANGED <<index, msn, reopen>>

\* Mutant: takes VANISHED for VANISHED (EARLIER), the numbers stay.
VanishedEarlier(u) ==
    /\ reopen' = reopen \cup {"EXPUNGE"}
    /\ IF u \in hash
       THEN /\ index' = Gone(index, u)
            /\ msn' = [i \in DOMAIN msn |-> IF msn[i] = u THEN Null ELSE msn[i]]
       ELSE UNCHANGED <<index, msn>>

ParseVanished(u) ==
    /\ reopen' = reopen \cup {"EXPUNGE"}
    /\ IF u \in hash /\ u \in DOMAIN index
       THEN LET i == index[u].msn IN
            IF i # Null /\ Slot(i) = u
            THEN /\ index' = Renumbered(Gone(index, u), i)
                 /\ msn' = RemoveAt(msn, i)
            ELSE index' = Gone(index, u) /\ UNCHANGED msn
       ELSE UNCHANGED <<index, msn>>

\* imap_set_flags(): with local changes only edata follows the server.  The
\* old flags the code compares with are those of an empty edata.
Differs(e, f) ==
    {g \in DOMAIN f : f[g] # Shown(e)[g] /\ ~(e.changed /\ ~f[g])}

SetFlags(ix, u, f) ==
    LET sets == ~ix[u].changed /\ Differs(ix[u], f) # {} IN
    [ix EXCEPT ![u].remote = f,
               ![u].deleted = IF sets THEN f.deleted ELSE @,
               ![u].flag = IF sets THEN f.flag ELSE @]

\* imap_msg_open() sees the line after cmd_parse_fetch() and takes any flags
\* in it for those of the email it waits for.
ParseFetch(n, f) ==
    LET u     == Slot(n)
        heeds == u # Null /\ index[u].active
        new   == IF heeds THEN Differs(index[u], f) # {} ELSE FALSE
        ix    == IF heeds THEN SetFlags(index, u, f) ELSE index
    IN  /\ index' = IF At("wait") /\ handle \in DOMAIN ix /\ ~ix[handle].changed
                    THEN SetFlags(ix, handle, f) ELSE ix
        /\ mchanged' = (mchanged \/ \E v \in DOMAIN ix : Shown(index'[v]) # Shown(index[v]))
        /\ reopen' = reopen \cup (IF new /\ index[u].changed THEN {"EXPUNGE"} ELSE {})
        /\ check' = check \cup (IF new /\ ~index[u].changed THEN {"FLAGS"} ELSE {})

\* A message read_headers_fetch_new() asked for, in a free slot.
NewMessage(n, u, f) ==
    /\ msn' = [i \in 1 .. (IF n > Highest THEN n ELSE Highest) |-> IF i = n THEN u ELSE Slot(i)]
    /\ index' = [v \in DOMAIN index \cup {u} |-> IF v = u THEN NewEmail(n, f) ELSE index[v]]
    /\ hash' = hash \cup {u}

Reading  == At("wait") \/ At("fetching") \/ At("poll")
Untagged == Reading /\ wire # <<>> /\ Head(wire).kind # "tagged"

HandleUntagged ==
    /\ Untagged
    /\ LET l == Head(wire) IN
       /\ wire' = Tail(wire)
       /\ told' = l.box
       /\ edited' = edited \cap ToSet(l.box)
       /\ \/ /\ l.kind = "EXISTS" /\ ParseExists(l.n)
             /\ UNCHANGED <<idxVars, check>>
          \/ /\ l.kind = "EXPUNGE" /\ ParseExpunge(l.n)
             /\ UNCHANGED <<hash, mchanged, newCount, check>>
          \/ /\ l.kind = "VANISHED" /\ ParseVanished(l.n)
             /\ UNCHANGED <<hash, mchanged, newCount, check>>
          \/ /\ l.kind = "FETCH" \/ (l.kind = "DATA" /\ Slot(l.n) # Null)
             /\ ParseFetch(l.n, l.flags)
             /\ UNCHANGED <<msn, hash, newCount>>
          \/ /\ l.kind = "DATA" /\ Slot(l.n) = Null
             /\ NewMessage(l.n, l.box[l.n], l.flags)
             /\ UNCHANGED <<mchanged, mboxVars>>
    /\ UNCHANGED <<world, srvVars, req, idling, fetch, batch, todo, rc, handle>>

-----------------------------------------------------------------------------
(* imap_cmd_step() at the end of a command, imap_cmd_finish() *)

Send(cmd) == req' = cmd /\ idling' = (cmd.kind = "IDLE")

Completed ==               \* the queue is drained: imap_cmd_finish() is next
    /\ At("wait") /\ wire # <<>> /\ Head(wire).kind = "tagged"
    /\ rc' = Head(wire).res
    /\ wire' = Tail(wire)
    /\ Then(<<"finish">>)
    /\ UNCHANGED <<world, srvVars, req, idxVars, mboxVars, idling, fetch, batch, handle,
                   told, edited>>

NotAllowed ==              \* no reopen now: what is pending stays pending
    /\ At("finish") /\ "ALLOW" \notin reopen
    /\ Then(<<>>)
    /\ UNCHANGED <<world, srvVars, req, wire, idxVars, mboxVars, idling, fetch, batch, rc,
                   handle, told, edited>>

\* imap_expunge_mailbox() and, notified by it, update_tables(): every email
\* shown as deleted leaves the index, no email stays changed.
Purge ==
    /\ At("finish") /\ {"ALLOW", "EXPUNGE"} \subseteq reopen
    /\ LET gone == {u \in DOMAIN index : index[u].gone}
           kept == {u \in DOMAIN index \ gone : ~index[u].deleted}
           left == {index[u].msn : u \in DOMAIN index \ (gone \cup kept)}
       IN  /\ index' = [u \in kept |-> [index[u] EXCEPT !.active = TRUE, !.changed = FALSE]]
           /\ hash' = hash \ gone
           /\ msn' = [i \in DOMAIN msn |-> IF i \in left THEN Null ELSE msn[i]]
    /\ mchanged' = FALSE
    /\ check' = check \cup (IF "EXPECTED" \in reopen THEN {} ELSE {"EXPUNGE"})
    /\ reopen' = reopen \ {"EXPUNGE", "EXPECTED"}
    /\ UNCHANGED <<world, srvVars, req, wire, newCount, idling, fetch, batch, todo, rc,
                   handle, told, edited>>

NewMail == "NEWMAIL" \in reopen /\ newCount > Highest

ReadHeaders ==             \* imap_read_headers()
    /\ At("finish") /\ "ALLOW" \in reopen /\ "EXPUNGE" \notin reopen /\ NewMail
    /\ check' = check \cup {"NEWMAIL"}
    /\ fetch' = [begin |-> Highest + 1, end |-> newCount, sent |-> 0]
    /\ reopen' = reopen \ {"ALLOW", "NEWMAIL"}
    /\ newCount' = 0
    /\ Then(<<"fetch">>)
    /\ UNCHANGED <<world, srvVars, req, wire, idxVars, idling, batch, rc, handle, told, edited>>

NothingToFetch ==
    /\ At("finish") /\ "ALLOW" \in reopen /\ "EXPUNGE" \notin reopen /\ ~NewMail
    /\ Then(<<>>)
    /\ UNCHANGED <<world, srvVars, req, wire, idxVars, mboxVars, idling, fetch, batch, rc,
                   handle, told, edited>>

More == fetch.sent < fetch.end /\ fetch.begin <= fetch.end

SendFetch ==
    /\ At("fetch") /\ More /\ req = NoReq
    /\ Send([kind |-> "FETCH", begin |-> fetch.begin, end |-> fetch.end])
    /\ fetch' = [fetch EXCEPT !.sent = fetch.end]
    /\ Then(<<"fetching">>)
    /\ UNCHANGED <<world, srvVars, wire, idxVars, mboxVars, batch, rc, handle, told, edited>>

\* Mutant: mail announced during the download is dropped with the flag.
FetchedOnce ==
    /\ At("fetching") /\ wire # <<>> /\ Head(wire).kind = "tagged"
    /\ wire' = Tail(wire)
    /\ fetch' = [fetch EXCEPT !.begin = fetch.sent + 1]
    /\ reopen' = reopen \ {"NEWMAIL"}
    /\ newCount' = 0
    /\ Then(<<"fetch">>)
    /\ UNCHANGED <<world, srvVars, req, idxVars, check, idling, batch, rc, handle, told, edited>>

Fetched ==                 \* the mail that came during the fetch is fetched too
    /\ At("fetching") /\ wire # <<>> /\ Head(wire).kind = "tagged"
    /\ wire' = Tail(wire)
    /\ IF Head(wire).res = "OK"
       THEN /\ fetch' = [fetch EXCEPT !.begin = fetch.sent + 1,
                                      !.end = IF "NEWMAIL" \in reopen THEN newCount ELSE @]
            /\ reopen' = reopen \ {"NEWMAIL"}
            /\ newCount' = IF "NEWMAIL" \in reopen THEN 0 ELSE newCount
            /\ Then(<<"fetch">>)
       ELSE /\ Then(<<"fetched">>)
            /\ UNCHANGED <<fetch, reopen, newCount>>
    /\ UNCHANGED <<world, srvVars, req, idxVars, check, idling, batch, rc, handle, told, edited>>

AllFetched ==              \* only a successful download allows reopening again
    /\ At("fetch") /\ ~More
    /\ reopen' = reopen \cup {"ALLOW"}
    /\ Then(<<"fetched">>)
    /\ UNCHANGED <<world, srvVars, req, wire, idxVars, newCount, check, idling, fetch, batch,
                   rc, handle, told, edited>>

\* imap_cmd_finish() after imap_read_headers(): an EXPUNGE that came during
\* the download is reported, not carried out.
Finished ==
    /\ At("fetched")
    /\ check' = check \cup (IF "EXPUNGE" \in reopen /\ "EXPECTED" \notin reopen
                            THEN {"EXPUNGE"} ELSE {})
    /\ reopen' = IF "EXPUNGE" \in reopen THEN reopen \ {"EXPUNGE", "EXPECTED"} ELSE reopen
    /\ fetch' = [begin |-> 1, end |-> 0, sent |-> 0]
    /\ Then(<<>>)
    /\ UNCHANGED <<world, srvVars, req, wire, idxVars, newCount, idling, batch, rc, handle,
                   told, edited>>

-----------------------------------------------------------------------------
(* imap_mbox_check() *)

Check ==
    /\ ~Busy
    /\ reopen' = reopen \cup {"ALLOW"}
    /\ todo' = <<"probe", "status", "disallow">>
    /\ UNCHANGED <<world, srvVars, req, wire, idxVars, newCount, check, idling, fetch, batch,
                   rc, handle, told, edited>>

\* imap_check_mailbox(): start IDLE, or read what has come in it
Idle ==
    /\ At("probe") /\ world.idle /\ req = NoReq
    /\ \/ Send([kind |-> "IDLE"])
       \/ idling /\ UNCHANGED <<req, idling>>
    /\ Then(<<"poll", "finish">>)
    /\ UNCHANGED <<world, srvVars, wire, idxVars, mboxVars, fetch, batch, rc, handle, told, edited>>

Polled ==
    /\ At("poll") /\ wire = <<>> /\ req = NoReq
    /\ Then(<<>>)
    /\ UNCHANGED <<world, srvVars, req, wire, idxVars, mboxVars, idling, fetch, batch, rc,
                   handle, told, edited>>

Noop ==                    \* $timeout has passed since the last line
    /\ At("probe") /\ ~world.idle
    /\ Send([kind |-> "NOOP"])
    /\ Then(<<"wait", "finish">>)
    /\ UNCHANGED <<world, srvVars, wire, idxVars, mboxVars, fetch, batch, rc, handle, told, edited>>

TooSoon ==
    /\ At("probe") /\ ~world.idle
    /\ Then(<<"finish">>)
    /\ UNCHANGED <<world, srvVars, req, wire, idxVars, mboxVars, idling, fetch, batch, rc,
                   handle, told, edited>>

Status ==
    /\ At("status")
    /\ check' = {}
    /\ rc' = IF "EXPUNGE" \in check THEN "REOPENED"
             ELSE IF "NEWMAIL" \in check THEN "NEW_MAIL"
             ELSE IF "FLAGS" \in check THEN "FLAGS" ELSE "OK"
    /\ Then(<<>>)
    /\ UNCHANGED <<world, srvVars, req, wire, idxVars, reopen, newCount, idling, fetch, batch,
                   handle, told, edited>>

\* Mutant: new mail sends NT_MAILBOX_UPDATE, which is for purged mailboxes.
DisallowUpdates ==
    /\ At("disallow")
    /\ reopen' = reopen \ {"ALLOW"}
    /\ mchanged' = (mchanged /\ rc \notin {"REOPENED", "NEW_MAIL"})
    /\ index' = IF rc \in {"REOPENED", "NEW_MAIL"}
                THEN [u \in DOMAIN index |-> [index[u] EXCEPT !.changed = FALSE]]
                ELSE index
    /\ Then(<<>>)
    /\ UNCHANGED <<world, srvVars, req, wire, msn, hash, newCount, check, idling, fetch,
                   batch, rc, handle, told, edited>>

Disallow ==                \* then mview_update() counts the changed emails
    /\ At("disallow")
    /\ reopen' = reopen \ {"ALLOW"}
    /\ mchanged' = IF rc \in {"REOPENED", "NEW_MAIL"}
                   THEN \E u \in DOMAIN index : index[u].changed
                   ELSE mchanged
    /\ Then(<<>>)
    /\ UNCHANGED <<world, srvVars, req, wire, index, msn, hash, newCount, check, idling, fetch,
                   batch, rc, handle, told, edited>>

-----------------------------------------------------------------------------
(* imap_sync_mailbox(), as mx_mbox_sync() calls it *)

\* "Purge deleted messages?" is asked when there are some; purge defaults to yes.
Sync ==
    /\ ~Busy
    /\ LET deleted == \E u \in DOMAIN index : index[u].deleted IN
       \E purge \in BOOLEAN :
          /\ (IF purge THEN "purge" ELSE "keep") \in world.user
          /\ mchanged \/ (purge /\ deleted)
          /\ todo' = <<"probe", "status">> \o (IF purge THEN <<"mark", "purge">> ELSE <<"collect">>)
    /\ reopen' = reopen \cup {"ALLOW"}
    /\ UNCHANGED <<world, srvVars, req, wire, idxVars, newCount, check, idling, fetch, batch,
                   rc, handle, told, edited>>

\* select_email_uids(): the flag is to be set (on) or cleared on the server
Differing(flag, on) ==
    {u \in DOMAIN index : LET e == index[u] IN
        /\ e.changed /\ e.active /\ ~e.gone
        /\ e.remote[flag] # Shown(e)[flag] /\ Shown(e)[flag] = on}

Store(flag, on) ==         \* imap_exec_msg_set() queues a command, or none
    LET us == Differing(flag, on) IN
    IF us = {} THEN <<>> ELSE <<[flag |-> flag, on |-> on, uids |-> us]>>

MarkDeleted ==             \* deletions first; sync_helper() will not see them
    /\ At("mark")
    /\ batch' = Store("deleted", TRUE)
    /\ index' = IF batch' = <<>> THEN index
                ELSE [u \in DOMAIN index |->
                         [index[u] EXCEPT !.active = @ /\ ~(index[u].deleted /\ index[u].changed)]]
    /\ Then(<<"collect">>)
    /\ UNCHANGED <<world, srvVars, req, wire, msn, hash, mchanged, mboxVars, idling, fetch, rc,
                   handle, told, edited>>

\* Mutant: flags the user cleared are not cleared on the server.
OnlySets == Store("deleted", TRUE) \o Store("flag", TRUE)

Changes == Store("deleted", TRUE) \o Store("deleted", FALSE)
           \o Store("flag", TRUE) \o Store("flag", FALSE)

Collect ==                 \* sync_helper() for each flag, then flush the queue
    /\ At("collect") /\ req = NoReq
    /\ IF Changes = <<>>
       THEN rc' = "OK" /\ Then(<<"stored">>) /\ UNCHANGED <<req, idling, batch>>
       ELSE /\ req' = [kind |-> "STORE", cmds |-> batch \o Changes, expunge |-> FALSE,
                       res |-> "OK"]
            /\ idling' = FALSE
            /\ batch' = <<>>
            /\ Then(<<"wait", "stored">>)
            /\ UNCHANGED rc
    /\ UNCHANGED <<world, srvVars, wire, idxVars, mboxVars, fetch, handle, told, edited>>

Stored ==                  \* "Update local record of server state"
    /\ At("stored") /\ rc = "OK"
    /\ index' = [u \in DOMAIN index |->
                    [index[u] EXCEPT !.remote = Shown(index[u]), !.changed = FALSE]]
    /\ mchanged' = FALSE
    /\ edited' = {}
    /\ Then(<<>>)
    /\ UNCHANGED <<world, srvVars, req, wire, msn, hash, mboxVars, idling, fetch, batch, rc,
                   handle, told>>

StoreFailed ==             \* "Error saving flags": the sync ends here
    /\ At("stored") /\ rc # "OK"
    /\ todo' = <<>>
    /\ UNCHANGED <<world, srvVars, req, wire, idxVars, mboxVars, idling, fetch, batch, rc,
                   handle, told, edited>>

SendExpunge ==             \* what is still in the queue goes with it
    /\ At("purge") /\ req = NoReq
    /\ reopen' = reopen \cup {"EXPECTED"}
    /\ Send([kind |-> "STORE", cmds |-> batch, expunge |-> TRUE, res |-> "OK"])
    /\ batch' = <<>>
    /\ Then(<<"wait", "expunged">>)
    /\ UNCHANGED <<world, srvVars, wire, idxVars, newCount, check, fetch, rc, handle, told, edited>>

Expunged ==
    /\ At("expunged")
    /\ reopen' = reopen \ {"EXPECTED"}
    /\ Then(<<>>)
    /\ UNCHANGED <<world, srvVars, req, wire, idxVars, newCount, check, idling, fetch, batch,
                   rc, handle, told, edited>>

-----------------------------------------------------------------------------
(* The user *)

Edit ==                    \* mutt_set_flag()
    /\ ~Busy
    /\ \E u \in DOMAIN index :
          /\ \/ /\ "delete" \in world.user
                /\ index' = [index EXCEPT ![u].deleted = ~@, ![u].changed = TRUE]
             \/ /\ "flag" \in world.user
                /\ index' = [index EXCEPT ![u].flag = ~@, ![u].changed = TRUE]
          /\ edited' = edited \cup ({u} \cap ToSet(told))
    /\ mchanged' = TRUE
    /\ UNCHANGED <<world, srvVars, req, wire, msn, hash, mboxVars, idling, fetch, batch, todo,
                   rc, handle, told>>

MsgOpen ==                 \* imap_msg_open() of a message that is not cached
    /\ ~Busy /\ "read" \in world.user /\ req = NoReq
    /\ \E u \in DOMAIN index :
          /\ index' = [index EXCEPT ![u].active = FALSE]
          /\ Send([kind |-> "UIDFETCH", uid |-> u])
          /\ handle' = u
    /\ todo' = <<"wait", "opened">>
    /\ UNCHANGED <<world, srvVars, wire, msn, hash, mchanged, mboxVars, fetch, batch, rc, told,
                   edited>>

MsgOpened ==
    /\ At("opened")
    /\ index' = [u \in DOMAIN index |->
                    IF u = handle THEN [index[u] EXCEPT !.active = TRUE] ELSE index[u]]
    /\ handle' = Null
    /\ Then(<<>>)
    /\ UNCHANGED <<world, srvVars, req, wire, msn, hash, mchanged, mboxVars, idling, fetch,
                   batch, rc, told, edited>>

-----------------------------------------------------------------------------
Init ==                    \* the mailbox has been opened
    LET open == 1 .. Old IN
    /\ world \in Scenarios
    /\ srv = [i \in open |-> i] /\ told = srv /\ msn = srv
    /\ sflags = [u \in open |-> Clear]
    /\ serving = NoReq /\ req = NoReq /\ wire = <<>>
    /\ index = [u \in open |-> NewEmail(u, Clear)]
    /\ hash = open /\ mchanged = FALSE
    /\ reopen = {"ALLOW"} /\ newCount = 0 /\ check = {}
    /\ idling = FALSE /\ fetch = [begin |-> 1, end |-> 0, sent |-> 0]
    /\ batch = <<>> /\ todo = <<>> /\ rc = "OK" /\ handle = Null /\ edited = {}

Client == HandleUntagged \/ Completed \/ NotAllowed \/ Purge \/ ReadHeaders \/ NothingToFetch
          \/ SendFetch \/ Fetched \/ AllFetched \/ Finished \/ Idle \/ Polled \/ Noop \/ TooSoon
          \/ Status \/ Disallow \/ MarkDeleted \/ Collect \/ Stored \/ StoreFailed
          \/ SendExpunge \/ Expunged \/ MsgOpened

User == Check \/ Sync \/ Edit \/ MsgOpen

Next == Server \/ Client \/ User

Spec == Init /\ [][Next]_vars

\* The client goes on while it has something to do, the server does not keep
\* it waiting with other news for ever, the index asks for new mail again and
\* again, and now and then $timeout has passed when it does.
Fairness ==
    /\ WF_vars(Client)
    /\ SF_vars(Take \/ AnswerPlain \/ AnswerFetch \/ AnswerStore \/ AnswerExpunge \/ AnswerBatch)
    /\ SF_vars(Check)
    /\ SF_vars(Noop)

LiveSpec == Spec /\ Fairness

-----------------------------------------------------------------------------
TypeOK ==
    /\ world \in Scenarios
    /\ srv \in Seq(Uid) /\ told \in Seq(Uid) /\ edited \subseteq Uid
    /\ DOMAIN sflags \subseteq Uid /\ \A u \in DOMAIN sflags : sflags[u] \in Flags
    /\ {serving.kind, req.kind} \subseteq {"none", "NOOP", "IDLE", "FETCH", "STORE", "UIDFETCH"}
    /\ \A i \in DOMAIN wire : wire[i].kind \in
          {"EXISTS", "EXPUNGE", "VANISHED", "FETCH", "DATA", "tagged"}
    /\ DOMAIN index \subseteq Uid /\ \A u \in DOMAIN index : index[u] \in Email
    /\ msn \in Seq(Uid \cup {Null}) /\ hash \subseteq Uid /\ mchanged \in BOOLEAN
    /\ reopen \subseteq {"ALLOW", "EXPUNGE", "EXPECTED", "NEWMAIL"}
    /\ newCount \in 0 .. MaxUid /\ check \subseteq {"EXPUNGE", "NEWMAIL", "FLAGS"}
    /\ idling \in BOOLEAN /\ fetch \in [{"begin", "end", "sent"} -> 0 .. MaxUid + 1]
    /\ Len(batch) <= 1 /\ Len(todo) <= 6 /\ handle \in Uid \cup {Null}

\* The number the client has for a message is the number the server means by
\* it after the lines read so far: cmd_parse_expunge(), cmd_parse_vanished(),
\* imap_read_headers() and update_tables() keep mdata->msn in step.
NumbersAgree ==
    \A i \in DOMAIN msn : msn[i] # Null => i \in DOMAIN told /\ told[i] = msn[i]

\* mdata->msn and edata->msn tell the same story about the emails of the index,
\* and the table points at no email that has left it.
NumbersMatch ==
    /\ \A i \in DOMAIN msn : msn[i] # Null => msn[i] \in DOMAIN index /\ index[msn[i]].msn = i
    /\ \A u \in DOMAIN index : index[u].msn # Null => Slot(index[u].msn) = u
    /\ \A u \in DOMAIN index : index[u].gone => index[u].msn = Null

\* And so does uid_hash, from which an email must go with the index:
\* imap_expunge_mailbox(), update_tables().
TableMatchesIndex == NumbersMatch /\ hash = DOMAIN index

\* An EXPUNGE of imap_sync_mailbox() removes no message the index shows as
\* not deleted.
UndeletedSurvive ==
    [][AnswerExpunge => \A u \in ToSet(srv) \ ToSet(srv') :
                            u \in DOMAIN index => index[u].deleted]_vars

\* At rest, an email without local changes shows the flags the server has,
\* and so do the flags edata remembers: the next sync compares with them.
SyncedFlags ==
    ~Busy /\ wire = <<>> =>
        \A u \in DOMAIN index : u \in ToSet(srv) =>
            /\ ~index[u].changed => Shown(index[u]) = sflags[u]
            /\ index[u].remote = sflags[u]

\* What the user changed stays changed until it is synced, unless the message
\* is gone on the server: "Local changes have priority".
LocalChangesKept ==
    \A u \in edited : u \in DOMAIN index /\ index[u].changed

\* imap_msg_open() goes on with the email after it has waited for the server.
\* "Must not be done while something has a handle on any headers": an EXPUNGE
\* handled meanwhile does not remove it.
HandleStays == handle = Null \/ handle \in DOMAIN index

\* A message in the mailbox appears in the index or leaves the mailbox.  The
\* exceptions need removals: a FETCH beyond what is then the last message, of
\* which the server does not send what comes meanwhile, and a removal reported
\* in IDLE while the FETCH is on its way.
Renumbers ==
    \/ "expunge" \in world.others /\ world.idle
    \/ ("expunge" \in world.others \/ "purge" \in world.user) /\ world.range # "sent"

NewMailShown ==
    \A u \in Uid : u \in ToSet(srv) /\ ~Renumbers
                      ~> u \in DOMAIN index \/ u \notin ToSet(srv)
=============================================================================
