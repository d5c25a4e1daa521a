------------------------------ MODULE MxLocal ------------------------------
(***************************************************************************)
(* What mx.c, mview.c and flags.c do with an open mailbox that is a        *)
(* directory of files (Maildir, MH): marking, checking, synchronising and  *)
(* closing it, up to the call of the backend and after it.  The backends   *)
(* extend this module with their files.                                    *)
(*                                                                         *)
(* An entry of index is a record with at least the fields read, old,       *)
(* deleted, purge and changed.  $mark_old is on; $trash, $move and         *)
(* $maildir_trash are off.                                                 *)
(***************************************************************************)
EXTENDS Lists, Integers, FiniteSets, SequencesExt

VARIABLES
    index,       \* m->emails
    mchanged,    \* m->changed
    msgDeleted,  \* m->msg_deleted
    mpc,         \* what NeoMutt does next
    task,        \* the caller: "none", "check", "sync", "close", "read" (Pop) or "browse" (Newsrc)
    purge,       \* the answer to "Purge messages?"
    pos,         \* index of the message a sync is at
    status       \* the result of the check inside a sync

indexVars == <<index, mchanged, msgDeleted>>
callVars  == <<task, purge, pos, status>>
mxVars    == <<indexVars, mpc, callVars>>

AnyEdited(v)    == \E i \in DOMAIN v : v[i].changed
CountDeleted(v) == Cardinality({i \in DOMAIN v : v[i].deleted})

\* NT_MAILBOX_INVALID: mview_update()
Recounted(v) == mchanged' = AnyEdited(v) /\ msgDeleted' = CountDeleted(v)

\* NT_MAILBOX_UPDATE: update_tables()
TablesUpdated ==
    /\ index' = LET kept == AtPlaces(index, {i \in DOMAIN index : ~index[i].deleted})
                IN  [i \in DOMAIN kept |-> [kept[i] EXCEPT !.changed = FALSE]]
    /\ mchanged' = FALSE /\ msgDeleted' = 0

-----------------------------------------------------------------------------
(* The user *)

\* mutt_set_flag(), MUTT_DELETE; dirty: undeleting the message is a change.
SetDeleted(i, d, dirty) ==
    /\ mpc = "idle" /\ i \in DOMAIN index /\ index[i].deleted # d
    /\ index' = [index EXCEPT ![i].deleted = d]
    /\ msgDeleted' = IF d THEN msgDeleted + 1 ELSE msgDeleted - 1
    /\ mchanged' = (mchanged \/ (~d /\ dirty))
    /\ UNCHANGED <<mpc, callVars>>

\* mutt_set_flag(), MUTT_READ
SetRead(i) ==
    /\ mpc = "idle" /\ i \in DOMAIN index /\ ~index[i].read
    /\ index' = [index EXCEPT ![i].read = TRUE, ![i].changed = TRUE]
    /\ mchanged' = TRUE
    /\ UNCHANGED <<msgDeleted, mpc, callVars>>

\* The text changes: an attachment is deleted, the subject changed ...
SetEdited(i) ==
    /\ mpc = "idle" /\ i \in DOMAIN index /\ ~index[i].edited
    /\ index' = [index EXCEPT ![i].edited = TRUE, ![i].changed = TRUE]
    /\ mchanged' = TRUE
    /\ UNCHANGED <<msgDeleted, mpc, callVars>>

-----------------------------------------------------------------------------
(* mx_mbox_check(), mx_mbox_sync() and mx_mbox_close() up to the backend *)

BeginCheck ==
    /\ mpc = "idle"
    /\ mpc' = "stat" /\ task' = "check" /\ status' = "ok"
    /\ UNCHANGED <<indexVars, purge, pos>>

Undelete(v) == [i \in DOMAIN v |-> [v[i] EXCEPT !.deleted = FALSE, !.purge = FALSE]]

BeginSync(answer) ==
    /\ mpc = "idle"
    /\ mchanged \/ (msgDeleted # 0 /\ answer)
    /\ msgDeleted = 0 => answer
    /\ mpc' = "stat" /\ task' = "sync" /\ purge' = answer /\ status' = "ok"
    /\ index' = IF answer THEN index ELSE Undelete(index)
    /\ msgDeleted' = IF answer THEN msgDeleted ELSE 0
    /\ UNCHANGED <<mchanged, pos>>

\* What is still new becomes old.
Aged(v) == [i \in DOMAIN v |-> IF v[i].deleted \/ v[i].old \/ v[i].read THEN v[i]
                               ELSE [v[i] EXCEPT !.old = TRUE, !.changed = TRUE]]

\* mx_fastclose_mailbox()
FastClose ==
    /\ mpc' = "closed" /\ task' = "none" /\ purge' = FALSE
    /\ index' = <<>> /\ mchanged' = FALSE /\ msgDeleted' = 0
    /\ pos' = 0 /\ status' = "ok"

\* The mailbox is closed at once, without the backend.
CloseAtOnce(answer) ==
    /\ mpc = "idle"
    /\ msgDeleted = 0 => answer
    /\ ~mchanged /\ Aged(index) = index /\ (msgDeleted = 0 \/ ~answer)
    /\ FastClose

BeginClose(answer) ==
    /\ mpc = "idle"
    /\ msgDeleted = 0 => answer
    /\ LET aged == Aged(index)
           v == IF answer THEN aged ELSE Undelete(aged)
           count == IF answer THEN msgDeleted ELSE 0
       IN  /\ mchanged \/ aged # index \/ count # 0
           /\ index' = v /\ mchanged' = (mchanged \/ aged # index) /\ msgDeleted' = count
    /\ mpc' = "stat" /\ task' = "close" /\ purge' = answer /\ status' = "ok"
    /\ UNCHANGED pos

-----------------------------------------------------------------------------
(* When the backend returns *)

Idle == mpc' = "idle" /\ task' = "none" /\ purge' = FALSE /\ pos' = 0 /\ status' = "ok"

\* The check is over: back to the caller, or on to the messages.
Checked == IF task = "check" THEN Idle
           ELSE mpc' = "save" /\ pos' = 1 /\ UNCHANGED <<task, purge>>

\* A merged index with entries that vanished, new entries, or other flags.
\* mx_mbox_check() has the view recounted if anything came or went.
Merge(v, vanished, reflagged) ==
    LET arrivals == Len(v) > Len(index)
    IN  /\ index' = v
        /\ CASE task = "check" /\ (vanished \/ arrivals) -> Recounted(v)
             [] task # "check" /\ arrivals -> mchanged' = TRUE /\ msgDeleted' = CountDeleted(v)
             [] OTHER -> UNCHANGED <<mchanged, msgDeleted>>
        /\ Checked
        /\ task # "check" => status' = IF vanished THEN "reopened"
                                       ELSE IF arrivals THEN "newmail"
                                       ELSE IF reflagged THEN "flags" ELSE "ok"

This == index[pos]
At(pc) == mpc = pc /\ pos \in DOMAIN index
NextMessage == mpc' = "save" /\ pos' = pos + 1 /\ UNCHANGED <<task, purge, status>>

\* MX_STATUS_ERROR: the rest is not saved, and nothing is closed.
SyncFails == Idle /\ UNCHANGED indexVars

\* mx_mbox_close() returns without closing when the check found anything.
Closes == task = "close" /\ status = "ok"

SyncReturns ==
    IF Closes THEN FastClose
    ELSE /\ Idle
         /\ IF task = "sync" /\ purge THEN TablesUpdated ELSE UNCHANGED indexVars

-----------------------------------------------------------------------------

MxInit ==
    /\ index = <<>> /\ mchanged = FALSE /\ msgDeleted = 0
    /\ mpc = "closed" /\ task = "none" /\ purge = FALSE
    /\ pos = 0 /\ status = "ok"

MxTypeOK(entries) ==
    /\ index \in Seq(entries)
    /\ mchanged \in BOOLEAN /\ msgDeleted \in Int
    /\ task \in {"none", "check", "sync", "close", "read", "browse"}
    /\ purge \in BOOLEAN
    /\ pos \in 0 .. Len(index) + 1
    /\ status \in {"ok", "reopened", "newmail", "flags"}

\* The count that decides whether anything is to be purged is the number of
\* messages marked deleted (mutt_set_flag(), mview_update(), mx_mbox_sync()).
DeletedCounted == mpc = "idle" => msgDeleted = CountDeleted(index)
=============================================================================
