--------------------------------- MODULE Mbox ---------------------------------
(***************************************************************************)
(* One mbox file shared with a delivery agent and another mail client:     *)
(* opening, checking, synchronising and closing it (mbox/mbox.c under the  *)
(* control of mx_mbox_sync() and mx_mbox_close() in mx.c), with the view   *)
(* of it in memory as mview.c maintains it.  The file is a sequence of     *)
(* blocks; a message is Length[m] blocks and its first one is the only one *)
(* that starts with "From ".  Between two steps of NeoMutt other programs  *)
(* that respect the lock may change the file, and NeoMutt may die.         *)
(*                                                                         *)
(* Message flags other than "deleted" are reduced to the fact that they    *)
(* have changed; the file keeps its inode; $trash and $move are not set.   *)
(***************************************************************************)
EXTENDS Lists, Integers, FiniteSets, SequencesExt

CONSTANTS
    Message,         \* messages that may be delivered, once each
    Length,          \* message -> number of blocks
    LockType,        \* "fcntl" or "flock" (configure --with-lock)
    Environments     \* what may happen, by the value of env

ASSUME MboxAssumption ==
    /\ Length \in [Message -> Nat \ {0}]
    /\ LockType \in {"fcntl", "flock"}
    /\ Environments \subseteq
         [messages    : Nat,      \* bound: messages delivered
          saveEmpty   : BOOLEAN,  \* $save_empty
          rewrite     : BOOLEAN,  \* another mail client removes messages
          lockMayFail : BOOLEAN,  \* a lock may not be had in MAX_LOCK_ATTEMPTS
          failAgain   : BOOLEAN]  \* writing back fails twice in one process

VARIABLES
    env,         \* one of Environments, chosen at the start
    file,        \* blocks of the mailbox file
    lock,        \* the lock NeoMutt holds on it: "none", "shared", "excl"
    pc,          \* what NeoMutt does next
    op,          \* the operation it does: "none", "sync", "close"
    view,        \* m->emails in file order: [text, offset, deleted, changed]
    changed,     \* m->changed
    readonly,    \* m->readonly
    size,        \* m->size
    tmp,         \* the temporary file of mbox_mbox_sync(); <<>>: none, or empty
    next,        \* its loop index, then the number of blocks written back
    newOffset,   \* its new_offset: where the messages it copies will begin
    delivered,   \* history: messages delivered so far
    removed,     \* history: messages the other client has removed
    unwanted,    \* history: messages the user wants deleted
    savefile,    \* messages in $tmp_dir/neomutt.<user>-<host>-<pid>
    saved        \* history: messages in files of earlier processes

fileVars == <<file, delivered, removed>>
viewVars == <<view, changed, readonly, size>>
syncVars == <<tmp, next, newOffset>>
histVars == <<unwanted, savefile, saved>>
vars == <<env, fileVars, lock, pc, op, viewVars, syncVars, histVars>>

Block     == [msg : Message, part : Nat \ {0}]
Text(m)   == [k \in 1 .. Length[m] |-> [msg |-> m, part |-> k]]
Id(e)     == e.text[1].msg
Ids(v)    == {Id(v[i]) : i \in DOMAIN v}
Marked(v) == {i \in DOMAIN v : v[i].deleted}

\* What a read of n blocks at the offset o returns.
Chunk(t, o, n) == SubSeq(t, o + 1, IF o + n <= Len(t) THEN o + n ELSE Len(t))

\* The whole message is somewhere in the text t.
Intact(t, m) == \E p \in DOMAIN t : Chunk(t, p - 1, Length[m]) = Text(m)
Recoverable(t) == {m \in Message : Intact(t, m)}

-----------------------------------------------------------------------------
(* Reading the file *)

IsFrom(f, p) == p \in DOMAIN f /\ f[p].part = 1

\* The messages from offset on: each reaches to the next "From ".
Parse(f, offset) ==
    LET starts == {p \in DOMAIN f : p > offset /\ IsFrom(f, p)}
        ends(p) == {q - 1 : q \in {r \in starts : r > p}} \cup {Len(f)}
        entry(p) == [text    |-> SubSeq(f, p, CHOOSE q \in ends(p) : \A r \in ends(p) : q <= r),
                     offset  |-> p - 1,
                     deleted |-> FALSE,
                     changed |-> FALSE]
        sorted == AtPlaces([p \in DOMAIN f |-> p], starts)
    IN  [i \in DOMAIN sorted |-> entry(sorted[i])]

\* reopen_mailbox(): the old entry whose flags entry i of new gets, or 0; an
\* old entry is used once, and the search starts at i.
Found(new, old) ==
    LET found[i \in 0 .. Len(new)] ==
          IF i = 0 THEN <<>>
          ELSE LET used == {found[i - 1][k] : k \in 1 .. i - 1}
                   same == {j \in DOMAIN old \ used : old[j].text = new[i].text}
                   later == {j \in same : j >= i}
                   pick(s) == CHOOSE j \in s : \A k \in s : j <= k
               IN  Append(found[i - 1], IF later # {} THEN pick(later)
                                        ELSE IF same # {} THEN pick(same) ELSE 0)
    IN  found[Len(new)]

WithOldFlags(new, old) ==
    LET found == Found(new, old)
    IN  [i \in DOMAIN new |->
            IF found[i] = 0 THEN new[i]
            ELSE [new[i] EXCEPT !.deleted = old[found[i]].deleted,
                                !.changed = old[found[i]].changed]]

\* NT_MAILBOX_UPDATE: update_tables()
UpdateTables(v) ==
    /\ view' = LET kept == AtPlaces(v, DOMAIN v \ Marked(v))
               IN  [i \in DOMAIN kept |-> [kept[i] EXCEPT !.changed = FALSE]]
    /\ changed' = FALSE

AnyChanged(v) == \E i \in DOMAIN v : v[i].changed

\* Mutation: new mail counts as a change.
NewMailIsChange(v) == changed' = TRUE

\* NT_MAILBOX_INVALID: mview_update()
Recount(v) == changed' = AnyChanged(v)

-----------------------------------------------------------------------------
(* Locks *)

\* Mutation: the lock is not taken.
NoLock(kind) == lock' = lock

TakeLock(kind) == lock' = kind
Unlock == lock' = "none"

\* Closing any descriptor of the file drops an fcntl() lock of the process.
CloseOther == lock' = IF LockType = "fcntl" THEN "none" ELSE lock

-----------------------------------------------------------------------------
(* Other programs, and the end of this one *)

Deliver(m) ==            \* append a message
    /\ lock = "none" /\ m \notin delivered
    /\ Cardinality(delivered) < env.messages
    /\ file' = file \o Text(m)
    /\ delivered' = delivered \cup {m}
    /\ UNCHANGED <<removed, lock, pc, op, viewVars, syncVars, histVars>>

Expunge(e) ==            \* another client removes a message
    /\ env.rewrite /\ lock = "none"
    /\ file' = SubSeq(file, 1, e.offset)
                 \o SubSeq(file, e.offset + Len(e.text) + 1, Len(file))
    /\ removed' = removed \cup {Id(e)}
    /\ UNCHANGED <<delivered, lock, pc, op, viewVars, syncVars, histVars>>

Forget ==                \* mx_fastclose_mailbox(): it is no longer open
    /\ pc' = "closed" /\ op' = "none"
    /\ view' = <<>> /\ changed' = FALSE /\ readonly' = FALSE /\ size' = 0
    /\ tmp' = <<>> /\ next' = 0 /\ newOffset' = <<>>
    /\ Unlock

Crash ==                 \* the temporary file stays
    /\ pc # "closed"
    /\ Forget
    /\ saved' = saved \cup savefile \cup Recoverable(tmp)
    /\ savefile' = {}
    /\ UNCHANGED <<fileVars, unwanted>>

-----------------------------------------------------------------------------
(* mx_mbox_open(), mbox_mbox_open() *)

Open ==                  \* lock, and stat() in mbox_parse_mailbox()
    /\ pc = "closed"
    /\ \/ TakeLock("shared") /\ readonly' = FALSE
       \/ env.lockMayFail /\ lock' = lock /\ readonly' = TRUE
    /\ pc' = "read"
    /\ size' = Len(file)
    /\ UNCHANGED <<fileVars, op, view, changed, syncVars, histVars>>

Read ==
    /\ pc = "read"
    /\ view' = Parse(file, 0)
    /\ Unlock
    /\ pc' = "idle"
    /\ UNCHANGED <<fileVars, op, changed, readonly, size, syncVars, histVars>>

-----------------------------------------------------------------------------
(* mbox_mbox_check(), called by mx_mbox_check() and by mbox_mbox_sync() *)

Checking == pc = "idle" \/ pc = "check"
\* where a check that found a change leads: a sync gives up
Back == IF pc = "check" THEN "giveup" ELSE "idle"

CheckSame ==             \* same size: unchanged, or touched
    /\ pc = "check" /\ Len(file) = size
    /\ pc' = "copy"
    /\ UNCHANGED <<fileVars, lock, op, viewVars, syncVars, histVars>>

CheckNewMail ==          \* a "From " where the file used to end
    /\ Checking /\ Len(file) > size /\ IsFrom(file, size + 1)
    /\ view' = view \o Parse(file, size)
    /\ Recount(view')
    /\ size' = Len(file)
    /\ pc' = Back
    /\ UNCHANGED <<fileVars, lock, op, readonly, syncVars, histVars>>

CheckReopen ==           \* reopen_mailbox(), up to stat()
    /\ Checking /\ Len(file) # size
    /\ Len(file) > size => ~IsFrom(file, size + 1)
    /\ Unlock            \* mutt_file_fclose(&adata->fp)
    /\ size' = Len(file)
    /\ pc' = IF pc = "check" THEN "resync" ELSE "reread"
    /\ UNCHANGED <<fileVars, op, view, changed, readonly, syncVars, histVars>>

Reread ==
    /\ pc \in {"resync", "reread"}
    /\ LET new == Parse(file, 0)
       IN  UpdateTables(IF readonly THEN new ELSE WithOldFlags(new, view))
    /\ pc' = IF pc = "resync" THEN "giveup" ELSE "idle"
    /\ UNCHANGED <<fileVars, lock, op, readonly, size, syncVars, histVars>>

-----------------------------------------------------------------------------
(* The user *)

Mark(i, deleted) ==      \* mutt_set_flag(), MUTT_DELETE
    /\ pc = "idle" /\ ~readonly
    /\ i \in DOMAIN view /\ view[i].deleted # deleted
    /\ view' = [view EXCEPT ![i].deleted = deleted]
    /\ unwanted' = IF deleted THEN unwanted \cup {Id(view[i])}
                              ELSE unwanted \ {Id(view[i])}
    /\ UNCHANGED <<fileVars, lock, pc, op, changed, readonly, size, syncVars, savefile, saved>>

Flag(i) ==               \* mutt_set_flag(), a flag kept in the header
    /\ pc = "idle" /\ ~readonly
    /\ i \in DOMAIN view /\ ~view[i].changed
    /\ view' = [view EXCEPT ![i].changed = TRUE]
    /\ changed' = TRUE
    /\ UNCHANGED <<fileVars, lock, pc, op, readonly, size, syncVars, histVars>>

\* mx_mbox_sync(), mx_mbox_close(), up to the lock.  Who does not purge takes
\* the marks back.
Begin(o, purge) ==
    /\ pc = "idle" /\ ~readonly
    /\ changed \/ (purge /\ Marked(view) # {})
    /\ pc' = "lock" /\ op' = o
    /\ view' = IF purge THEN view
               ELSE [i \in DOMAIN view |-> [view[i] EXCEPT !.deleted = FALSE]]
    /\ unwanted' = IF purge THEN unwanted
                   ELSE unwanted \ {Id(view[i]) : i \in Marked(view)}
    /\ UNCHANGED <<fileVars, lock, changed, readonly, size, syncVars, savefile, saved>>

CloseUnchanged(purge) == \* nothing to write
    /\ pc = "idle"
    /\ readonly \/ (~changed /\ (purge => Marked(view) = {}))
    /\ unwanted' = unwanted \ {Id(view[i]) : i \in Marked(view)}
    /\ Forget
    /\ UNCHANGED <<fileVars, savefile, saved>>

-----------------------------------------------------------------------------
(* mbox_mbox_sync() *)

Lock ==
    /\ pc = "lock"
    /\ \/ TakeLock("excl") /\ pc' = "check"
       \/ env.lockMayFail /\ lock' = lock /\ pc' = "bail"
    /\ UNCHANGED <<fileVars, op, viewVars, syncVars, histVars>>

Touched == {i \in DOMAIN view : view[i].deleted \/ view[i].changed}
FirstTouched == CHOOSE i \in Touched : \A j \in Touched : i <= j
Offset == view[FirstTouched].offset

CopyFails ==             \* no temporary file, a failing fputs(), stat() ...;
    /\ pc = "copy"       \* also when no message is Touched
    /\ pc' = "bail"
    /\ UNCHANGED <<fileVars, lock, op, viewVars, syncVars, histVars>>

\* Mutation: where the message is in the copy.
OffsetInCopy == Len(tmp)

\* Where the next message will be: the copy goes back to the first offset.
NewOffset == Offset + Len(tmp)

\* mx_msg_open() opens the file anew and mx_msg_close() closes that.
Copy ==
    /\ pc = "copy" /\ Touched # {}
    /\ LET i == IF next = 0 THEN FirstTouched ELSE next
           e == view[i]
       IN  /\ i \in DOMAIN view
           /\ next' = i + 1
           /\ IF e.deleted
              THEN tmp' = tmp /\ newOffset' = Append(newOffset, 0) /\ lock' = lock
              ELSE /\ tmp' = tmp \o Chunk(file, e.offset, Len(e.text))
                   /\ newOffset' = Append(newOffset, NewOffset)
                   /\ CloseOther
    /\ UNCHANGED <<fileVars, pc, op, viewVars, histVars>>

Copied ==                \* the temporary file is closed, and opened to read
    /\ pc = "copy" /\ next = Len(view) + 1
    /\ pc' = "write" /\ next' = 0
    /\ UNCHANGED <<fileVars, lock, op, viewVars, tmp, newOffset, histVars>>

WriteBack ==             \* one block; first look for "From " at the offset
    /\ pc = "write" /\ next < Len(tmp)
    /\ next = 0 => IsFrom(file, Offset + 1)
    /\ file' = LET p == Offset + next + 1
               IN  IF p <= Len(file) THEN [file EXCEPT ![p] = tmp[next + 1]]
                   ELSE Append(file, tmp[next + 1])
    /\ next' = next + 1
    /\ UNCHANGED <<delivered, removed, lock, pc, op, viewVars, tmp, newOffset, histVars>>

\* Mutation: no ftruncate().
NotTruncated == file

Truncated == SubSeq(file, 1, Offset + Len(tmp))

Truncate ==
    /\ pc = "write" /\ next = Len(tmp)
    /\ next = 0 => IsFrom(file, Offset + 1)
    /\ file' = Truncated
    /\ size' = Offset + Len(tmp)
    /\ pc' = "commit"
    /\ UNCHANGED <<delivered, removed, lock, op, view, changed, readonly, syncVars, histVars>>

WriteFails ==            \* at any block; the copy is renamed to the save file
    /\ pc = "write"
    /\ env.failAgain \/ savefile = {}
    /\ savefile' = Recoverable(tmp)
    /\ Forget
    /\ UNCHANGED <<fileVars, unwanted, saved>>

Commit ==                \* unlock, note the new offsets, remove the copy
    /\ pc = "commit"
    /\ Unlock
    /\ view' = [i \in DOMAIN view |->
                  IF i >= FirstTouched /\ ~view[i].deleted
                  THEN [view[i] EXCEPT !.offset = newOffset[i - FirstTouched + 1]]
                  ELSE view[i]]
    /\ tmp' = <<>> /\ next' = 0 /\ newOffset' = <<>>
    /\ pc' = "synced"
    /\ UNCHANGED <<fileVars, op, changed, readonly, size, histVars>>

\* The copy is removed; the offsets are as before.  mx_mbox_close() returns,
\* mx_mbox_sync() goes on unless the result is MX_STATUS_ERROR.
Bail ==
    /\ pc \in {"bail", "giveup"}
    /\ Unlock
    /\ UpdateTables(view)
    /\ tmp' = <<>> /\ next' = 0 /\ newOffset' = <<>>
    /\ IF pc = "giveup" /\ op = "sync"
       THEN pc' = "synced" /\ op' = op
       ELSE pc' = "idle" /\ op' = "none"
    /\ UNCHANGED <<fileVars, readonly, size, histVars>>

-----------------------------------------------------------------------------
(* After the sync: mx_mbox_sync() and mx_mbox_close() *)

AllMarked == Marked(view) = DOMAIN view

SyncDone ==
    /\ pc = "synced" /\ op = "sync" /\ ~(AllMarked /\ ~env.saveEmpty)
    /\ UpdateTables(view)
    /\ pc' = "idle" /\ op' = "none"
    /\ UNCHANGED <<fileVars, lock, readonly, size, syncVars, histVars>>

SyncUnlink ==            \* unlink(), without a lock
    /\ pc = "synced" /\ op = "sync" /\ AllMarked /\ ~env.saveEmpty
    /\ file' = <<>>
    /\ Forget
    /\ UNCHANGED <<delivered, removed, histVars>>

CloseDone ==             \* mutt_file_unlink_empty() locks and looks again
    /\ pc = "synced" /\ op = "close"
    /\ Forget
    /\ UNCHANGED <<fileVars, histVars>>

-----------------------------------------------------------------------------

Init ==
    /\ env \in Environments
    /\ file = <<>> /\ delivered = {} /\ removed = {}
    /\ lock = "none" /\ pc = "closed" /\ op = "none"
    /\ view = <<>> /\ changed = FALSE /\ readonly = FALSE /\ size = 0
    /\ tmp = <<>> /\ next = 0 /\ newOffset = <<>>
    /\ unwanted = {} /\ savefile = {} /\ saved = {}

OtherStep ==
    \/ \E m \in Message : Deliver(m)
    \/ \E i \in DOMAIN Parse(file, 0) : Expunge(Parse(file, 0)[i])
    \/ Crash

OpenStep == Open \/ Read
CheckStep == CheckSame \/ CheckNewMail \/ CheckReopen \/ Reread

UserStep ==
    \/ \E i \in 1 .. Cardinality(Message), d \in BOOLEAN : Mark(i, d)
    \/ \E i \in 1 .. Cardinality(Message) : Flag(i)
    \/ \E o \in {"sync", "close"}, purge \in BOOLEAN : Begin(o, purge)
    \/ \E purge \in BOOLEAN : CloseUnchanged(purge)

SyncStep ==
    \/ Lock \/ CopyFails \/ Copy \/ Copied \/ WriteBack \/ Truncate
    \/ WriteFails \/ Commit \/ Bail \/ SyncDone \/ SyncUnlink \/ CloseDone

Next ==
    /\ OtherStep \/ OpenStep \/ CheckStep \/ UserStep \/ SyncStep
    /\ UNCHANGED env

Spec == Init /\ [][Next]_vars

-----------------------------------------------------------------------------
(* Properties *)

Pcs == {"closed", "read", "idle", "check", "reread", "resync", "lock", "copy",
        "write", "commit", "synced", "bail", "giveup"}

\* Every value has its type, and an exclusive lock belongs to a sync.
TypeOK ==
    /\ env \in Environments
    /\ file \in Seq(Block) /\ tmp \in Seq(Block)
    /\ lock \in {"none", "shared", "excl"}
    /\ pc \in Pcs /\ op \in {"none", "sync", "close"}
    /\ view \in Seq([text : Seq(Block) \ {<<>>}, offset : Nat, deleted : BOOLEAN, changed : BOOLEAN])
    /\ {changed, readonly} \subseteq BOOLEAN
    /\ size \in Nat /\ next \in Nat /\ newOffset \in Seq(Nat)
    /\ {delivered, removed, unwanted, savefile, saved} \subseteq SUBSET Message
    /\ lock = "excl" => op # "none"
    /\ pc \in {"closed", "read", "idle"} => op = "none"

\* Other programs only deliver: the size tells whether they have.
OnlyDeliveries == ~env.rewrite

Kept(m) == m \in Recoverable(file) \cup Recoverable(tmp) \cup savefile \cup saved

\* No mail is lost: whatever is delivered while NeoMutt reads, copies, writes
\* back, fails to write or dies, a message that nobody deleted is whole in the
\* mailbox, in the temporary copy, or in a copy that was left behind.
NoMailLost ==
    OnlyDeliveries /\ env.saveEmpty =>
        \A m \in delivered \ unwanted : Kept(m)

\* "mailboxes which contain no saved messages will be removed when closed"
\* ($save_empty in docs/config.c): one that contains a message is not.
OnlyEmptyRemoved ==
    OnlyDeliveries /\ ~env.saveEmpty =>
        \A m \in delivered \ unwanted : Kept(m)

\* While the mailbox is open and its size is the one NeoMutt remembers, every
\* entry of the index is where NeoMutt would read it.
ViewMatchesFile ==
    OnlyDeliveries /\ pc = "idle" /\ Len(file) = size =>
        \A i \in DOMAIN view :
            Chunk(file, view[i].offset, Len(view[i].text)) = view[i].text

UnmarkedTexts(v) ==
    LET kept == AtPlaces(v, DOMAIN v \ Marked(v))
    IN  [i \in DOMAIN kept |-> kept[i].text]

\* A sync that succeeds leaves, from the first message that it rewrites on, the
\* messages the user saw and has not marked, whole, in their order, and nothing
\* else.
SyncWritesView ==
    [][Commit /\ OnlyDeliveries => Chunk(file, Offset, Len(file)) =
                   FlattenSeq(UnmarkedTexts(SubSeq(view, FirstTouched, Len(view))))]_vars

\* "this means m->changed or m->msg_deleted was set, but no messages were
\* found to be changed or deleted.  This should never happen".
SyncFindsChange == pc = "copy" => Touched # {}
=============================================================================
