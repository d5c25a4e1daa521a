------------------------------ MODULE Maildir ------------------------------
(***************************************************************************)
(* A Maildir opened by NeoMutt and used by other clients at the same time: *)
(* opening, checking, synchronising and closing it (maildir/mailbox.c and  *)
(* maildir/message.c under mx_mbox_check(), mx_mbox_sync() and             *)
(* mx_mbox_close()).  Nobody locks: a message is a file whose directory,   *)
(* new or cur, and flags, Seen and Trashed, are part of its name, and a    *)
(* client changes them with rename().  Other clients act between any two   *)
(* system calls of NeoMutt; one scan of a directory is one step.           *)
(*                                                                         *)
(* $maildir_trash and $mail_check_recent are off, $mark_old is on, headers *)
(* are not cached, and the inotify monitor is off.                         *)
(***************************************************************************)
EXTENDS MxLocal

CONSTANTS
    Letter,      \* messages that may be delivered, once each
    MdWorlds     \* what other clients do, by the value of world

(***************************************************************************)
(*   moves   they move messages from new to cur                            *)
(*   refiles they change flags of messages in cur, and remove messages     *)
(*   midway  they act while NeoMutt synchronises                           *)
(*   edits   the user changes a message itself: it is written anew, once,  *)
(*           and no other client changes its name                          *)
(*   letters bound: how many are delivered                                 *)
(***************************************************************************)
ASSUME MaildirAssumption ==
    /\ \A w \in MdWorlds : w.edits => ~w.moves /\ ~w.refiles
    /\ MdWorlds \subseteq [moves : BOOLEAN, refiles : BOOLEAN, midway : BOOLEAN, edits : BOOLEAN,
                       letters : Nat]

VARIABLES
    world,       \* one of MdWorlds, chosen at the start
    disk,        \* the files
    newer,       \* directories whose mtime is later than mdata->mtime(_cur)
    scanned,     \* directories that this check scans
    listed,      \* names it has read: the files as they were then
    arrived,     \* history: letters delivered so far
    doomed       \* history: letters the user or another client gave up

checkVars == <<scanned, listed>>
fateVars  == <<arrived, doomed>>
maildirVars == <<mxVars, world, disk, newer, checkVars, fateVars>>

Dirs == {"new", "cur"}
\* The unique part of a name: a letter, and how often it was written anew.
Unique == Letter \X {0, 1}
File  == [id : Unique, dir : Dirs, seen : BOOLEAN, trash : BOOLEAN]
Entry == [path : File, read : BOOLEAN, old : BOOLEAN, deleted : BOOLEAN, trash : BOOLEAN,
          purge : BOOLEAN, changed : BOOLEAN, edited : BOOLEAN]

\* maildir_parse_flags()
Parsed(f) == [path |-> f, read |-> f.seen, old |-> f.dir = "cur", deleted |-> f.trash,
              trash |-> f.trash, purge |-> FALSE, changed |-> FALSE, edited |-> FALSE]

\* A link, unlink or rename touches the directories of both names.
Touch(old, new) == newer \cup {f.dir : f \in (old \ new) \cup (new \ old)}
Store(new) == disk' = new /\ newer' = Touch(disk, new)

-----------------------------------------------------------------------------
(* Other clients *)

Others == mpc \in {"listnew", "listcur", "parsenew", "parsecur", "idle", "closed"} \/ task = "check"
MayAct == Others \/ world.midway

Arrive(m) ==             \* delivery: tmp, then a name in new
    /\ MayAct /\ m \notin arrived /\ Cardinality(arrived) < world.letters
    /\ Store(disk \cup {[id |-> <<m, 0>>, dir |-> "new", seen |-> FALSE, trash |-> FALSE]})
    /\ arrived' = arrived \cup {m}
    /\ UNCHANGED <<world, mxVars, checkVars, doomed>>

MoveToCur(f) ==          \* a client that opens the mailbox has seen it
    /\ MayAct /\ world.moves /\ f.dir = "new"
    /\ Store((disk \ {f}) \cup {[f EXCEPT !.dir = "cur"]})
    /\ UNCHANGED <<world, mxVars, checkVars, fateVars>>

Refile(f) ==             \* a client reads it, or marks it as trash
    /\ MayAct /\ world.refiles /\ f.dir = "cur"
    /\ \/ Store((disk \ {f}) \cup {[f EXCEPT !.seen = TRUE]}) /\ doomed' = doomed
       \/ /\ Store((disk \ {f}) \cup {[f EXCEPT !.trash = TRUE]})
          /\ doomed' = doomed \cup {f.id[1]}
    /\ UNCHANGED <<world, mxVars, checkVars, arrived>>

Discard(f) ==
    /\ MayAct /\ world.refiles
    /\ Store(disk \ {f})
    /\ doomed' = doomed \cup {f.id[1]}
    /\ UNCHANGED <<world, mxVars, checkVars, arrived>>

Leave ==
    /\ FastClose
    /\ scanned' = {} /\ listed' = {} /\ newer' = Dirs

Die ==                   \* a file in tmp may stay behind
    /\ mpc # "closed"
    /\ Leave
    /\ UNCHANGED <<world, disk, fateVars>>

-----------------------------------------------------------------------------
(* maildir_mbox_open(): maildir_read_dir() of new, then of cur.  No time is *)
(* noted, so that the first check scans both.                               *)

InDir(d) == {f \in disk : f.dir = d}

StartOpen ==
    /\ mpc = "closed"
    /\ mpc' = "listnew"
    /\ UNCHANGED <<indexVars, callVars, world, disk, newer, checkVars, fateVars>>

ListDir ==               \* maildir_parse_dir()
    /\ mpc \in {"listnew", "listcur"}
    /\ listed' = InDir(IF mpc = "listnew" THEN "new" ELSE "cur")
    /\ mpc' = IF mpc = "listnew" THEN "parsenew" ELSE "parsecur"
    /\ UNCHANGED <<indexVars, callVars, world, disk, newer, scanned, fateVars>>

\* maildir_delayed_parsing(), maildir_move_to_mailbox(): a file that is no
\* longer there under the name that was read is left out.
WithFiles(v, files) == v \o [i \in 1 .. Cardinality(files \cap disk) |->
                                Parsed(SetToSeq(files \cap disk)[i])]

ParseDir ==
    /\ mpc \in {"parsenew", "parsecur"}
    /\ index' = WithFiles(index, listed)
    /\ IF mpc = "parsenew"
       THEN mpc' = "listcur" /\ UNCHANGED <<mchanged, msgDeleted>>
       ELSE mpc' = "idle" /\ Recounted(index')
    /\ listed' = {}
    /\ UNCHANGED <<callVars, world, disk, newer, scanned, fateVars>>

-----------------------------------------------------------------------------
(* maildir_check(), called by mx_mbox_check() and by maildir_mbox_sync() *)

StartCheck == BeginCheck /\ UNCHANGED <<world, disk, newer, checkVars, fateVars>>

\* Mutation: only new is scanned.
StatNewOnly == scanned' = newer \cap {"new"} /\ newer' = {}

StatDirs == scanned' = newer /\ newer' = {}

CheckStat ==             \* stat() both directories, note their times
    /\ mpc = "stat"
    /\ StatDirs
    /\ IF newer = {} THEN Checked /\ (task = "check" \/ UNCHANGED status)
       ELSE mpc' = "scannew" /\ UNCHANGED callVars
    /\ UNCHANGED <<indexVars, world, disk, listed, fateVars>>

ScanDir ==               \* maildir_parse_dir() of those that have changed
    /\ mpc \in {"scannew", "scancur"}
    /\ LET d == IF mpc = "scannew" THEN "new" ELSE "cur"
       IN  listed' = listed \cup IF d \in scanned THEN InDir(d) ELSE {}
    /\ mpc' = IF mpc = "scannew" THEN "scancur" ELSE "merge"
    /\ UNCHANGED <<indexVars, callVars, world, disk, newer, scanned, fateVars>>

\* hash_names: of two names of one message, the first one, from new
Named == {f \in listed : f.dir = "new" \/ ~\E g \in listed : g.id = f.id /\ g.dir = "new"}

\* Entry i is the one that uses up the name of its message.
Claims(i) == /\ \E f \in Named : f.id = index[i].path.id
             /\ \A j \in 1 .. i - 1 : index[j].path.id # index[i].path.id
NameOf(e) == CHOOSE f \in Named : f.id = e.path.id

MergedFlags(e, f) ==
    [e EXCEPT !.path = f,
              !.read = IF e.changed THEN @ ELSE f.seen,
              !.old = IF e.changed THEN @ ELSE f.dir = "cur",
              !.deleted = IF e.deleted = e.trash THEN f.trash ELSE @,
              !.trash = f.trash]

Vanished(i) == ~Claims(i) /\ index[i].path.dir \in scanned

Merged ==
    [i \in DOMAIN index |->
        CASE Claims(i)   -> MergedFlags(index[i], NameOf(index[i]))
          [] Vanished(i) -> [index[i] EXCEPT !.deleted = TRUE, !.purge = TRUE]
          [] OTHER       -> index[i]]

\* What is left of the names when every entry has claimed its own.
Unclaimed == {f \in listed : f \in Named => \A i \in DOMAIN index : index[i].path.id # f.id}

CheckMerge ==
    /\ mpc = "merge"
    /\ Merge(WithFiles(Merged, Unclaimed), \E i \in DOMAIN index : Vanished(i), Merged # index)
    /\ scanned' = {} /\ listed' = {}
    /\ UNCHANGED <<world, disk, newer, fateVars>>

-----------------------------------------------------------------------------
(* The user, who gives up what he deletes *)

MdDelete(i, d) ==
    /\ SetDeleted(i, d, index[i].trash)
    /\ doomed' = IF d THEN doomed \cup {index[i].path.id[1]} ELSE doomed
    /\ UNCHANGED <<world, disk, newer, checkVars, arrived>>

MdEdit(i) ==
    /\ world.edits
    /\ SetEdited(i)
    /\ \A f \in disk : f.id # <<index[i].path.id[1], 1>>
    /\ UNCHANGED <<world, disk, newer, checkVars, fateVars>>

MdRequest ==
    /\ \/ \E i \in DOMAIN index : SetRead(i)
       \/ \E answer \in BOOLEAN : BeginSync(answer) \/ BeginClose(answer)
    /\ UNCHANGED <<world, disk, newer, checkVars, fateVars>>

MdCloseAtOnce ==
    /\ \E answer \in BOOLEAN : CloseAtOnce(answer)
    /\ scanned' = {} /\ listed' = {} /\ newer' = Dirs
    /\ UNCHANGED <<world, disk, fateVars>>

-----------------------------------------------------------------------------
(* maildir_mbox_sync(): after the check, message by message *)

\* maildir_gen_flags(), and the directory a message belongs to
PathOf(e) == [e.path EXCEPT !.dir = IF e.read \/ e.old THEN "cur" ELSE "new",
                            !.seen = e.read, !.trash = e.deleted]

\* Mutation: unlink() whatever file the message is in now.
UnlinkFound == disk \ {f \in disk : f.id[1] = This.path.id[1]}

Unlinked == disk \ {This.path}

SaveDeleted ==           \* unlink()
    /\ At("save") /\ This.deleted
    /\ Store(Unlinked)
    /\ NextMessage
    /\ UNCHANGED <<indexVars, world, checkVars, fateVars>>

Unsaved(e) == e.changed \/ e.edited \/ (e.trash /\ ~e.deleted)

SaveNothing ==
    /\ At("save") /\ ~This.deleted
    /\ ~Unsaved(This) \/ (~This.edited /\ PathOf(This) = This.path)
    /\ NextMessage
    /\ UNCHANGED <<indexVars, world, disk, newer, checkVars, fateVars>>

SaveStat ==              \* stat(): the message may have been moved
    /\ At("save") /\ ~This.deleted
    /\ Unsaved(This) /\ ~This.edited /\ PathOf(This) # This.path
    /\ index' = [index EXCEPT ![pos].trash = This.deleted]
    /\ IF This.path \in disk
       THEN mpc' = "rename" /\ UNCHANGED callVars
       ELSE NextMessage
    /\ UNCHANGED <<mchanged, msgDeleted, world, disk, newer, checkVars, fateVars>>

SaveRename ==
    /\ At("rename") /\ This.path \in disk
    /\ Store((disk \ {This.path}) \cup {PathOf(This)})
    /\ index' = [index EXCEPT ![pos].path = PathOf(This)]
    /\ NextMessage
    /\ UNCHANGED <<mchanged, msgDeleted, world, checkVars, fateVars>>

RenameFails ==
    /\ At("rename") /\ This.path \notin disk
    /\ SyncFails
    /\ UNCHANGED <<world, disk, newer, checkVars, fateVars>>

\* maildir_rewrite_message(): maildir_open_find_message() finds the message
\* under any flags; the copy gets a name of its own before the old one goes.
Rewritten == [PathOf(This) EXCEPT !.id[2] = 1]

SaveCopy ==
    /\ At("save") /\ ~This.deleted /\ This.edited
    /\ \E f \in disk : f.id = This.path.id
    /\ Store(disk \cup {Rewritten})
    /\ mpc' = "unlink"
    /\ UNCHANGED <<indexVars, callVars, world, checkVars, fateVars>>

CopyFailed ==            \* the message is gone, or the disk is full
    /\ At("save") /\ ~This.deleted /\ This.edited
    /\ SyncFails
    /\ UNCHANGED <<world, disk, newer, checkVars, fateVars>>

SaveUnlink ==
    /\ At("unlink")
    /\ Store(Unlinked)
    /\ index' = [index EXCEPT ![pos].path = Rewritten, ![pos].edited = FALSE]
    /\ NextMessage
    /\ UNCHANGED <<mchanged, msgDeleted, world, checkVars, fateVars>>

SyncEnds ==              \* maildir_update_mtime()
    /\ mpc = "save" /\ pos > Len(index)
    /\ SyncReturns
    /\ newer' = IF Closes THEN Dirs ELSE {}
    /\ scanned' = {} /\ listed' = {}
    /\ UNCHANGED <<world, disk, fateVars>>

-----------------------------------------------------------------------------

MaildirInit ==
    /\ MxInit
    /\ world \in MdWorlds
    /\ disk = {} /\ newer = Dirs
    /\ scanned = {} /\ listed = {}
    /\ arrived = {} /\ doomed = {}

OtherClients ==
    \/ \E m \in Letter : Arrive(m)
    \/ \E f \in disk : MoveToCur(f) \/ Refile(f) \/ Discard(f)

Reader == StartOpen \/ ListDir \/ ParseDir \/ StartCheck \/ CheckStat \/ ScanDir \/ CheckMerge

MdUser ==
    \/ \E i \in DOMAIN index : MdEdit(i) \/ \E d \in BOOLEAN : MdDelete(i, d)
    \/ MdRequest \/ MdCloseAtOnce

Saver ==
    \/ SaveDeleted \/ SaveNothing \/ SaveStat \/ SaveRename \/ RenameFails
    \/ SaveCopy \/ CopyFailed \/ SaveUnlink \/ SyncEnds

MaildirNext == OtherClients \/ Die \/ Reader \/ MdUser \/ Saver

MaildirSpec == MaildirInit /\ [][MaildirNext]_maildirVars

-----------------------------------------------------------------------------
(* Properties *)

MaildirTypeOK ==
    /\ MxTypeOK(Entry)
    /\ world \in MdWorlds
    /\ disk \subseteq File /\ listed \subseteq File
    /\ newer \subseteq Dirs /\ scanned \subseteq Dirs
    /\ mpc \in {"closed", "listnew", "parsenew", "listcur", "parsecur", "idle", "stat",
                "scannew", "scancur", "merge", "save", "rename", "unlink"}
    /\ arrived \subseteq Letter /\ doomed \subseteq arrived

Present(m) == \E f \in disk : f.id[1] = m

\* A letter that neither the user nor another client gave up is on disk, at
\* every moment: between the copy and the unlink() of a rewrite, across the
\* renames of two clients, after a crash.  Other clients leave messages in the
\* directory they are in.
LettersKept ==
    ~world.moves => \A m \in arrived \ doomed : Present(m)

\* "We know it disappeared because we just scanned the subdirectory it used to
\* reside in" (maildir_check() in maildir/mailbox.c): what a check marks for
\* removal is not in the Maildir.
DisappearedAreGone ==
    \A i \in DOMAIN index : index[i].purge => \A f \in disk : f.id # index[i].path.id

\* When NeoMutt is idle and neither directory looks newer than when it last
\* looked, nothing more will be read: every message of the Maildir is then in
\* the index, at its place, with the flags it has there unless the user has
\* changed them.
AllShown ==
    mpc = "idle" /\ newer = {} /\ ~world.midway =>
        \A f \in disk : \E i \in DOMAIN index :
            /\ index[i].path = f
            /\ ~index[i].changed => index[i].read = f.seen

=============================================================================
