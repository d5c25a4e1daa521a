-------------------------------- MODULE Mh --------------------------------
(***************************************************************************)
(* An MH folder opened by NeoMutt (mh/mh.c, mh/sequence.c under mx.c) and  *)
(* used by other programs at the same time.  A message is a file named by  *)
(* a number; what is unread is kept apart from it, as the numbers of the   *)
(* sequence "unseen" in .mh_sequences.  Nobody locks.                      *)
(*                                                                         *)
(* Other programs act between any two system calls of NeoMutt; reading a   *)
(* directory, and mutt_file_safe_rename(), are one step each.  They write  *)
(* .mh_sequences in one step.  $mh_purge and $mail_check_recent are off,   *)
(* headers are not cached, "flagged" and "replied" are left out.           *)
(***************************************************************************)
EXTENDS MxLocal

CONSTANTS
    Letter,      \* messages that may be filed, once each
    MaxNum,      \* bound: the highest number of a message
    MhWorlds,    \* what happens besides, by the value of world
    None         \* no file

(***************************************************************************)
(*   saver   who files new messages: this NeoMutt ("self", while it does   *)
(*           nothing else), another one ("other"), or a program that takes *)
(*           the number after the highest ("inc") or the lowest free one   *)
(*           ("gap")                                                       *)
(*   removes other programs remove messages, reads: they mark them read    *)
(*   midway  they act while NeoMutt synchronises                           *)
(*   deletes the user deletes messages, edits: changes their text          *)
(*   dies    NeoMutt may be killed                                         *)
(*   letters bound: how many are filed                                     *)
(***************************************************************************)
ASSUME MhAssumption ==
    /\ MaxNum \in Nat \ {0}
    /\ MhWorlds \subseteq [saver : {"self", "other", "inc", "gap"}, removes : BOOLEAN,
                           reads : BOOLEAN, midway : BOOLEAN, deletes : BOOLEAN,
                           edits : BOOLEAN, dies : BOOLEAN,
                           letters : Nat]

VARIABLES
    world,       \* one of MhWorlds, chosen at the start
    folder,      \* number -> the text in that file, or None
    backups,     \* numbers of which there is a file ",number"
    seqs,        \* .mh_sequences: the unseen, the numbers of a sequence that
                 \*   NeoMutt does not know; or None
    dirNewer,    \* the mtime of the directory is later than mdata->mtime
    seqNewer,    \* the same for .mh_sequences and mdata->mtime_seq
    listed,      \* numbers found in the directory
    parsed,      \* number -> the text that was read
    copy,        \* the number a message was written anew under, or 0
    temp,        \* the new .mh_sequences, while it has another name
    filing,      \* the message being filed: its step, number, new sequences
    arrived,     \* history: letters filed so far
    doomed,      \* history: those that someone deleted
    known        \* history: those that someone marked read or changed

files    == <<folder, backups, seqs, dirNewer, seqNewer>>
scanVars == <<listed, parsed>>
drafts   == <<copy, temp>>
fateVars == <<arrived, doomed, known>>
mhVars   == <<mxVars, world, files, scanVars, drafts, filing, fateVars>>

Num   == 1 .. MaxNum
\* A letter, and how often it was written anew.
Text  == Letter \X {0, 1}
Seqs  == [unseen : SUBSET Num, foreign : SUBSET Num]
Entry == [num : Num, text : Text, read : BOOLEAN, old : BOOLEAN, deleted : BOOLEAN,
          purge : BOOLEAN, changed : BOOLEAN, edited : BOOLEAN]

Used(dir) == {n \in Num : dir[n] # None}
NoSeqs    == [unseen |-> {}, foreign |-> {}]
\* mh_seq_read(): a missing file is no error.
SeqsRead  == IF seqs = None THEN NoSeqs ELSE seqs
Filed     == [step |-> "none", num |-> 1, seqs |-> NoSeqs]
NotFiling == filing.step = "none"

-----------------------------------------------------------------------------
(* Other programs, and messages that are filed *)

MayAct  == task \in {"sync", "close"} => world.midway
MayFile == IF world.saver = "self" THEN mpc \in {"closed", "idle"} ELSE MayAct

\* mh_commit_msg(): the number after the highest, of deleted messages too.
Top == Max(Used(folder) \cup backups \cup {0})

FreeNumber ==
    CASE world.saver = "gap" -> Min(Num \ Used(folder))
      [] world.saver = "inc" -> Max(Used(folder) \cup {0}) + 1
      [] OTHER               -> Top + 1

File(m) ==
    /\ NotFiling /\ MayFile
    /\ m \notin arrived /\ Cardinality(arrived) < world.letters
    /\ Used(folder) # Num /\ FreeNumber \in Num
    /\ folder' = [folder EXCEPT ![FreeNumber] = <<m, 0>>]
    /\ dirNewer' = TRUE
    /\ filing' = [step |-> "filed", num |-> FreeNumber, seqs |-> NoSeqs]
    /\ arrived' = arrived \cup {m}
    /\ UNCHANGED <<mxVars, world, backups, seqs, seqNewer, scanVars, drafts, doomed, known>>

\* Other programs write the sequences in place.
MarkUnseen ==
    /\ filing.step = "filed" /\ MayFile /\ world.saver \in {"inc", "gap"}
    /\ seqs' = [SeqsRead EXCEPT !.unseen = @ \cup {filing.num}]
    /\ seqNewer' = TRUE
    /\ dirNewer' = (dirNewer \/ seqs = None)
    /\ filing' = Filed
    /\ UNCHANGED <<mxVars, world, folder, backups, scanVars, drafts, fateVars>>

\* mh_seq_add_one(): a new file, then unlink(), then rename.
AddToCopy ==
    /\ filing.step = "filed" /\ MayFile /\ world.saver \in {"self", "other"}
    /\ filing' = [filing EXCEPT !.step = "copied",
                                !.seqs = [SeqsRead EXCEPT !.unseen = @ \cup {filing.num}]]
    /\ UNCHANGED <<mxVars, world, files, scanVars, drafts, fateVars>>

AddUnlink ==
    /\ filing.step = "copied" /\ MayFile
    /\ seqs' = None /\ dirNewer' = TRUE
    /\ filing' = [filing EXCEPT !.step = "unlinked"]
    /\ UNCHANGED <<mxVars, world, folder, backups, seqNewer, scanVars, drafts, fateVars>>

AddRename ==
    /\ filing.step = "unlinked" /\ MayFile
    /\ seqs' = IF seqs = None THEN filing.seqs ELSE seqs
    /\ seqNewer' = TRUE /\ dirNewer' = TRUE
    /\ filing' = Filed
    /\ UNCHANGED <<mxVars, world, folder, backups, scanVars, drafts, fateVars>>

ReadElsewhere(n) ==
    /\ MayAct /\ world.reads /\ n \in Used(folder) /\ n \in SeqsRead.unseen
    /\ seqs' = [seqs EXCEPT !.unseen = @ \ {n}] /\ seqNewer' = TRUE
    /\ known' = known \cup {folder[n][1]}
    /\ UNCHANGED <<mxVars, world, folder, backups, dirNewer, scanVars, drafts, filing, arrived, doomed>>

RemoveElsewhere(n) ==    \* rmm moves the message out of the way
    /\ MayAct /\ world.removes /\ n \in Used(folder)
    /\ folder' = [folder EXCEPT ![n] = None]
    /\ backups' = backups \cup {n}
    /\ dirNewer' = TRUE
    /\ doomed' = doomed \cup {folder[n][1]}
    /\ UNCHANGED <<mxVars, world, seqs, seqNewer, scanVars, drafts, filing, arrived, known>>

NoScan == listed' = {} /\ parsed' = <<>> /\ copy' = 0 /\ temp' = None

Die ==
    /\ mpc # "closed" /\ (world.dies \/ mpc = "fault")
    /\ FastClose /\ NoScan
    /\ dirNewer' = TRUE /\ seqNewer' = TRUE
    /\ filing' = IF world.saver = "self" THEN Filed ELSE filing
    /\ UNCHANGED <<world, folder, backups, seqs, fateVars>>

-----------------------------------------------------------------------------
(* mh_read_dir() and mh_check() *)

SelfFree == world.saver = "self" => NotFiling

StartOpen ==             \* mh_update_mtime()
    /\ mpc = "closed" /\ SelfFree
    /\ mpc' = "list"
    /\ dirNewer' = FALSE /\ seqNewer' = (seqs = None)
    /\ UNCHANGED <<indexVars, callVars, world, folder, backups, seqs, scanVars, drafts, filing, fateVars>>

MhStartCheck == BeginCheck /\ SelfFree /\ UNCHANGED <<world, files, scanVars, drafts, filing, fateVars>>

\* Mutation: only the time of the directory is looked at.
DirModified == dirNewer

Modified == dirNewer \/ seqNewer \/ seqs = None

CheckStat ==             \* stat() both, create a missing .mh_sequences
    /\ mpc = "stat"
    /\ seqs' = IF seqs = None THEN NoSeqs ELSE seqs
    /\ dirNewer' = (seqs = None) /\ seqNewer' = FALSE
    /\ IF Modified THEN mpc' = "list" /\ UNCHANGED callVars
       ELSE Checked /\ (task = "check" \/ UNCHANGED status)
    /\ UNCHANGED <<indexVars, world, folder, backups, scanVars, drafts, filing, fateVars>>

ListFolder ==            \* mh_parse_dir()
    /\ mpc = "list"
    /\ listed' = Used(folder) /\ mpc' = "parse"
    /\ UNCHANGED <<indexVars, callVars, world, files, parsed, drafts, filing, fateVars>>

ParseMessages ==         \* mh_delayed_parsing()
    /\ mpc = "parse" /\ listed \subseteq Used(folder)
    /\ parsed' = [n \in listed |-> folder[n]]
    /\ listed' = {} /\ mpc' = "flags"
    /\ UNCHANGED <<indexVars, callVars, world, files, drafts, filing, fateVars>>

\* The email of a message that is gone is freed, and mh_update_emails() reads
\* its path.
ParseFaults ==
    /\ mpc = "parse" /\ ~(listed \subseteq Used(folder))
    /\ mpc' = "fault"
    /\ UNCHANGED <<indexVars, callVars, world, files, scanVars, drafts, filing, fateVars>>

NewEntry(n) == [num |-> n, text |-> parsed[n], read |-> n \notin SeqsRead.unseen, old |-> FALSE,
                deleted |-> FALSE, purge |-> FALSE, changed |-> FALSE, edited |-> FALSE]
NewEntries(nums) == [i \in 1 .. Cardinality(nums) |-> NewEntry(SetToSeq(nums)[i])]

\* Entry i is the message that was read from the file of its number.
Found(i) ==
    /\ index[i].num \in DOMAIN parsed /\ parsed[index[i].num] = index[i].text
    /\ \A j \in 1 .. i - 1 : index[j].num # index[i].num \/ index[j].text # index[i].text

\* Mutation: the flags of known messages are not read again.
StaleMerged == index

\* mh_update_flags(); an entry whose message has disappeared stays as it is.
Merged == [i \in DOMAIN index |->
              IF Found(i) /\ ~index[i].changed
              THEN [index[i] EXCEPT !.read = index[i].num \notin SeqsRead.unseen, !.old = FALSE]
              ELSE index[i]]

ReadFlags ==             \* mh_seq_read(), then the merge
    /\ mpc = "flags"
    /\ LET new == DOMAIN parsed \ {index[i].num : i \in {j \in DOMAIN index : Found(j)}}
       IN  IF task = "none"
           THEN index' = NewEntries(new) /\ mpc' = "idle" /\ UNCHANGED <<mchanged, msgDeleted, callVars>>
           ELSE Merge(Merged \o NewEntries(new), \E i \in DOMAIN index : ~Found(i), Merged # index)
    /\ parsed' = <<>>
    /\ UNCHANGED <<world, files, listed, drafts, filing, fateVars>>

-----------------------------------------------------------------------------
(* The user *)

UserDelete(i, d) ==
    /\ SelfFree /\ world.deletes
    /\ SetDeleted(i, d, FALSE)
    /\ doomed' = IF d THEN doomed \cup {index[i].text[1]} ELSE doomed
    /\ UNCHANGED <<world, files, scanVars, drafts, filing, arrived, known>>

UserChange(i) ==
    /\ SelfFree
    /\ SetRead(i) \/ (world.edits /\ index[i].text[2] = 0 /\ SetEdited(i))
    /\ known' = known \cup {index[i].text[1]}
    /\ UNCHANGED <<world, files, scanVars, drafts, filing, arrived, doomed>>

UserRequest(answer) ==
    /\ SelfFree
    /\ BeginSync(answer) \/ BeginClose(answer) \/ CloseAtOnce(answer)
    /\ UNCHANGED <<world, files, scanVars, drafts, filing, fateVars>>

-----------------------------------------------------------------------------
(* mh_mbox_sync(), after the check *)

\* mh_sync_mailbox_message(): the old ",n" is unlinked first.
Trash(n) == backups' = IF folder[n] # None THEN backups \cup {n} ELSE backups \ {n}

SaveDeleted ==
    /\ At("save") /\ This.deleted
    /\ Trash(This.num)
    /\ folder' = [folder EXCEPT ![This.num] = None]
    /\ dirNewer' = (dirNewer \/ folder[This.num] # None \/ This.num \in backups)
    /\ IF folder[This.num] = None THEN SyncFails ELSE NextMessage /\ UNCHANGED indexVars
    /\ UNCHANGED <<world, seqs, seqNewer, scanVars, drafts, filing, fateVars>>

SaveNothing ==
    /\ At("save") /\ ~This.deleted /\ ~This.edited
    /\ NextMessage
    /\ UNCHANGED <<indexVars, world, files, scanVars, drafts, filing, fateVars>>

\* mh_rewrite_message(): the new text gets a number of its own, the old file
\* goes, and the new one takes its place.
SaveCopy ==
    /\ At("save") /\ ~This.deleted /\ This.edited
    /\ folder[This.num] # None /\ Top + 1 \in Num
    /\ folder' = [folder EXCEPT ![Top + 1] = <<This.text[1], 1>>]
    /\ dirNewer' = TRUE
    /\ copy' = Top + 1
    /\ mpc' = "unlink"
    /\ UNCHANGED <<temp, indexVars, callVars, world, backups, seqs, seqNewer, scanVars, filing, fateVars>>

CopyFailed ==            \* the message is gone, or the disk is full
    /\ At("save") /\ ~This.deleted /\ This.edited
    /\ SyncFails
    /\ UNCHANGED <<world, files, scanVars, drafts, filing, fateVars>>

SaveUnlink ==
    /\ At("unlink")
    /\ folder' = [folder EXCEPT ![This.num] = None]
    /\ dirNewer' = TRUE
    /\ mpc' = "back"
    /\ UNCHANGED <<indexVars, callVars, world, backups, seqs, seqNewer, scanVars, drafts, filing, fateVars>>

\* Mutation: rename() replaces a file that another program put there.
AlwaysFree == TRUE

PlaceFree == folder[This.num] = None

\* mutt_file_safe_rename() fails when the place was taken: so does the sync.
SaveBack ==
    /\ At("back")
    /\ IF PlaceFree /\ folder[copy] # None
       THEN /\ folder' = [folder EXCEPT ![This.num] = folder[copy], ![copy] = None]
            /\ index' = [index EXCEPT ![pos].text[2] = 1, ![pos].edited = FALSE]
            /\ NextMessage
            /\ UNCHANGED <<mchanged, msgDeleted>>
       ELSE /\ index' = [index EXCEPT ![pos].text[2] = 1, ![pos].num = copy]  \* still edited
            /\ Idle
            /\ UNCHANGED <<mchanged, msgDeleted, folder>>
    /\ dirNewer' = TRUE /\ copy' = 0
    /\ UNCHANGED <<temp, world, backups, seqs, seqNewer, scanVars, filing, fateVars>>

\* mh_seq_update(): unknown sequences are copied, the others written from the
\* index.
WriteSeqs ==
    /\ mpc = "save" /\ pos > Len(index)
    /\ temp' = [SeqsRead EXCEPT !.unseen =
                   {index[i].num : i \in {j \in DOMAIN index : ~index[j].deleted /\ ~index[j].read}}]
    /\ mpc' = "replace"
    /\ UNCHANGED <<copy, indexVars, callVars, world, files, scanVars, filing, fateVars>>

UnlinkSeqs ==
    /\ mpc = "replace"
    /\ seqs' = None /\ dirNewer' = TRUE
    /\ mpc' = "rename"
    /\ UNCHANGED <<indexVars, callVars, world, folder, backups, seqNewer, scanVars, drafts, filing, fateVars>>

\* The rename fails if there is a new one; then mh_update_mtime(), and back.
SyncEnds ==
    /\ mpc = "rename"
    /\ seqs' = IF seqs = None THEN temp ELSE seqs
    /\ SyncReturns
    /\ dirNewer' = Closes /\ seqNewer' = Closes
    /\ NoScan
    /\ UNCHANGED <<world, folder, backups, filing, fateVars>>

-----------------------------------------------------------------------------

MhInit ==
    /\ MxInit
    /\ world \in MhWorlds
    /\ folder = [n \in Num |-> None] /\ backups = {}
    /\ seqs = [unseen |-> {}, foreign |-> {1}]
    /\ dirNewer = TRUE /\ seqNewer = TRUE
    /\ listed = {} /\ parsed = <<>> /\ copy = 0 /\ temp = None
    /\ filing = Filed
    /\ arrived = {} /\ doomed = {} /\ known = {}

Filing == MarkUnseen \/ AddToCopy \/ AddUnlink \/ AddRename \/ \E m \in Letter : File(m)

OtherPrograms == \E n \in Num : ReadElsewhere(n) \/ RemoveElsewhere(n)

Reader == StartOpen \/ MhStartCheck \/ CheckStat \/ ListFolder \/ ParseMessages \/ ParseFaults \/ ReadFlags

User ==
    \/ \E i \in DOMAIN index : UserChange(i) \/ \E d \in BOOLEAN : UserDelete(i, d)
    \/ \E answer \in BOOLEAN : UserRequest(answer)

Saver ==
    \/ SaveDeleted \/ SaveNothing \/ SaveCopy \/ CopyFailed \/ SaveUnlink \/ SaveBack
    \/ WriteSeqs \/ UnlinkSeqs \/ SyncEnds

MhNext == Filing \/ OtherPrograms \/ Die \/ Reader \/ User \/ Saver

MhSpec == MhInit /\ [][MhNext]_mhVars
-----------------------------------------------------------------------------
(* Properties *)

MhTypeOK ==
    /\ MxTypeOK(Entry)
    /\ mpc \in {"closed", "idle", "stat", "list", "parse", "flags", "fault", "save", "unlink",
                "back", "replace", "rename"}
    /\ world \in MhWorlds
    /\ folder \in [Num -> Text \cup {None}] /\ backups \subseteq Num
    /\ seqs \in Seqs \cup {None} /\ temp \in Seqs \cup {None} /\ copy \in 0 .. MaxNum
    /\ dirNewer \in BOOLEAN /\ seqNewer \in BOOLEAN
    /\ listed \subseteq Num
    /\ DOMAIN parsed \subseteq Num /\ \A n \in DOMAIN parsed : parsed[n] \in Text
    /\ filing \in [step : {"none", "filed", "copied", "unlinked"}, num : Num, seqs : Seqs]
    /\ doomed \cup known \subseteq arrived /\ arrived \subseteq Letter

\* A message that nobody deleted is in the folder, under some number, at every
\* moment: while mh_rewrite_message() moves it about, when its number has been
\* taken meanwhile, and after a crash.
MailKept ==
    \A m \in arrived \ doomed : \E n \in Num : folder[n] # None /\ folder[n][1] = m

\* A message that nobody has marked read is unseen in .mh_sequences once it is
\* filed, and so is what NeoMutt does not know there: mh_seq_update() writes
\* the file from an index that mh_check() has brought up to date.
UnseenKept ==
    world.saver # "other" /\ ~world.dies /\ ~world.midway /\ seqs # None =>
        /\ 1 \in seqs.foreign
        /\ \A n \in Used(folder) \ seqs.unseen :
              \/ folder[n][1] \in doomed \cup known
              \/ filing.step # "none" /\ filing.num = n

\* When NeoMutt is idle and neither time is later than the one it noted,
\* nothing more will be read: the index then shows every message, as unread as
\* .mh_sequences says.
AllShown ==
    mpc = "idle" /\ ~dirNewer /\ ~seqNewer /\ ~world.midway =>
        \A n \in Used(folder) : \E i \in DOMAIN index :
            /\ index[i].num = n /\ index[i].text = folder[n]
            /\ ~index[i].changed => index[i].read = (n \notin SeqsRead.unseen)

\* A message that is removed while the folder is read is left out, as
\* mh_move_to_mailbox() intends ("if (!md->email) continue").
NoFault == mpc # "fault"
=============================================================================
