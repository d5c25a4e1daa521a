------------------------------ MODULE ImapRing ------------------------------
(***************************************************************************)
(* The pipeline of IMAP commands that wait for their tagged completion:    *)
(* the ring adata->cmds of imap/command.c with its two indices and the tag *)
(* counter.  cmd_new() takes the slot at nextcmd, imap_cmd_step() looks for *)
(* a tagged line from lastcmd to nextcmd, imap_close_connection() empties  *)
(* the ring.  ImapSession runs these operations under the control flow of  *)
(* the client; Spec below runs them in any order.                          *)
(***************************************************************************)
EXTENDS Naturals, FiniteSets

CONSTANTS
    Slots,     \* adata->cmdslots, $imap_pipeline_depth + 2
    SeqMod     \* the tag counter wraps at SeqMod (10000 in the code)

\* The code does not enforce Slots =< SeqMod: $imap_pipeline_depth is a short,
\* the tag has four digits.  Tags are distinct only below that depth.
ASSUME RingAssumption ==
    /\ Slots \in Nat /\ Slots >= 2
    /\ SeqMod \in Nat /\ Slots <= SeqMod

VARIABLES
    cmds,      \* slot -> [seq, state] (struct ImapCommand)
    nextcmd,   \* slot the next command takes
    lastcmd,   \* slot of the oldest command not known to be completed
    seqno      \* number of the next tag

ringVars == <<cmds, nextcmd, lastcmd, seqno>>

Slot   == 0 .. Slots - 1
Tag    == 0 .. SeqMod - 1
Result == {"OK", "NO", "BAD"}       \* cmd_status() of a completion

RingTypeOK ==
    /\ cmds \in [Slot -> [seq : Tag, state : Result \cup {"NEW"}]]
    /\ nextcmd \in Slot
    /\ lastcmd \in Slot
    /\ seqno \in Tag

\* memset(adata->cmds, 0): state 0 is IMAP_RES_OK.
EmptySlots == [i \in Slot |-> [seq |-> 0, state |-> "OK"]]

RingInit ==
    /\ cmds = EmptySlots
    /\ nextcmd = 0 /\ lastcmd = 0 /\ seqno = 0

-----------------------------------------------------------------------------

\* Mutation: the index does not wrap.
PastEnd(i, n) == i + 1

After(i, n) == IF i + 1 = n THEN 0 ELSE i + 1            \* (i + 1) % n
Ahead(i, j) == IF j >= i THEN j - i ELSE j + Slots - i   \* steps from i to j

Full == After(nextcmd, Slots) = lastcmd                  \* cmd_queue_full()

IsNew(i)   == cmds[i].state = "NEW"
NewTags    == {cmds[i].seq : i \in {j \in Slot : IsNew(j)}}

\* cmd_new(): the tag of the command is the old seqno.
NewCommand ==
    /\ ~Full
    /\ cmds' = [cmds EXCEPT ![nextcmd] = [seq |-> seqno, state |-> "NEW"]]
    /\ nextcmd' = After(nextcmd, Slots)
    /\ seqno' = After(seqno, SeqMod)
    /\ lastcmd' = lastcmd

\* The slots the do-while loop of imap_cmd_step() visits: lastcmd up to
\* nextcmd, or the whole ring when the two are equal.
Scanned == IF lastcmd = nextcmd
           THEN Slot
           ELSE {i \in Slot : Ahead(lastcmd, i) < Ahead(lastcmd, nextcmd)}

Matching(t) == {i \in Scanned : IsNew(i) /\ cmds[i].seq = t}
Running(t)  == {i \in Scanned : IsNew(i)} \ Matching(t)

\* Mutation: lastcmd moves with every completion.
AlwaysForemost(t) == Matching(t) # {}

\* lastcmd moves when no command before the completed one is running.
Foremost(t) ==
    \E i \in Matching(t) : \A j \in Running(t) : Ahead(lastcmd, i) < Ahead(lastcmd, j)

\* The scan for a line that is the completion r of tag t.
Complete(t, r) ==
    /\ cmds' = [i \in Slot |-> IF i \in Matching(t)
                               THEN [cmds[i] EXCEPT !.state = r]
                               ELSE cmds[i]]
    /\ lastcmd' = IF Foremost(t) THEN After(lastcmd, Slots) ELSE lastcmd
    /\ UNCHANGED <<nextcmd, seqno>>

\* Mutation: the indices restart, the slots are not cleared.
ResetIndices ==
    /\ cmds' = cmds
    /\ nextcmd' = 0 /\ lastcmd' = 0 /\ seqno' = 0

\* The ring part of imap_close_connection().
ResetRing ==
    /\ cmds' = EmptySlots
    /\ nextcmd' = 0 /\ lastcmd' = 0 /\ seqno' = 0

RingNext ==
    \/ NewCommand
    \/ \E t \in Tag, r \in Result : Complete(t, r)
    \/ ResetRing

RingSpec == RingInit /\ [][RingNext]_ringVars

-----------------------------------------------------------------------------
(* Properties *)

\* A command whose answer is awaited is never outside the part of the ring
\* that imap_cmd_step() searches, so its completion is found however often
\* the indices have wrapped and in whatever order completions came.
NewInWindow ==
    \A i \in Slot : IsNew(i) => Ahead(lastcmd, i) < Ahead(lastcmd, nextcmd)

\* No two commands that wait for an answer carry the same tag, although the
\* tag counter wraps: one completion line ends one command.
NewTagsDistinct ==
    \A i, j \in Slot : IsNew(i) /\ IsNew(j) /\ cmds[i].seq = cmds[j].seq => i = j

\* cmd_new() never takes the slot of a command that waits for its answer:
\* a command leaves NEW only through its own completion or through a reset.
NoCommandOverwritten ==
    [][\A i \in Slot : IsNew(i) =>
          \/ cmds'[i] = cmds[i]
          \/ cmds'[i] = [cmds[i] EXCEPT !.state = cmds'[i].state]
                /\ nextcmd' = nextcmd
          \/ cmds' = EmptySlots]_ringVars

\* Each waiting command stands as many slots before nextcmd as its tag stands
\* before seqno.  This is what makes NewTagsDistinct inductive.
TagsCountBack ==
    \A i \in Slot : IsNew(i) =>
        LET d == Ahead(i, nextcmd)
        IN  /\ d > 0
            /\ cmds[i].seq = IF seqno >= d THEN seqno - d ELSE seqno + SeqMod - d

\* What cmd_new() and the scan of imap_cmd_step() rely on, together: the ring
\* keeps its shape, no waiting command leaves the window, and tags count back.
RingInv == RingTypeOK /\ NewInWindow /\ TagsCountBack

\* The abstract pipeline: the waiting commands are those in the ring.
Pipe == INSTANCE Pipeline WITH waiting <- NewTags, next <- seqno

\* The ring implements the abstract pipeline: however slots are reused, both
\* indices and the counter wrap and answers overtake each other, cmd_new() adds
\* a tag that does not wait yet, and a completion takes away one that does.
ImplementsPipeline == Pipe!PipeSpec
=============================================================================
