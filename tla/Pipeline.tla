------------------------------ MODULE Pipeline ------------------------------
(***************************************************************************)
(* What the command pipeline of imap/command.c promises to its users: a    *)
(* set of tags that wait for their answer.  A command is given a tag that  *)
(* does not wait, an answer ends the one command that has its tag and no   *)
(* other, and a closed connection ends them all.  ImapRing implements this *)
(* with a ring of slots, two indices and a counter that wraps.             *)
(***************************************************************************)
EXTENDS Naturals

CONSTANT SeqMod    \* the number of tags

VARIABLES
    waiting,       \* tags of the commands whose answer is due
    next           \* the tag of the next command

PipeInit == waiting = {} /\ next = 0

Issue ==
    /\ next \notin waiting
    /\ waiting' = waiting \cup {next}
    /\ next' = IF next + 1 = SeqMod THEN 0 ELSE next + 1

Answer ==
    /\ \E t \in waiting : waiting' = waiting \ {t}
    /\ next' = next

Drop == waiting' = {} /\ next' = 0

PipeNext == Issue \/ Answer \/ Drop

PipeSpec == PipeInit /\ [][PipeNext]_<<waiting, next>>
=============================================================================
