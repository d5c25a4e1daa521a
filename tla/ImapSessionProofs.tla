-------------------------- MODULE ImapSessionProofs --------------------------
(***************************************************************************)
(* Proofs about the command ring by itself, under the control flow of the  *)
(* client, and about what imap_exec() and its likes wait for and report,   *)
(* for every pipeline depth, tag modulus, mix of operations and order of   *)
(* the server's answers.                                                   *)
(***************************************************************************)
EXTENDS ImapSession, ListsProofs

-----------------------------------------------------------------------------
(* The ring by itself *)

\* A completion lets the commands that still wait keep slot and tag.
LEMMA CompleteKeepsRunning ==
    ASSUME RingTypeOK, NEW t, NEW r \in Result, Complete(t, r),
           NEW i \in Slot, cmds'[i].state = "NEW"
    PROVE  IsNew(i) /\ i \notin Matching(t) /\ cmds'[i] = cmds[i]
<1>1. cmds'[i] = IF i \in Matching(t) THEN [cmds[i] EXCEPT !.state = r] ELSE cmds[i]
    BY DEF Complete
<1>2. i \notin Matching(t)
    <2>1. SUFFICES ASSUME i \in Matching(t) PROVE FALSE
        OBVIOUS
    <2>2. cmds'[i].state = r
        BY <1>1, <2>1 DEF RingTypeOK
    <2>3. QED BY <2>2 DEF Result
<1>3. QED BY <1>1, <1>2 DEF IsNew

\* Taking a slot keeps the type and the window.
LEMMA NewCommandRing ==
    ASSUME RingInv, NewCommand
    PROVE  RingInv'
<1> USE RingAssumption
<1>1. RingTypeOK'
    BY DEF RingInv, NewCommand, RingTypeOK, Slot, Tag, Result, After
<1>2. ASSUME NEW i \in Slot, IsNew(i)', i # nextcmd
      PROVE  /\ IsNew(i) /\ cmds'[i] = cmds[i]
             /\ Ahead(lastcmd, i) < Ahead(lastcmd, nextcmd)
    BY <1>2 DEF RingInv, RingTypeOK, NewCommand, IsNew, NewInWindow
<1>3. Ahead(lastcmd, nextcmd') = Ahead(lastcmd, nextcmd) + 1
    BY DEF RingInv, RingTypeOK, NewCommand, Full, Slot, After, Ahead
<1>4. ASSUME NEW i \in Slot, IsNew(i)'
      PROVE  Ahead(lastcmd, i) < Ahead(lastcmd, nextcmd')
    <2>1. CASE i = nextcmd
        BY <1>3, <2>1 DEF RingInv, RingTypeOK, Slot, Ahead
    <2>2. CASE i # nextcmd
        BY <1>2, <1>3, <1>4, <2>2 DEF RingInv, RingTypeOK, Slot, Ahead
    <2>3. QED BY <2>1, <2>2
<1>5. NewInWindow'
    BY <1>4 DEF NewInWindow, NewCommand, Ahead, IsNew
<1>6. ASSUME NEW i \in Slot, IsNew(i)'
      PROVE  LET d == Ahead(i, nextcmd')
             IN  /\ d > 0
                 /\ cmds'[i].seq = IF seqno' >= d THEN seqno' - d
                                   ELSE seqno' + SeqMod - d
    <2>1. CASE i = nextcmd
        <3>1. cmds'[i].seq = seqno
            BY <2>1 DEF RingInv, RingTypeOK, NewCommand
        <3>2. Ahead(i, nextcmd') = 1
            BY <2>1 DEF RingInv, RingTypeOK, NewCommand, Slot, After, Ahead
        <3>3. QED
            BY <3>1, <3>2 DEF RingInv, RingTypeOK, NewCommand, Tag, After
    <2>2. CASE i # nextcmd
        <3>1. /\ Ahead(i, nextcmd) > 0
              /\ cmds'[i].seq = IF seqno >= Ahead(i, nextcmd)
                                THEN seqno - Ahead(i, nextcmd)
                                ELSE seqno + SeqMod - Ahead(i, nextcmd)
            BY <1>2, <1>6, <2>2 DEF RingInv, TagsCountBack
        <3>2. Ahead(i, nextcmd') = Ahead(i, nextcmd) + 1
            <4>1. Ahead(lastcmd, i) < Ahead(lastcmd, nextcmd)
                BY <1>2, <1>6, <2>2
            <4>2. QED
                BY <4>1 DEF RingInv, RingTypeOK, NewCommand, Full, Slot, After, Ahead
        <3>3. Ahead(i, nextcmd) \in 0 .. Slots - 1
            BY DEF RingInv, RingTypeOK, Slot, Ahead
        <3>4. Ahead(i, nextcmd') \in 0 .. Slots - 1
            BY DEF RingInv, RingTypeOK, NewCommand, After, Slot, Ahead
        <3>5. seqno \in 0 .. SeqMod - 1 /\ seqno' = IF seqno + 1 = SeqMod THEN 0 ELSE seqno + 1
            BY DEF RingInv, RingTypeOK, NewCommand, Tag, After
        <3>6. QED BY <3>1, <3>2, <3>3, <3>4, <3>5
    <2>3. QED BY <2>1, <2>2
<1>7. TagsCountBack'
    BY <1>6 DEF TagsCountBack, Ahead, IsNew
<1>8. QED BY <1>1, <1>5, <1>7 DEF RingInv

\* A tagged line keeps the type and the window.
LEMMA CompleteRing ==
    ASSUME RingInv, NEW t, NEW r \in Result, Complete(t, r)
    PROVE  RingInv'
<1> USE RingAssumption
<1>1. RingTypeOK'
    <2>1. ASSUME NEW i \in Slot
          PROVE  [cmds[i] EXCEPT !.state = r] \in [seq : Tag, state : Result \cup {"NEW"}]
        BY DEF RingInv, RingTypeOK
    <2>2. cmds' \in [Slot -> [seq : Tag, state : Result \cup {"NEW"}]]
        BY <2>1 DEF RingInv, RingTypeOK, Complete
    <2>3. lastcmd' \in Slot
        BY DEF RingInv, RingTypeOK, Complete, After, Slot
    <2>4. QED BY <2>2, <2>3 DEF RingInv, RingTypeOK, Complete
<1>2. ASSUME NEW i \in Slot, IsNew(i)'
      PROVE  /\ IsNew(i) /\ cmds'[i] = cmds[i] /\ i \in Running(t)
             /\ Ahead(lastcmd, i) < Ahead(lastcmd, nextcmd)
    <2>1. IsNew(i) /\ i \notin Matching(t) /\ cmds'[i] = cmds[i]
        BY <1>2, CompleteKeepsRunning DEF IsNew, RingInv
    <2>2. Ahead(lastcmd, i) < Ahead(lastcmd, nextcmd)
        BY <2>1 DEF RingInv, NewInWindow
    <2>3. i \in Scanned
        BY <2>2 DEF Scanned
    <2>4. QED BY <2>1, <2>2, <2>3 DEF Running
<1>3. NewInWindow'
    <2>1. SUFFICES ASSUME NEW i \in Slot, IsNew(i)'
                   PROVE  Ahead(lastcmd', i) < Ahead(lastcmd', nextcmd)
        BY DEF NewInWindow, Ahead, Complete, IsNew
    <2>2. CASE lastcmd' = lastcmd
        BY <1>2, <2>1, <2>2
    <2>3. CASE Foremost(t) /\ lastcmd' = After(lastcmd, Slots)
        <3>1. PICK m \in Matching(t) : Ahead(lastcmd, m) < Ahead(lastcmd, i)
            BY <1>2, <2>1, <2>3 DEF Foremost
        <3>2. m \in Slot /\ Ahead(lastcmd, i) < Ahead(lastcmd, nextcmd)
            BY <1>2, <2>1, <3>1 DEF Matching, Scanned
        <3>3. QED
            BY <2>3, <3>1, <3>2 DEF RingInv, RingTypeOK, Slot, After, Ahead
    <2>4. QED BY <2>2, <2>3 DEF Complete
<1>4. TagsCountBack'
    BY <1>2 DEF RingInv, TagsCountBack, Complete, Ahead, IsNew
<1>5. QED BY <1>1, <1>3, <1>4 DEF RingInv

\* The empty ring satisfies the invariant.
LEMMA EmptyRing ==
    ASSUME cmds = EmptySlots, nextcmd = 0, lastcmd = 0, seqno = 0
    PROVE  RingInv
<1>1. RingTypeOK
    BY RingAssumption DEF RingTypeOK, EmptySlots, Slot, Tag, Result
<1>2. \A i \in Slot : ~IsNew(i)
    BY DEF EmptySlots, IsNew
<1>3. QED BY <1>1, <1>2 DEF RingInv, NewInWindow, TagsCountBack

\* imap_close_connection() establishes the invariant again.
LEMMA ResetRingInv ==
    ASSUME ResetRing
    PROVE  RingInv'
<1>1. RingTypeOK'
    BY RingAssumption DEF ResetRing, RingTypeOK, EmptySlots, Slot, Tag, Result
<1>2. \A i \in Slot : ~IsNew(i)'
    BY DEF ResetRing, EmptySlots, IsNew
<1>3. QED BY <1>1, <1>2 DEF RingInv, NewInWindow, TagsCountBack

\* The invariant of the command ring holds in every reachable state: whatever
\* the order of completions, and however often ring and tag counter wrap, the
\* commands that wait for an answer lie in the part imap_cmd_step() searches.
THEOREM RingInvariant == RingSpec => []RingInv
<1>1. RingInit => RingInv
    BY EmptyRing DEF RingInit
<1>2. RingInv /\ [RingNext]_ringVars => RingInv'
    <2> SUFFICES ASSUME RingInv, [RingNext]_ringVars PROVE RingInv'
        OBVIOUS
    <2>1. CASE NewCommand
        BY <2>1, NewCommandRing
    <2>2. ASSUME NEW t \in Tag, NEW r \in Result, Complete(t, r) PROVE RingInv'
        BY <2>2, CompleteRing
    <2>3. CASE ResetRing
        BY <2>3, ResetRingInv
    <2>4. CASE UNCHANGED ringVars
        BY <2>4 DEF RingInv, RingTypeOK, NewInWindow, TagsCountBack, ringVars, Ahead, IsNew
    <2>5. QED BY <2>1, <2>2, <2>3, <2>4 DEF RingNext
<1>3. QED BY <1>1, <1>2, PTL DEF RingSpec

\* Slots at different distances from nextcmd hold different tags.
LEMMA InvImpliesDistinct == RingInv => NewTagsDistinct
<1> SUFFICES ASSUME RingInv, NEW i \in Slot, NEW j \in Slot,
                    IsNew(i), IsNew(j), cmds[i].seq = cmds[j].seq
             PROVE  i = j
    BY DEF NewTagsDistinct
<1> USE RingAssumption
<1>1. /\ Ahead(i, nextcmd) \in 1 .. Slots - 1
      /\ cmds[i].seq = IF seqno >= Ahead(i, nextcmd) THEN seqno - Ahead(i, nextcmd)
                       ELSE seqno + SeqMod - Ahead(i, nextcmd)
    BY DEF RingInv, RingTypeOK, TagsCountBack, Slot, Ahead
<1>2. /\ Ahead(j, nextcmd) \in 1 .. Slots - 1
      /\ cmds[j].seq = IF seqno >= Ahead(j, nextcmd) THEN seqno - Ahead(j, nextcmd)
                       ELSE seqno + SeqMod - Ahead(j, nextcmd)
    BY DEF RingInv, RingTypeOK, TagsCountBack, Slot, Ahead
<1>3. ASSUME NEW d \in 1 .. Slots - 1, NEW e \in 1 .. Slots - 1,
             (IF seqno >= d THEN seqno - d ELSE seqno + SeqMod - d)
               = (IF seqno >= e THEN seqno - e ELSE seqno + SeqMod - e)
      PROVE  d = e
    BY <1>3 DEF RingInv, RingTypeOK, Tag
<1>4. Ahead(i, nextcmd) = Ahead(j, nextcmd)
    BY <1>1, <1>2, <1>3
<1>5. QED BY <1>4 DEF RingInv, RingTypeOK, Slot, Ahead

\* A tagged line ends at most one command: two waiting commands never carry
\* the same tag, although the counter wraps.
THEOREM TagsDistinct == RingSpec => []NewTagsDistinct
BY RingInvariant, InvImpliesDistinct, PTL

\* cmd_new() never takes the slot of a command that waits for its answer, for
\* any depth of the pipeline.
THEOREM NothingOverwritten == RingSpec => NoCommandOverwritten
<1> DEFINE Kept(i) ==
        \/ cmds'[i] = cmds[i]
        \/ cmds'[i] = [cmds[i] EXCEPT !.state = cmds'[i].state] /\ nextcmd' = nextcmd
        \/ cmds' = EmptySlots
<1>1. RingInv /\ [RingNext]_ringVars => [\A i \in Slot : IsNew(i) => Kept(i)]_ringVars
    <2> SUFFICES ASSUME RingInv, [RingNext]_ringVars, ringVars' # ringVars,
                        NEW i \in Slot, IsNew(i)
                 PROVE  Kept(i)
        OBVIOUS
    <2>1. CASE NewCommand
        <3>1. i # nextcmd
            BY RingAssumption DEF RingInv, NewInWindow, RingTypeOK, Slot, Ahead
        <3>2. QED BY <2>1, <3>1 DEF NewCommand, RingInv, RingTypeOK
    <2>2. ASSUME NEW t \in Tag, NEW r \in Result, Complete(t, r) PROVE Kept(i)
        <3>1. CASE i \in Matching(t)
            <4>1. cmds'[i] = [cmds[i] EXCEPT !.state = r] /\ nextcmd' = nextcmd
                BY <2>2, <3>1 DEF Complete
            <4>2. cmds'[i].state = r
                BY <4>1 DEF RingInv, RingTypeOK
            <4>3. QED BY <4>1, <4>2
        <3>2. CASE i \notin Matching(t)
            BY <2>2, <3>2 DEF Complete
        <3>3. QED BY <3>1, <3>2
    <2>3. CASE ResetRing
        BY <2>3 DEF ResetRing
    <2>4. QED BY <2>1, <2>2, <2>3 DEF RingNext
<1>2. QED BY <1>1, RingInvariant, PTL DEF RingSpec, NoCommandOverwritten

\* cmd_new() adds a tag that does not wait: seqno is further from every waiting
\* tag than the ring is long.
LEMMA NewCommandPipe ==
    ASSUME RingInv, NewCommand
    PROVE  Pipe!Issue
<1> USE RingAssumption
<1>1. seqno \notin NewTags
    <2> SUFFICES ASSUME NEW i \in Slot, IsNew(i) PROVE cmds[i].seq # seqno
        BY DEF NewTags
    <2>1. /\ Ahead(i, nextcmd) \in 1 .. Slots - 1
          /\ cmds[i].seq = IF seqno >= Ahead(i, nextcmd) THEN seqno - Ahead(i, nextcmd)
                           ELSE seqno + SeqMod - Ahead(i, nextcmd)
        BY DEF RingInv, RingTypeOK, TagsCountBack, Slot, Ahead
    <2>2. QED BY <2>1 DEF RingInv, RingTypeOK, Tag
<1>2. ~IsNew(nextcmd)
    BY DEF RingInv, NewInWindow, RingTypeOK, Slot, Ahead
<1>3. nextcmd \in Slot /\ cmds'[nextcmd] = [seq |-> seqno, state |-> "NEW"]
    BY DEF RingInv, RingTypeOK, NewCommand
<1>4. \A i \in Slot \ {nextcmd} : cmds'[i] = cmds[i]
    BY DEF RingInv, RingTypeOK, NewCommand
<1>5. NewTags' = NewTags \cup {seqno}
    BY <1>2, <1>3, <1>4 DEF NewTags, IsNew
<1>6. QED BY <1>1, <1>5 DEF Pipe!Issue, NewCommand, After

\* A completion takes the tag it answers from the tags that wait, wherever in
\* the ring its command is, and no other.
LEMMA CompletePipe ==
    ASSUME RingInv, NEW t, NEW r \in Result, Complete(t, r)
    PROVE  NewTags' = NewTags \ {t} /\ seqno' = seqno
<1>1. ASSUME NEW i \in Slot, IsNew(i), cmds[i].seq = t
      PROVE  i \in Matching(t)
    BY <1>1 DEF RingInv, NewInWindow, Matching, Scanned
<1>2. ASSUME NEW i \in Slot, IsNew(i)'
      PROVE  IsNew(i) /\ cmds[i].seq # t /\ cmds'[i] = cmds[i]
    BY <1>1, <1>2, CompleteKeepsRunning DEF RingInv, IsNew
<1>3. ASSUME NEW i \in Slot, IsNew(i), cmds[i].seq # t
      PROVE  IsNew(i)' /\ cmds'[i] = cmds[i]
    BY <1>3 DEF Complete, Matching, IsNew
<1>4. NewTags' = NewTags \ {t}
    BY <1>2, <1>3 DEF NewTags
<1>5. QED BY <1>4 DEF Complete

\* A ring whose commands are all completed is the empty pipeline.
LEMMA NothingWaits == cmds = EmptySlots => NewTags = {}
BY DEF EmptySlots, NewTags, IsNew

\* One operation on the ring is one step of the abstract pipeline, or none.
LEMMA RingStepPipe ==
    ASSUME RingInv,
           \/ NewCommand
           \/ \E r \in Result : \E t : Complete(t, r)
           \/ ResetRing
           \/ UNCHANGED ringVars
    PROVE  [Pipe!PipeNext]_<<NewTags, seqno>>
<1>1. CASE NewCommand
    BY <1>1, NewCommandPipe DEF Pipe!PipeNext
<1>2. ASSUME NEW r \in Result, NEW t, Complete(t, r)
      PROVE  [Pipe!PipeNext]_<<NewTags, seqno>>
    <2>1. NewTags' = NewTags \ {t} /\ seqno' = seqno
        BY <1>2, CompletePipe
    <2>2. CASE t \in NewTags
        BY <2>1, <2>2 DEF Pipe!PipeNext, Pipe!Answer
    <2>3. CASE t \notin NewTags
        BY <2>1, <2>3
    <2>4. QED BY <2>2, <2>3
<1>3. CASE ResetRing
    <2>1. NewTags' = {}
        BY <1>3 DEF ResetRing, EmptySlots, NewTags, IsNew
    <2>2. QED BY <1>3, <2>1 DEF ResetRing, Pipe!PipeNext, Pipe!Drop
<1>4. CASE UNCHANGED ringVars
    BY <1>4 DEF ringVars, NewTags, IsNew
<1>5. QED BY <1>1, <1>2, <1>3, <1>4

\* The ring implements the abstract pipeline, for every depth and tag range:
\* a new command gets a tag that does not wait, an answer ends one command.
THEOREM RingImplementsPipeline == RingSpec => ImplementsPipeline
<1>1. RingInit => Pipe!PipeInit
    BY NothingWaits DEF RingInit, Pipe!PipeInit
<1>2. RingInv /\ [RingNext]_ringVars => [Pipe!PipeNext]_<<NewTags, seqno>>
    BY RingStepPipe DEF RingNext
<1>3. QED
    BY <1>1, <1>2, RingInvariant, PTL DEF RingSpec, ImplementsPipeline, Pipe!PipeSpec

-----------------------------------------------------------------------------
(* A full ring *)

\* When cmd_queue_full() holds, an answer is due.
FullWaits == Full => NewTags # {}

\* A command that is queued waits.
LEMMA NewCommandFull ==
    ASSUME RingInv, NewCommand
    PROVE  FullWaits'
<1>1. NewTags' = NewTags \cup {seqno}
    BY NewCommandPipe DEF Pipe!Issue
<1>2. QED BY <1>1 DEF FullWaits

\* The last completion is the foremost one, and makes room.
LEMMA CompleteFull ==
    ASSUME RingInv, FullWaits, NEW t, NEW r \in Result, Complete(t, r)
    PROVE  FullWaits'
<1> USE RingAssumption
<1>0. /\ nextcmd \in Slot /\ lastcmd \in Slot /\ nextcmd' = nextcmd
      /\ lastcmd' = IF Foremost(t) THEN After(lastcmd, Slots) ELSE lastcmd
    BY DEF RingInv, RingTypeOK, Complete
<1>1. SUFFICES ASSUME After(nextcmd, Slots) = lastcmd' PROVE NewTags' # {}
    BY <1>0 DEF FullWaits, Full
<1>2. CASE Foremost(t)
    <2>1. PICK i \in Slot : IsNew(i)
        BY <1>2 DEF Foremost, Matching, Scanned
    <2>2. Ahead(lastcmd, i) < Ahead(lastcmd, nextcmd)
        BY <2>1 DEF RingInv, NewInWindow
    <2>3. nextcmd = lastcmd
        BY <1>0, <1>1, <1>2 DEF After, Slot
    <2>4. QED BY <1>0, <2>1, <2>2, <2>3 DEF Ahead, Slot
<1>3. CASE ~Foremost(t)
    <2>1. PICK i \in Slot : IsNew(i)
        BY <1>0, <1>1, <1>3 DEF FullWaits, Full, NewTags
    <2>2. i \in Scanned
        BY <2>1 DEF RingInv, NewInWindow, Scanned
    <2>3. Running(t) # {}
        <3>1. CASE cmds[i].seq = t
            <4>1. i \in Matching(t)
                BY <2>1, <2>2, <3>1 DEF Matching
            <4>2. QED BY <1>3, <4>1 DEF Foremost
        <3>2. CASE cmds[i].seq # t
            BY <2>1, <2>2, <3>2 DEF Running, Matching
        <3>3. QED BY <3>1, <3>2
    <2>4. PICK j \in Slot : IsNew(j) /\ cmds[j].seq # t
        BY <2>3 DEF Running, Matching, Scanned
    <2>5. cmds[j].seq \in NewTags \ {t}
        BY <2>4 DEF NewTags
    <2>6. QED BY <2>5, CompletePipe
<1>4. QED BY <1>2, <1>3

\* cmd_queue_full() is never true of a ring whose commands are all answered:
\* draining the pipeline makes room, and there is something to drain.
LEMMA FullKept ==
    ASSUME RingInv, FullWaits,
           \/ NewCommand
           \/ \E r \in Result : \E t : Complete(t, r)
           \/ ResetRing
           \/ UNCHANGED ringVars
    PROVE  FullWaits'
<1>1. CASE NewCommand
    BY <1>1, NewCommandFull
<1>2. CASE \E r \in Result : \E t : Complete(t, r)
    BY <1>2, CompleteFull
<1>3. CASE ResetRing
    BY <1>3, RingAssumption DEF ResetRing, FullWaits, Full, After
<1>4. CASE UNCHANGED ringVars
    BY <1>4 DEF ringVars, FullWaits, Full, NewTags, IsNew
<1>5. QED BY <1>1, <1>2, <1>3, <1>4

-----------------------------------------------------------------------------
(* The ring in the session *)

\* A step of the session is at most one operation on the ring.
RingStep ==
    \/ NewCommand
    \/ \E r \in Result : \E t : Complete(t, r)
    \/ ResetRing
    \/ UNCHANGED ringVars

\* imap_exec(), cmd_start() and their waits only ever take a slot.
LEMMA ExecRing == ExecStep => RingStep
<1> SUFFICES ASSUME ExecStep PROVE RingStep
    OBVIOUS
<1> USE DEF RingStep
<1>1. CASE Enqueue
    BY <1>1 DEF Enqueue
<1>2. CASE SingleDrain \/ CmdStart \/ Drained \/ StillFull \/ SendNothing
    BY <1>2 DEF SingleDrain, CmdStart, Drained, StillFull, SendNothing
<1>3. CASE Send \/ SendFails \/ StartFail \/ RetFatal
    BY <1>3 DEF Send, SendFails, StartFail, RetFatal
<1>4. CASE PollReady \/ PollTimeout \/ Wait \/ Stepped
    BY <1>4 DEF PollReady, PollTimeout, Wait, Stepped
<1>5. QED BY <1>1, <1>2, <1>3, <1>4 DEF ExecStep

\* imap_cmd_step() only ever completes a command.
LEMMA ReadRing == ReadStep => RingStep
<1> SUFFICES ASSUME ReadStep PROVE RingStep
    OBVIOUS
<1> USE DEF RingStep
<1>1. CASE StepFatal \/ ReadError \/ ReadContinuation \/ ReadUntagged
    BY <1>1 DEF StepFatal, ReadError, ReadContinuation, ReadUntagged
<1>2. ASSUME NEW k \in 1 .. Slots, NEW r \in Results, ReadTagged(k, r)
      PROVE  RingStep
    <2>1. Complete(sent[k], r) /\ r \in Result
        BY <1>2, SessionAssumption DEF ReadTagged
    <2>2. QED BY <2>1
<1>3. QED BY <1>1, <1>2 DEF ReadStep

\* Recovery and login empty the ring, or leave it to imap_exec().
LEMMA RecoveryRing == FinishStep \/ FatalStep \/ LoginStep => RingStep
<1> SUFFICES ASSUME FinishStep \/ FatalStep \/ LoginStep PROVE RingStep
    OBVIOUS
<1> USE DEF RingStep
<1>1. CASE FinishStep
    BY <1>1 DEF FinishStep, FinishFetch, Finish, Fetched, StepBad
<1>2. CASE FatalStep
    BY <1>2 DEF FatalStep, HandleFatalNoMailbox, HandleFatal, Recovered, CloseConnection
<1>3. CASE LoginStep
    <2>1. CASE Bail
        BY <2>1 DEF Bail, CloseConnection
    <2>2. CASE OpenConnection \/ OpenFails \/ Greeted \/ Preauth
        BY <2>2 DEF OpenConnection, OpenFails, Greeted, Preauth
    <2>3. CASE Capable \/ StartTls \/ TlsDone \/ Secured \/ Authenticate \/ Authenticated
        BY <2>3 DEF Capable, StartTls, TlsDone, Secured, Authenticate, Authenticated
    <2>4. CASE PostLogin \/ Compress \/ Enable \/ List \/ Flush \/ Select \/ LoginDone
        BY <2>4 DEF PostLogin, Compress, Enable, List, Flush, Select, LoginDone
    <2>5. QED BY <1>3, <2>1, <2>2, <2>3, <2>4 DEF LoginStep
<1>4. QED BY <1>1, <1>2, <1>3

\* The callers do not touch the ring, but for freeing the account.
LEMMA CallerRing == MailboxStep \/ UserStep => RingStep
<1> SUFFICES ASSUME MailboxStep \/ UserStep PROVE RingStep
    OBVIOUS
<1> USE DEF RingStep
<1>1. CASE MailboxStep
    BY <1>1 DEF MailboxStep, AccountAdded, AccountFreed, OpenQueue, OpenSelect, Opened,
                CloseCommand, CloseFatal, Closed, CloseConnection
<1>2. CASE UserStep
    BY <1>2 DEF UserStep, UserExec, CheckIdle, CheckRead, CheckFinish, OpenMailbox,
                CloseMailbox
<1>3. QED BY <1>1, <1>2

\* Every step of the session, and no step at all, is one of these.
LEMMA StepIsRingStep == [Next]_vars => RingStep
<1> SUFFICES ASSUME [Next]_vars PROVE RingStep
    OBVIOUS
<1>1. CASE Next
    BY <1>1, ExecRing, ReadRing, RecoveryRing, CallerRing DEF Next, ClientStep
<1>2. CASE UNCHANGED vars
    BY <1>2 DEF vars, RingStep
<1>3. QED BY <1>1, <1>2

\* Whatever the user asks for, however the server orders its answers and
\* wherever the connection is lost, a command that waits for its answer stays
\* in the part of the ring that imap_cmd_step() searches.
THEOREM SessionRing == Spec => []RingInv
<1>1. Init => RingInv
    BY EmptyRing DEF Init, NewAccount, RingInit
<1>2. RingInv /\ [Next]_vars => RingInv'
    <2> SUFFICES ASSUME RingInv, RingStep PROVE RingInv'
        BY StepIsRingStep
    <2>1. CASE NewCommand
        BY <2>1, NewCommandRing
    <2>2. ASSUME NEW r \in Result, NEW t, Complete(t, r) PROVE RingInv'
        BY <2>2, CompleteRing
    <2>3. CASE ResetRing
        BY <2>3, ResetRingInv
    <2>4. CASE UNCHANGED ringVars
        BY <2>4 DEF RingInv, RingTypeOK, NewInWindow, TagsCountBack, ringVars, Ahead, IsNew
    <2>5. QED BY <2>1, <2>2, <2>3, <2>4 DEF RingStep
<1>3. QED BY <1>1, <1>2, PTL DEF Spec

\* In the whole session no two commands that wait carry the same tag: an
\* answer of the server ends one command, the one it was given to.
THEOREM SessionTagsDistinct == Spec => []NewTagsDistinct
BY SessionRing, InvImpliesDistinct, PTL

\* The whole session, with its recoveries, time-outs and lost connections,
\* implements the abstract pipeline: a command gets a tag that does not wait,
\* an answer ends one command, a closed connection ends them all.
THEOREM SessionImplementsPipeline == Spec => ImplementsPipeline
<1>1. Init => Pipe!PipeInit
    BY NothingWaits DEF Init, NewAccount, RingInit, Pipe!PipeInit
<1>2. RingInv /\ [Next]_vars => [Pipe!PipeNext]_<<NewTags, seqno>>
    BY StepIsRingStep, RingStepPipe DEF RingStep
<1>3. QED
    BY <1>1, <1>2, SessionRing, PTL DEF Spec, ImplementsPipeline, Pipe!PipeSpec

-----------------------------------------------------------------------------
(* The stack of activations *)

Activation == [pc : Pcs, kind : Kinds, own : Tag \cup {Nil}, fate : Fates, rc : Results \cup {"OK"}]

\* Where an activation of each function may be: imap_exec() and its likes,
\* imap_cmd_step() and imap_cmd_finish(), cmd_handle_fatal(), imap_login(), and
\* the callers.
ExecPcs  == {"single", "start", "drained", "enqueue", "send", "startfail", "retfatal",
             "timedout", "poll", "wait", "stepped"}
StepPcs  == {"read", "bad", "finish", "fetched"}
FatalPcs == {"fatal", "recovered"}
LoginPcs == {"login", "greeted", "capable", "tls", "tlsdone", "secured", "auth", "authdone",
             "post", "compress", "enable", "list", "flush", "select", "done"}
MailPcs  == {"added", "open", "opensel", "opened", "close", "closed"}

\* imap_login() before the server has said who the client is.
PrePcs == {"greeted", "capable", "tls", "tlsdone"}

SameFunction(p, q) ==
    /\ p \in Pcs /\ q \in Pcs
    /\ \A S \in {ExecPcs, StepPcs, FatalPcs, LoginPcs, MailPcs} : p \in S <=> q \in S
    /\ p # "recovered" /\ q # "recovered"

\* Activation g may have been called by one that will go on at pc.
CalledFrom(pc, g) ==
    /\ \/ pc = "stepped" /\ g.pc \in StepPcs
       \/ pc = "greeted" /\ g.pc \in StepPcs
       \/ pc \in {"startfail", "retfatal", "timedout", "bad"} /\ g.pc \in FatalPcs
       \/ pc \in {"recovered", "added"} /\ g.pc \in LoginPcs
       \/ /\ pc \in {"start", "drained", "fetched", "opensel", "opened", "closed"}
                    \cup (LoginPcs \ {"login", "greeted", "tls", "auth", "post"})
          /\ g.pc \in ExecPcs
    /\ g.kind # "idle"
    /\ g.kind = "single" <=> pc = "tlsdone"

\* Who is called by whom.
CallGraph(s) ==
    /\ \A i \in 1 .. Len(s) - 1 : CalledFrom(s[i].pc, s[i+1])
    /\ s # <<>> => s[1].pc \notin FatalPcs \cup LoginPcs /\ s[1].kind # "single"

\* How the stack may change from s to t: the innermost activation goes on at
\* pc, or calls f, or returns.
GoesOn(s, t, pc) ==
    /\ s # <<>> /\ t \in Seq(Activation) /\ Len(t) = Len(s)
    /\ \A i \in 1 .. Len(s) - 1 : t[i].pc = s[i].pc /\ t[i].kind = s[i].kind
    /\ t[Len(s)].pc = pc /\ t[Len(s)].kind = s[Len(s)].kind

Calls(s, t, pc, f) ==
    /\ s # <<>> /\ t \in Seq(Activation) /\ Len(t) = Len(s) + 1
    /\ \A i \in 1 .. Len(s) - 1 : t[i].pc = s[i].pc /\ t[i].kind = s[i].kind
    /\ t[Len(s)].pc = pc /\ t[Len(s)].kind = s[Len(s)].kind
    /\ t[Len(s) + 1].pc = f.pc /\ t[Len(s) + 1].kind = f.kind

Returns(s, t) ==
    /\ s # <<>> /\ t \in Seq(Activation) /\ Len(t) = Len(s) - 1
    /\ \A i \in 1 .. Len(s) - 1 : t[i].pc = s[i].pc /\ t[i].kind = s[i].kind

\* Going on within a function leaves the calls below it as they are.
LEMMA GoesOnGraph ==
    ASSUME NEW s \in Seq(Activation), NEW t, NEW pc, GoesOn(s, t, pc),
           SameFunction(s[Len(s)].pc, pc), CallGraph(s)
    PROVE  CallGraph(t)
<1>1. /\ Len(s) \in Nat /\ Len(s) > 0 /\ Len(t) = Len(s) /\ t \in Seq(Activation)
      /\ t[Len(s)].pc = pc /\ t[Len(s)].kind = s[Len(s)].kind
      /\ \A i \in 1 .. Len(s) - 1 : t[i].pc = s[i].pc /\ t[i].kind = s[i].kind
    BY DEF GoesOn
<1>2. ASSUME NEW i \in 1 .. Len(t) - 1 PROVE CalledFrom(t[i].pc, t[i+1])
    <2>1. CalledFrom(s[i].pc, s[i+1]) /\ t[i].pc = s[i].pc
        BY <1>1, <1>2 DEF CallGraph
    <2>2. CASE i + 1 = Len(s)
        BY <1>1, <2>1, <2>2 DEF CalledFrom, SameFunction
    <2>3. CASE i + 1 # Len(s)
        <3>1. i + 1 \in 1 .. Len(s) - 1
            BY <1>1, <2>3
        <3>2. t[i+1].pc = s[i+1].pc /\ t[i+1].kind = s[i+1].kind
            BY <1>1, <3>1
        <3>3. QED BY <2>1, <3>2 DEF CalledFrom
    <2>4. QED BY <2>2, <2>3
<1>3. t[1].pc \notin FatalPcs \cup LoginPcs /\ t[1].kind # "single"
    <2>1. s[1].pc \notin FatalPcs \cup LoginPcs /\ s[1].kind # "single"
        BY <1>1 DEF CallGraph
    <2>2. CASE Len(s) = 1
        BY <1>1, <2>1, <2>2 DEF SameFunction
    <2>3. CASE Len(s) # 1
        <3>1. 1 \in 1 .. Len(s) - 1
            BY <1>1, <2>3
        <3>2. QED BY <1>1, <2>1, <3>1
    <2>4. QED BY <2>2, <2>3
<1>4. QED BY <1>2, <1>3 DEF CallGraph

\* A call adds one edge of the call graph.
LEMMA CallsGraph ==
    ASSUME NEW s \in Seq(Activation), NEW t, NEW pc, NEW f, Calls(s, t, pc, f),
           SameFunction(s[Len(s)].pc, pc) \/ (s[Len(s)].pc = "fatal" /\ pc = "recovered"),
           CalledFrom(pc, f), CallGraph(s)
    PROVE  CallGraph(t)
<1>1. /\ Len(s) \in Nat /\ Len(s) > 0 /\ Len(t) = Len(s) + 1 /\ t \in Seq(Activation)
      /\ t[Len(s)].pc = pc /\ t[Len(s)].kind = s[Len(s)].kind
      /\ t[Len(s)+1].pc = f.pc /\ t[Len(s)+1].kind = f.kind
      /\ \A i \in 1 .. Len(s) - 1 : t[i].pc = s[i].pc /\ t[i].kind = s[i].kind
    BY DEF Calls
<1>2. ASSUME NEW i \in 1 .. Len(t) - 1 PROVE CalledFrom(t[i].pc, t[i+1])
    <2>1. CASE i = Len(s)
        BY <1>1, <2>1 DEF CalledFrom
    <2>2. CASE i + 1 = Len(s)
        <3>1. i \in 1 .. Len(s) - 1
            BY <1>1, <2>2
        <3>2. CalledFrom(s[i].pc, s[i+1]) /\ t[i].pc = s[i].pc
            BY <1>1, <3>1 DEF CallGraph
        <3>3. t[i+1].pc = pc /\ t[i+1].kind = s[Len(s)].kind
            BY <1>1, <2>2
        <3>4. CASE SameFunction(s[Len(s)].pc, pc)
            BY <2>2, <3>2, <3>3, <3>4 DEF CalledFrom, SameFunction
        <3>5. CASE s[Len(s)].pc = "fatal" /\ pc = "recovered"
            BY <2>2, <3>2, <3>3, <3>5
               DEF CalledFrom, FatalPcs, StepPcs, ExecPcs, LoginPcs
        <3>6. QED BY <3>4, <3>5
    <2>3. CASE i + 1 < Len(s)
        <3>1. i \in 1 .. Len(s) - 1 /\ i + 1 \in 1 .. Len(s) - 1
            BY <1>1, <2>3
        <3>2. CalledFrom(s[i].pc, s[i+1]) /\ t[i].pc = s[i].pc
            BY <1>1, <3>1 DEF CallGraph
        <3>3. t[i+1].pc = s[i+1].pc /\ t[i+1].kind = s[i+1].kind
            BY <1>1, <3>1
        <3>4. QED BY <3>2, <3>3 DEF CalledFrom
    <2>4. QED BY <1>1, <2>1, <2>2, <2>3
<1>3. t[1].pc \notin FatalPcs \cup LoginPcs /\ t[1].kind # "single"
    <2>1. s[1].pc \notin FatalPcs \cup LoginPcs /\ s[1].kind # "single"
        BY <1>1 DEF CallGraph
    <2>2. CASE Len(s) = 1
        BY <1>1, <2>1, <2>2 DEF SameFunction, FatalPcs
    <2>3. CASE Len(s) # 1
        <3>1. 1 \in 1 .. Len(s) - 1
            <4>1. Len(s) \in Nat /\ Len(s) > 0
                BY <1>1
            <4>2. ASSUME NEW n \in Nat, n > 0, n # 1 PROVE 1 \in 1 .. n - 1
                BY <4>2
            <4>3. QED BY <2>3, <4>1, <4>2
        <3>2. QED BY <1>1, <2>1, <3>1
    <2>4. QED BY <2>2, <2>3
<1>4. QED BY <1>2, <1>3 DEF CallGraph

\* A return takes the last call away.
LEMMA ReturnsGraph ==
    ASSUME NEW s \in Seq(Activation), NEW t, Returns(s, t), CallGraph(s)
    PROVE  CallGraph(t)
<1>1. /\ Len(s) \in Nat /\ Len(s) > 0 /\ Len(t) = Len(s) - 1 /\ t \in Seq(Activation)
      /\ \A i \in 1 .. Len(s) - 1 : t[i].pc = s[i].pc /\ t[i].kind = s[i].kind
    BY DEF Returns
<1>2. ASSUME NEW i \in 1 .. Len(t) - 1 PROVE CalledFrom(t[i].pc, t[i+1])
    <2>1. i \in 1 .. Len(s) - 1 /\ i + 1 \in 1 .. Len(s) - 1
        BY <1>1
    <2>2. CalledFrom(s[i].pc, s[i+1])
        BY <2>1 DEF CallGraph
    <2>3. t[i].pc = s[i].pc /\ t[i+1].pc = s[i+1].pc /\ t[i+1].kind = s[i+1].kind
        BY <1>1, <2>1
    <2>4. QED BY <1>1, <2>2, <2>3 DEF CalledFrom
<1>3. t # <<>> => t[1].pc \notin FatalPcs \cup LoginPcs /\ t[1].kind # "single"
    <2>1. s[1].pc \notin FatalPcs \cup LoginPcs /\ s[1].kind # "single"
        BY <1>1 DEF CallGraph
    <2>2. SUFFICES ASSUME t # <<>> PROVE 1 \in 1 .. Len(s) - 1
        BY <1>1, <2>1
    <2>3. Len(t) \in Nat /\ Len(t) # 0
        BY <1>1, <2>2
    <2>4. Len(s) - 1 \in Nat /\ Len(s) - 1 # 0
        BY <1>1, <2>3
    <2>5. QED BY <1>1, <2>4
<1>4. QED BY <1>2, <1>3 DEF CallGraph

\* What one activation does to the stack.
LEMMA TopGoesOn ==
    ASSUME NEW s \in Seq(Activation), s # <<>>,
           NEW f \in Activation, f.kind = s[Len(s)].kind
    PROVE  GoesOn(s, [s EXCEPT ![Len(s)] = f], f.pc)
BY DEF GoesOn

\* Replacing the top of the stack and pushing onto it is a call.
LEMMA TopCalls ==
    ASSUME NEW s \in Seq(Activation), s # <<>>, NEW g \in Activation,
           NEW f \in Activation, f.kind = s[Len(s)].kind
    PROVE  Calls(s, Append([s EXCEPT ![Len(s)] = f], g), f.pc, g)
<1> DEFINE w == [s EXCEPT ![Len(s)] = f]
<1>1. /\ w \in Seq(Activation) /\ Len(w) = Len(s) /\ Len(s) \in Nat /\ Len(s) > 0
      /\ w[Len(s)] = f /\ \A i \in 1 .. Len(s) - 1 : w[i] = s[i]
    OBVIOUS
<1> HIDE DEF w
<1>2. /\ Append(w, g) \in Seq(Activation) /\ Len(Append(w, g)) = Len(s) + 1
      /\ Append(w, g)[Len(s) + 1] = g
      /\ \A i \in 1 .. Len(s) : Append(w, g)[i] = w[i]
    BY <1>1
<1>3. \A i \in 1 .. Len(s) - 1 : Append(w, g)[i] = s[i]
    BY <1>1, <1>2
<1>4. Append(w, g)[Len(s)] = f
    BY <1>1, <1>2
<1>5. Calls(s, Append(w, g), f.pc, g)
    BY <1>2, <1>3, <1>4 DEF Calls
<1>6. QED BY <1>5 DEF w

\* Popping the stack is a return.
LEMMA TopReturns ==
    ASSUME NEW s \in Seq(Activation), s # <<>>
    PROVE  Returns(s, SubSeq(s, 1, Len(s) - 1))
BY ButLast DEF Returns

\* The same number of activations, each of its kind and where it was: what
\* ReadTagged and HandleFatal note in the history changes nothing else.
Noted(s, t) ==
    /\ t \in Seq(Activation) /\ Len(t) = Len(s)
    /\ \A i \in 1 .. Len(s) : t[i].pc = s[i].pc /\ t[i].kind = s[i].kind

\* An activation with a note of what became of its command.
LEMMA OneNoted ==
    ASSUME NEW f \in Activation, NEW r \in Fates
    PROVE  /\ [f EXCEPT !.fate = r] \in Activation
           /\ [f EXCEPT !.own = Nil, !.fate = r] \in Activation
           /\ [f EXCEPT !.fate = r].pc = f.pc /\ [f EXCEPT !.fate = r].kind = f.kind
           /\ [f EXCEPT !.own = Nil, !.fate = r].pc = f.pc
           /\ [f EXCEPT !.own = Nil, !.fate = r].kind = f.kind
BY DEF Activation

\* imap_cmd_finish() and cmd_handle_untagged() note a result on the stack.
LEMMA MarkNoted ==
    ASSUME NEW s \in Seq(Activation), NEW t, NEW r \in Results
    PROVE  Noted(s, Mark(s, t, r))
<1>1. r \in Fates
    BY DEF Fates
<1>2. ASSUME NEW i \in DOMAIN s
      PROVE  /\ Mark(s, t, r)[i] \in Activation
             /\ Mark(s, t, r)[i].pc = s[i].pc /\ Mark(s, t, r)[i].kind = s[i].kind
    <2>1. s[i] \in Activation
        OBVIOUS
    <2>2. /\ [s[i] EXCEPT !.fate = r] \in Activation
          /\ [s[i] EXCEPT !.own = Nil, !.fate = r] \in Activation
          /\ [s[i] EXCEPT !.fate = r].pc = s[i].pc /\ [s[i] EXCEPT !.fate = r].kind = s[i].kind
          /\ [s[i] EXCEPT !.own = Nil, !.fate = r].pc = s[i].pc
          /\ [s[i] EXCEPT !.own = Nil, !.fate = r].kind = s[i].kind
        BY <1>1, <2>1, OneNoted
    <2>3. \/ Mark(s, t, r)[i] = [s[i] EXCEPT !.own = Nil, !.fate = r]
          \/ Mark(s, t, r)[i] = [s[i] EXCEPT !.fate = r]
          \/ Mark(s, t, r)[i] = s[i]
        BY DEF Mark
    <2>4. QED BY <2>1, <2>2, <2>3
<1>3. DOMAIN Mark(s, t, r) = 1 .. Len(s) /\ DOMAIN s = 1 .. Len(s) /\ Len(s) \in Nat
    BY DEF Mark
<1>4. Mark(s, t, r) \in Seq(Activation) /\ Len(Mark(s, t, r)) = Len(s)
    <2>1. Mark(s, t, r) \in [1 .. Len(s) -> Activation]
        <3>1. Mark(s, t, r) = [i \in 1 .. Len(s) |-> Mark(s, t, r)[i]]
            BY <1>3 DEF Mark
        <3>2. QED BY <1>2, <1>3, <3>1
    <2>2. QED BY <1>3, <2>1
<1>5. QED BY <1>2, <1>3, <1>4 DEF Noted

\* A lost connection is noted on the stack.
LEMMA LostNoted ==
    ASSUME NEW s \in Seq(Activation)
    PROVE  Noted(s, Lost(s))
<1>1. "lost" \in Fates
    BY DEF Fates
<1>2. ASSUME NEW i \in DOMAIN s
      PROVE  /\ Lost(s)[i] \in Activation
             /\ Lost(s)[i].pc = s[i].pc /\ Lost(s)[i].kind = s[i].kind
    <2>1. s[i] \in Activation
        OBVIOUS
    <2>2. /\ [s[i] EXCEPT !.own = Nil, !.fate = "lost"] \in Activation
          /\ [s[i] EXCEPT !.own = Nil, !.fate = "lost"].pc = s[i].pc
          /\ [s[i] EXCEPT !.own = Nil, !.fate = "lost"].kind = s[i].kind
        BY <1>1, <2>1, OneNoted
    <2>3. \/ Lost(s)[i] = [s[i] EXCEPT !.own = Nil, !.fate = "lost"]
          \/ Lost(s)[i] = s[i]
        BY DEF Lost
    <2>4. QED BY <2>1, <2>2, <2>3
<1>3. DOMAIN Lost(s) = 1 .. Len(s) /\ DOMAIN s = 1 .. Len(s) /\ Len(s) \in Nat
    BY DEF Lost
<1>4. Lost(s) \in Seq(Activation) /\ Len(Lost(s)) = Len(s)
    <2>1. Lost(s) \in [1 .. Len(s) -> Activation]
        <3>1. Lost(s) = [i \in 1 .. Len(s) |-> Lost(s)[i]]
            BY <1>3 DEF Lost
        <3>2. QED BY <1>2, <1>3, <3>1
    <2>2. QED BY <1>3, <2>1
<1>5. QED BY <1>2, <1>3, <1>4 DEF Noted

\* A note on the stack hides no step that follows it in the same action.
LEMMA NotedSteps ==
    ASSUME NEW s \in Seq(Activation), s # <<>>, NEW t, Noted(s, t)
    PROVE  /\ t # <<>> /\ t \in Seq(Activation) /\ Len(t) = Len(s)
           /\ \A u, pc : GoesOn(t, u, pc) => GoesOn(s, u, pc)
           /\ \A u, pc, f : Calls(t, u, pc, f) => Calls(s, u, pc, f)
           /\ \A u : Returns(t, u) => Returns(s, u)
<1>1. /\ t \in Seq(Activation) /\ Len(t) = Len(s) /\ Len(s) \in Nat /\ Len(s) > 0
      /\ t[Len(s)].kind = s[Len(s)].kind
      /\ \A i \in 1 .. Len(s) - 1 : t[i].pc = s[i].pc /\ t[i].kind = s[i].kind
    BY DEF Noted
<1>2. t # <<>>
    BY <1>1
<1>3. QED BY <1>1, <1>2 DEF GoesOn, Calls, Returns

-----------------------------------------------------------------------------
(* The types of the variables, and what a step does to the stack *)

Reports == {"none", "SUCCESS", "ERROR", "FATAL", "OK", "NO", "BAD", "CONTINUE", "RESPOND"}

Types ==
    /\ state \in {"DISCONNECTED", "CONNECTED", "AUTHENTICATED", "SELECTED", "IDLE"}
    /\ fatal \in BOOLEAN /\ recovering \in BOOLEAN /\ mailbox \in BOOLEAN
    /\ connUp \in BOOLEAN /\ inOrder \in BOOLEAN /\ idling \in BOOLEAN
    /\ cmdbuf \in Seq(Tag \cup {DONE}) /\ sent \in Seq(Tag)
    /\ idle \in Tag \cup {Nil}
    /\ stack \in Seq(Activation)
    /\ ret \in [kind : Kinds, fate : Fates, res : Reports]

\* Where an activation can only be when one it called has just returned or,
\* for single and login, when it has just been called.
EntryPcs == {"single", "login", "bad", "stepped", "tlsdone", "fetched", "recovered", "added"}

Calm == recovering' = recovering /\ (mailbox' => mailbox)

\* The innermost activation goes on.
Inside ==
    /\ Calm
    /\ \E pc \in Pcs \ EntryPcs :
        /\ GoesOn(stack, stack', pc) /\ SameFunction(Top.pc, pc)
        /\ pc \in PrePcs => Top.pc \in PrePcs \/ state' = "CONNECTED"
        /\ pc = "finish" => NewTags' = {}
        /\ pc = "send" /\ Top.kind = "idle" =>
              LET own == stack'[Len(stack)].own
              IN  own \in Tag /\ own \in Elements(cmdbuf')

\* It calls another function, but imap_login().
Calling ==
    /\ Calm
    /\ \E pc \in Pcs, f \in Activation :
        /\ Calls(stack, stack', pc, f) /\ SameFunction(Top.pc, pc) /\ CalledFrom(pc, f)
        /\ f.pc \in {"single", "start", "read", "fatal"}
        /\ f.pc = "single" => f.kind = "single"
        /\ pc = "start" => Top.pc = "single"
        /\ pc \in PrePcs => Top.pc \in PrePcs \/ state' = "CONNECTED"
        /\ pc = "fetched" => Reached("SELECTED")

\* imap_login() is called with an empty ring on a closed connection.
LoggingIn ==
    /\ NewTags' = {} /\ ~connUp'
    /\ \/ /\ Calls(stack, stack', "added", Login) /\ Top.pc = "added"
          /\ Calm
       \/ /\ Calls(stack, stack', "recovered", Login) /\ Top.pc = "fatal"
          /\ ~recovering /\ recovering' = TRUE /\ mailbox

\* The innermost activation returns: cmd_handle_fatal() leaves a fatal status
\* or no connection, imap_cmd_step() says why it returns, and imap_exec() of
\* STARTTLS says so too.
Reason ==
    /\ Top.pc = "fatal" => fatal' \/ ~connUp'
    /\ Top.pc \in StepPcs =>
          \/ ret'.res = "CONTINUE"
          \/ idle # Nil
          \/ Top.pc = "finish" /\ NewTags' = NewTags
          \/ Top.pc = "fetched"
          \/ Top.pc = "bad" /\ ret'.res = "BAD" /\ fatal' = fatal /\ connUp' = connUp
    /\ Top.pc \in ExecPcs =>
          \/ Top.kind # "single"
          \/ ret'.res = "FATAL"
          \/ /\ Top.pc = "stepped" /\ ~WaitAgain(Top.kind) /\ ret'.res = ExecResult(ret.res)
             /\ UNCHANGED <<connUp, fatal, ringVars>>

Returning ==
    /\ Returns(stack, stack')
    /\ \/ Top.pc # "recovered" /\ Calm /\ Reason
       \/ Top.pc = "recovered" /\ recovering' = FALSE /\ mailbox' = mailbox

\* The user calls.
Beginning ==
    /\ stack = <<>> /\ recovering' = recovering
    /\ \E f \in Activation :
        /\ stack' = <<f>>
        /\ f.pc \in {"start", "read", "finish", "open", "close"} /\ f.kind # "single"

StackStep ==
    \/ stack' = stack /\ UNCHANGED vars
    \/ Inside \/ Calling \/ LoggingIn \/ Returning \/ Beginning

\* The activations that are called.
LEMMA FramesTyped ==
    /\ \A kind \in Kinds : Exec(kind) \in Activation /\ Exec(kind).kind = kind
    /\ \A kind \in Kinds \ {"single"} : Exec(kind).pc = "start"
    /\ Exec("single").pc = "single"
    /\ Step \in Activation /\ Step.pc = "read" /\ Step.kind = "none"
    /\ Fatal \in Activation /\ Fatal.pc = "fatal" /\ Fatal.kind = "none"
    /\ Login \in Activation /\ Login.pc = "login" /\ Login.kind = "none"
    /\ \A pc \in Pcs : Frame(pc, "none") \in Activation
BY DEF Exec, Step, Fatal, Login, Frame, Activation, Pcs, Kinds, Fates

\* An activation stays in its function.
LEMMA SameFunctions ==
    /\ \A p, q \in ExecPcs : SameFunction(p, q)
    /\ \A p, q \in StepPcs : SameFunction(p, q)
    /\ \A p, q \in LoginPcs : SameFunction(p, q)
    /\ \A p, q \in MailPcs : SameFunction(p, q)
BY DEF SameFunction, ExecPcs, StepPcs, LoginPcs, MailPcs, FatalPcs, Pcs

\* The activation that runs.
LEMMA TopTyped ==
    ASSUME Types, NEW p, At(p)
    PROVE  /\ stack # <<>> /\ Len(stack) \in Nat /\ Len(stack) > 0
           /\ Top \in Activation /\ Top.pc = p /\ p \in Pcs /\ Top.kind \in Kinds
           /\ Top = stack[Len(stack)]
<1>1. stack # <<>> /\ stack \in Seq(Activation) /\ Top = stack[Len(stack)] /\ Top.pc = p
    BY DEF Types, At, Top
<1>2. Len(stack) \in Nat /\ Len(stack) > 0 /\ stack[Len(stack)] \in Activation
    BY <1>1
<1>3. QED BY <1>1, <1>2 DEF Activation

\* Goto goes on within the function.
LEMMA GotoStack ==
    ASSUME Types, NEW p, At(p), NEW pc \in Pcs, Goto(pc)
    PROVE  GoesOn(stack, stack', pc)
<1>1. stack \in Seq(Activation) /\ stack # <<>> /\ Top \in Activation /\ Top = stack[Len(stack)]
    BY TopTyped DEF Types
<1>2. [Top EXCEPT !.pc = pc] \in Activation /\ [Top EXCEPT !.pc = pc].kind = Top.kind
      /\ [Top EXCEPT !.pc = pc].pc = pc
    BY <1>1 DEF Activation
<1>3. stack' = [stack EXCEPT ![Len(stack)] = [Top EXCEPT !.pc = pc]]
    BY DEF Goto, With
<1> DEFINE f == [Top EXCEPT !.pc = pc]
<1> HIDE DEF f
<1>4. f \in Activation /\ f.kind = stack[Len(stack)].kind /\ f.pc = pc
      /\ stack' = [stack EXCEPT ![Len(stack)] = f]
    BY <1>1, <1>2, <1>3 DEF f
<1>5. QED BY <1>1, <1>4, TopGoesOn

\* Call calls.
LEMMA CallStack ==
    ASSUME Types, NEW p, At(p), NEW pc \in Pcs, NEW g \in Activation, Call(g, pc)
    PROVE  Calls(stack, stack', pc, g)
<1>1. stack \in Seq(Activation) /\ stack # <<>> /\ Top \in Activation /\ Top = stack[Len(stack)]
    BY TopTyped DEF Types
<1>2. [Top EXCEPT !.pc = pc] \in Activation /\ [Top EXCEPT !.pc = pc].kind = Top.kind
      /\ [Top EXCEPT !.pc = pc].pc = pc
    BY <1>1 DEF Activation
<1>3. stack' = Append([stack EXCEPT ![Len(stack)] = [Top EXCEPT !.pc = pc]], g)
    BY DEF Call, With
<1> DEFINE f == [Top EXCEPT !.pc = pc]
<1> HIDE DEF f
<1>4. f \in Activation /\ f.kind = stack[Len(stack)].kind /\ f.pc = pc
      /\ stack' = Append([stack EXCEPT ![Len(stack)] = f], g)
    BY <1>1, <1>2, <1>3 DEF f
<1>5. QED BY <1>1, <1>4, TopCalls

\* Return returns what it was given.
LEMMA ReturnStack ==
    ASSUME Types, NEW p, At(p), NEW res, Return(res)
    PROVE  /\ Returns(stack, stack')
           /\ ret'.res = res /\ ret'.kind = Top.kind /\ ret'.fate = Top.fate
BY TopTyped, TopReturns DEF Types, Return

\* The three kinds of steps in the form the actions have.
LEMMA GotoStep ==
    ASSUME Types, NEW p, At(p), NEW pc \in Pcs \ EntryPcs, Goto(pc), Calm,
           SameFunction(p, pc), pc # "finish",
           pc \in PrePcs => p \in PrePcs \/ state' = "CONNECTED",
           pc = "send" => Top.kind # "idle"
    PROVE  StackStep
<1>1. GoesOn(stack, stack', pc) /\ Top.pc = p
    BY GotoStack, TopTyped
<1>2. Inside
    BY <1>1 DEF Inside
<1>3. QED BY <1>2 DEF StackStep

\* When a call is a step that the call graph allows.
LEMMA CallStep ==
    ASSUME Types, NEW p, At(p), NEW pc \in Pcs, NEW f \in Activation, Call(f, pc), Calm,
           SameFunction(p, pc), CalledFrom(pc, f),
           pc \in PrePcs => p \in PrePcs \/ state' = "CONNECTED",
           f.pc \in {"single", "start", "read", "fatal"},
           f.pc = "single" => f.kind = "single",
           pc = "start" => p = "single",
           pc = "fetched" => Reached("SELECTED")
    PROVE  StackStep
<1>1. Calls(stack, stack', pc, f) /\ Top.pc = p
    BY CallStack, TopTyped
<1>2. Calling
    BY <1>1 DEF Calling
<1>3. QED BY <1>2 DEF StackStep

\* When a return is a step that the call graph allows.
LEMMA ReturnStep ==
    ASSUME Types, NEW p, At(p), NEW res, Return(res), Calm, p # "recovered", Reason
    PROVE  StackStep
<1>1. Returns(stack, stack') /\ Top.pc = p
    BY ReturnStack, TopTyped
<1>2. Returning
    BY <1>1 DEF Returning
<1>3. QED BY <1>2 DEF StackStep

\* The calls that the functions make.
LEMMA CalledFroms ==
    /\ \A pc \in {"start", "drained", "fetched", "opensel", "opened", "closed", "capable",
                  "secured", "authdone", "compress", "enable", "list", "flush", "select", "done"},
          kind \in Kinds \ {"idle", "single"} : CalledFrom(pc, Exec(kind))
    /\ CalledFrom("tlsdone", Exec("single"))
    /\ CalledFrom("stepped", Step) /\ CalledFrom("greeted", Step)
    /\ \A pc \in {"startfail", "retfatal", "timedout", "bad"} : CalledFrom(pc, Fatal)
    /\ CalledFrom("recovered", Login) /\ CalledFrom("added", Login)
<1>1. \A pc \in {"start", "drained", "fetched", "opensel", "opened", "closed", "capable",
                  "secured", "authdone", "compress", "enable", "list", "flush", "select", "done"},
          kind \in Kinds \ {"idle", "single"} : CalledFrom(pc, Exec(kind))
    BY FramesTyped DEF CalledFrom, ExecPcs, LoginPcs
<1>2. CalledFrom("tlsdone", Exec("single"))
    <2>1. Exec("single").pc = "single" /\ Exec("single").kind = "single"
        BY DEF Exec, Frame
    <2>2. QED BY <2>1 DEF CalledFrom, ExecPcs, LoginPcs
<1>3. QED
    BY <1>1, <1>2, FramesTyped DEF CalledFrom, ExecPcs, StepPcs, FatalPcs, LoginPcs

\* With goes on within the function.
LEMMA WithStack ==
    ASSUME Types, NEW p, At(p), NEW f \in Activation, f.kind = Top.kind, stack' = With(f)
    PROVE  GoesOn(stack, stack', f.pc) /\ stack'[Len(stack)] = f
<1>1. stack \in Seq(Activation) /\ stack # <<>> /\ Top = stack[Len(stack)]
    BY TopTyped DEF Types
<1>2. stack' = [stack EXCEPT ![Len(stack)] = f]
    BY DEF With
<1>3. GoesOn(stack, stack', f.pc)
    BY <1>1, <1>2, TopGoesOn
<1>4. Len(stack) \in DOMAIN stack
    BY <1>1
<1>5. QED BY <1>1, <1>2, <1>3, <1>4

\* cmd_queue(): imap_exec() goes on with its tag in the buffer.
LEMMA EnqueueStack ==
    ASSUME Types, RingTypeOK, Enqueue
    PROVE  StackStep
<1> USE DEF acctVars, Calm, EntryPcs, PrePcs, Pcs, Kinds, ExecPcs
<1>1. At("enqueue") /\ Top \in Activation /\ Top.pc = "enqueue" /\ Calm /\ seqno \in Tag
    BY TopTyped DEF Enqueue, RingTypeOK
<1>2. CASE Top.kind = "queue"
    <2>1. Return("SUCCESS")
        BY <1>2 DEF Enqueue
    <2>2. Reason
        BY <1>1, <1>2 DEF Reason, StepPcs
    <2>3. QED BY <1>1, <2>1, <2>2, ReturnStep
<1>3. CASE Top.kind # "queue"
    <2>1. PICK f : f = [Top EXCEPT !.pc = "send", !.own = seqno]
        OBVIOUS
    <2>2. f \in Activation /\ f.kind = Top.kind /\ f.pc = "send" /\ f.own = seqno
        BY <1>1, <2>1 DEF Activation
    <2>3. GoesOn(stack, stack', "send") /\ stack'[Len(stack)] = f
        BY <1>1, <1>3, <2>1, <2>2, WithStack DEF Enqueue
    <2>4. seqno \in Elements(cmdbuf')
        <3>1. cmdbuf \in Seq(Tag \cup {DONE}) /\ cmdbuf' = Append(cmdbuf, seqno)
            BY DEF Enqueue, Types
        <3>2. Len(cmdbuf) + 1 \in DOMAIN cmdbuf' /\ cmdbuf'[Len(cmdbuf) + 1] = seqno
            BY <3>1
        <3>3. QED BY <3>2 DEF Elements
    <2>5. SameFunction("enqueue", "send")
        BY SameFunctions
    <2>6. Inside
        BY <1>1, <2>2, <2>3, <2>4, <2>5 DEF Inside
    <2>7. QED BY <2>6 DEF StackStep
<1>4. QED BY <1>2, <1>3

\* The whole buffer goes out.
LEMMA SendStack ==
    ASSUME Types, Send
    PROVE  StackStep
<1> USE DEF Calm, EntryPcs, PrePcs, Pcs, Kinds, ExecPcs
<1>1. At("send") /\ Top \in Activation /\ Top.pc = "send" /\ Calm
    BY TopTyped DEF Send
<1>2. CASE Top.kind = "start"
    <2>1. Return("OK")
        BY <1>2 DEF Send
    <2>2. Reason
        BY <1>1, <1>2 DEF Reason, StepPcs
    <2>3. QED BY <1>1, <2>1, <2>2, ReturnStep
<1>3. CASE Top.kind # "start"
    <2> DEFINE q == IF Top.kind \in Polls THEN "poll" ELSE "wait"
    <2> DEFINE r == IF Top.kind \in {"flush", "drain"} THEN "batch" ELSE Top.fate
    <2> DEFINE f == [Top EXCEPT !.pc = q, !.fate = r]
    <2>1. stack' = With(f)
        BY <1>3 DEF Send
    <2>2. f \in Activation /\ f.kind = Top.kind /\ f.pc \in {"poll", "wait"}
        <3>1. q \in {"poll", "wait"} /\ q \in Pcs /\ r \in Fates
            BY <1>1 DEF Activation, Fates
        <3> HIDE DEF q, r
        <3>2. QED BY <1>1, <3>1 DEF Activation
    <2> HIDE DEF f
    <2>3. GoesOn(stack, stack', f.pc)
        BY <1>1, <2>1, <2>2, WithStack
    <2>4. SameFunction("send", f.pc)
        BY <2>2, SameFunctions
    <2>5. Inside
        BY <1>1, <2>2, <2>3, <2>4 DEF Inside
    <2>6. QED BY <2>5 DEF StackStep
<1>4. QED BY <1>2, <1>3

\* imap_cmd_step() has returned to its loop.
LEMMA SteppedStack ==
    ASSUME Types, Stepped
    PROVE  StackStep
<1> USE DEF Calm, EntryPcs, PrePcs, Pcs, Kinds, ExecPcs
<1>1. At("stepped") /\ Top \in Activation /\ Top.pc = "stepped" /\ Calm
    BY TopTyped DEF Stepped
<1>2. CASE WaitAgain(Top.kind)
    <2>1. Goto("wait") /\ SameFunction("stepped", "wait")
        BY <1>2, SameFunctions DEF Stepped
    <2>2. QED BY <1>1, <2>1, GotoStep
<1>3. CASE ~WaitAgain(Top.kind) /\ Top.kind \in {"loop", "idle"}
    <2>1. \E res : Return(res)
        BY <1>3 DEF Stepped
    <2>2. Reason
        BY <1>1, <1>3 DEF Reason, StepPcs
    <2>3. QED BY <1>1, <2>1, <2>2, ReturnStep
<1>4. CASE ~WaitAgain(Top.kind) /\ Top.kind \notin {"loop", "idle"}
    <2>1. Return(ExecResult(ret.res))
        BY <1>4 DEF Stepped
    <2>2. ret'.res = ExecResult(ret.res)
        BY <1>1, <2>1, ReturnStack
    <2>3. UNCHANGED <<connUp, fatal, ringVars>>
        BY DEF Stepped, connVars
    <2>4. Reason
        BY <1>1, <1>4, <2>2, <2>3 DEF Reason, StepPcs
    <2>5. QED BY <1>1, <2>1, <2>4, ReturnStep
<1>5. QED BY <1>2, <1>3, <1>4

\* imap_exec(), cmd_start() and their waits.
LEMMA ExecStack ==
    ASSUME Types, RingTypeOK, ExecStep
    PROVE  StackStep
<1> USE FramesTyped, SameFunctions, CalledFroms DEF acctVars, Calm, EntryPcs, PrePcs, Pcs, Kinds, ExecPcs
<1>1. CASE SingleDrain
    BY <1>1, GotoStep, CallStep DEF SingleDrain
<1>2. CASE CmdStart
    BY <1>2, GotoStep, CallStep DEF CmdStart, Polls, HasCmd
<1>3. CASE Drained \/ StillFull \/ SendNothing \/ SendFails \/ PollReady
    BY <1>3, GotoStep DEF Drained, StillFull, SendNothing, SendFails, PollReady
<1>4. CASE PollTimeout \/ Wait
    BY <1>4, CallStep DEF PollTimeout, Wait
<1>5. CASE Enqueue
    BY <1>5, EnqueueStack
<1>6. CASE Send
    BY <1>6, SendStack
<1>7. CASE StartFail
    <2>1. At("startfail") /\ Top.pc = "startfail" /\ Calm
        BY <1>7, TopTyped DEF StartFail
    <2>2. CASE Top.kind = "start"
        <3>1. Return("BAD")
            BY <1>7, <2>2 DEF StartFail
        <3>2. Reason
            BY <2>1, <2>2 DEF Reason, StepPcs
        <3>3. QED BY <2>1, <3>1, <3>2, ReturnStep
    <2>3. CASE Top.kind = "loop"
        BY <1>7, <2>1, <2>3, GotoStep DEF StartFail
    <2>4. CASE Top.kind \notin {"start", "loop"}
        <3>1. Call(Fatal, "retfatal")
            BY <1>7, <2>4 DEF StartFail
        <3>2. QED BY <2>1, <3>1, CallStep
    <2>5. QED BY <2>2, <2>3, <2>4
<1>8. CASE RetFatal
    <2>1. PICK p \in {"retfatal", "timedout"} : At(p)
        BY <1>8 DEF RetFatal
    <2>2. Return("FATAL") /\ Top.pc = p /\ Calm
        BY <1>8, <2>1, TopTyped DEF RetFatal
    <2>3. ret'.res = "FATAL"
        BY <2>1, <2>2, ReturnStack
    <2>4. Reason
        BY <2>2, <2>3 DEF Reason, StepPcs
    <2>5. QED BY <2>1, <2>2, <2>4, ReturnStep
<1>9. CASE Stepped
    BY <1>9, SteppedStack
<1>10. QED BY <1>1, <1>2, <1>3, <1>4, <1>5, <1>6, <1>7, <1>8, <1>9 DEF ExecStep

\* A line that completes nothing, or the last command: the ring is idle.
LEMMA NothingNew ==
    ASSUME RingInv, {i \in Scanned : IsNew(i)} = {}
    PROVE  NewTags = {}
BY DEF RingInv, NewInWindow, Scanned, NewTags

\* The answer to the only command awaited leaves none awaited.
LEMMA LastCompleted ==
    ASSUME RingInv, NEW t, NEW r \in Result, Complete(t, r), Running(t) = {}
    PROVE  NewTags' = {}
<1>1. NewTags' = NewTags \ {t}
    BY CompletePipe
<1>2. ASSUME NEW i \in Slot, IsNew(i) PROVE cmds[i].seq = t
    <2>1. i \in Scanned
        BY <1>2 DEF RingInv, NewInWindow, Scanned
    <2>2. i \in Matching(t)
        BY <1>2, <2>1 DEF Running
    <2>3. QED BY <2>2 DEF Matching
<1>3. QED BY <1>1, <1>2 DEF NewTags

\* What is awaited depends on the ring alone.
LEMMA SameTags == UNCHANGED ringVars => NewTags' = NewTags
BY DEF ringVars, NewTags, IsNew

\* A result noted at the top goes on within the function, or calls from it.
LEMMA TopAt ==
    ASSUME NEW s \in Seq(Activation), s # <<>>, NEW pc \in Pcs, NEW r \in Results \cup {"OK"}
    PROVE  /\ GoesOn(s, [s EXCEPT ![Len(s)].pc = pc, ![Len(s)].rc = r], pc)
           /\ \A g \in Activation : Calls(s, Append([s EXCEPT ![Len(s)].pc = pc], g), pc, g)
<1>1. Len(s) \in DOMAIN s /\ s[Len(s)] \in Activation
    OBVIOUS
<1>2. PICK f : f = [s[Len(s)] EXCEPT !.pc = pc, !.rc = r]
    OBVIOUS
<1>3. PICK h : h = [s[Len(s)] EXCEPT !.pc = pc]
    OBVIOUS
<1>4. f \in Activation /\ f.pc = pc /\ f.kind = s[Len(s)].kind
    BY <1>1, <1>2 DEF Activation
<1>5. h \in Activation /\ h.pc = pc /\ h.kind = s[Len(s)].kind
    BY <1>1, <1>3 DEF Activation
<1>6. [s EXCEPT ![Len(s)].pc = pc, ![Len(s)].rc = r] = [s EXCEPT ![Len(s)] = f]
    BY <1>1, <1>2
<1>7. [s EXCEPT ![Len(s)].pc = pc] = [s EXCEPT ![Len(s)] = h]
    BY <1>1, <1>3
<1>8. GoesOn(s, [s EXCEPT ![Len(s)] = f], pc)
    BY <1>4, TopGoesOn
<1>9. \A g \in Activation : Calls(s, Append([s EXCEPT ![Len(s)] = h], g), pc, g)
    BY <1>5, TopCalls
<1>10. QED BY <1>6, <1>7, <1>8, <1>9

\* The greeting, server data.
LEMMA UntaggedStack ==
    ASSUME Types, RingInv, ReadUntagged
    PROVE  StackStep
<1> DEFINE running == {i \in Scanned : IsNew(i)}
<1>1. At("read") /\ Top.pc = "read" /\ Top \in Activation /\ Calm /\ UNCHANGED ringVars /\ Scan(running, "OK")
    BY TopTyped DEF ReadUntagged, Calm, acctVars
<1>2. CASE running # {}
    <2>1. Return("CONTINUE")
        BY <1>1, <1>2 DEF Scan
    <2>2. ret'.res = "CONTINUE"
        BY <1>1, <2>1, ReturnStack
    <2>3. Reason
        BY <1>1, <2>2 DEF Reason, StepPcs, ExecPcs
    <2>4. QED BY <1>1, <2>1, <2>3, ReturnStep
<1>3. CASE running = {}
    <2>1. NewTags' = {}
        BY <1>1, <1>3, NothingNew, SameTags
    <2>2. PICK f : f = [Top EXCEPT !.pc = "finish", !.rc = "OK"]
        OBVIOUS
    <2>3. f \in Activation /\ f.kind = Top.kind /\ f.pc = "finish"
        BY <1>1, <2>2 DEF Activation, Pcs
    <2>4. stack' = With(f)
        BY <1>1, <1>3, <2>2 DEF Scan
    <2>5. GoesOn(stack, stack', "finish")
        BY <1>1, <2>3, <2>4, WithStack
    <2>6. SameFunction("read", "finish")
        BY SameFunctions DEF StepPcs
    <2>7. Inside
        BY <1>1, <2>1, <2>5, <2>6 DEF Inside, Pcs, EntryPcs, PrePcs
    <2>8. QED BY <2>7 DEF StackStep
<1>4. QED BY <1>2, <1>3

\* A completion.
LEMMA TaggedStack ==
    ASSUME Types, RingInv, NEW k, NEW r \in Results, ReadTagged(k, r)
    PROVE  StackStep
<1>1. /\ At("read") /\ Top.pc = "read" /\ Calm /\ Complete(sent[k], r) /\ r \in Result
      /\ stack # <<>> /\ stack \in Seq(Activation)
    BY TopTyped, SessionAssumption DEF ReadTagged, Calm, acctVars, Types
<1>2. PICK marked : marked = Mark(stack, sent[k], r)
    OBVIOUS
<1>3. Noted(stack, marked)
    BY <1>1, <1>2, MarkNoted
<1>4. /\ marked # <<>> /\ marked \in Seq(Activation) /\ Len(marked) = Len(stack)
      /\ \A u, pc : GoesOn(marked, u, pc) => GoesOn(stack, u, pc)
      /\ \A u : Returns(marked, u) => Returns(stack, u)
    BY <1>1, <1>3, NotedSteps
<1>5. CASE Running(sent[k]) # {}
    <2>1. /\ stack' = SubSeq(marked, 1, Len(stack) - 1)
          /\ ret' = [kind |-> "none", res |-> "CONTINUE", fate |-> "none"]
        BY <1>2, <1>5 DEF ReadTagged
    <2>2. Returns(stack, stack')
        BY <1>4, <2>1, TopReturns
    <2>3. Reason
        BY <1>1, <2>1 DEF Reason, StepPcs, ExecPcs
    <2>4. Returning
        BY <1>1, <2>2, <2>3 DEF Returning
    <2>5. QED BY <2>4 DEF StackStep
<1>6. CASE Running(sent[k]) = {}
    <2>1. stack' = [marked EXCEPT ![Len(stack)].pc = "finish", ![Len(stack)].rc = r]
        BY <1>2, <1>6 DEF ReadTagged
    <2>2. GoesOn(marked, [marked EXCEPT ![Len(marked)].pc = "finish", ![Len(marked)].rc = r], "finish")
        BY <1>4, TopAt DEF Pcs
    <2>3. GoesOn(stack, stack', "finish")
        BY <1>4, <2>1, <2>2
    <2>4. NewTags' = {}
        BY <1>1, <1>6, LastCompleted
    <2>5. SameFunction("read", "finish")
        BY SameFunctions DEF StepPcs
    <2>6. Inside
        BY <1>1, <2>3, <2>4, <2>5 DEF Inside, Pcs, EntryPcs, PrePcs
    <2>7. QED BY <2>6 DEF StackStep
<1>7. QED BY <1>5, <1>6

\* imap_cmd_step().
LEMMA ReadStack ==
    ASSUME Types, RingInv, ReadStep
    PROVE  StackStep
<1>1. CASE StepFatal \/ ReadError
    <2>1. At("read") /\ Call(Fatal, "bad") /\ Calm
        BY <1>1 DEF StepFatal, ReadError, Calm, acctVars
    <2>2. SameFunction("read", "bad") /\ CalledFrom("bad", Fatal) /\ Fatal \in Activation
        BY SameFunctions, CalledFroms, FramesTyped DEF StepPcs
    <2>3. QED BY <2>1, <2>2, FramesTyped, CallStep DEF Pcs, PrePcs
<1>2. CASE ReadContinuation
    <2>1. At("read") /\ Return("RESPOND") /\ Calm /\ idle # Nil
        BY <1>2 DEF ReadContinuation, Calm, acctVars
    <2>2. Reason
        BY <2>1, TopTyped DEF Reason, ExecPcs
    <2>3. QED BY <2>1, <2>2, ReturnStep
<1>3. CASE ReadUntagged
    BY <1>3, UntaggedStack
<1>4. ASSUME NEW k \in 1 .. Slots, NEW r \in Results, ReadTagged(k, r)
      PROVE  StackStep
    BY <1>4, TaggedStack
<1>5. QED BY <1>1, <1>2, <1>3, <1>4 DEF ReadStep

\* imap_cmd_finish(), and what follows it.
LEMMA FinishStack ==
    ASSUME Types, RingInv, FinishStep
    PROVE  StackStep
<1>1. CASE FinishFetch
    <2>1. At("finish") /\ Call(Exec("loop"), "fetched") /\ Calm /\ Reached("SELECTED")
        BY <1>1 DEF FinishFetch, Calm, acctVars
    <2>2. SameFunction("finish", "fetched") /\ CalledFrom("fetched", Exec("loop"))
        BY SameFunctions, CalledFroms DEF StepPcs, Kinds
    <2>3. Exec("loop") \in Activation /\ Exec("loop").pc = "start"
        BY FramesTyped DEF Kinds
    <2>4. QED BY <2>1, <2>2, <2>3, CallStep DEF Pcs, PrePcs
<1>2. CASE Finish
    <2>1. At("finish") /\ Return(Top.rc) /\ Calm /\ NewTags' = NewTags
        BY <1>2, SameTags DEF Finish, Calm, acctVars
    <2>2. Reason
        BY <2>1, TopTyped DEF Reason, ExecPcs
    <2>3. QED BY <2>1, <2>2, ReturnStep
<1>3. CASE Fetched
    <2>1. At("fetched") /\ Return(Top.rc) /\ Calm
        BY <1>3 DEF Fetched, Calm
    <2>2. Reason
        BY <2>1, TopTyped DEF Reason, ExecPcs
    <2>3. QED BY <2>1, <2>2, ReturnStep
<1>4. CASE StepBad
    <2>1. At("bad") /\ Return("BAD") /\ Calm /\ fatal' = fatal /\ connUp' = connUp
        BY <1>4 DEF StepBad, Calm, acctVars, connVars
    <2>2. ret'.res = "BAD"
        BY <2>1, ReturnStack
    <2>3. Reason
        BY <2>1, <2>2, TopTyped DEF Reason, ExecPcs
    <2>4. QED BY <2>1, <2>3, ReturnStep
<1>5. QED BY <1>1, <1>2, <1>3, <1>4 DEF FinishStep

\* cmd_handle_fatal().
LEMMA FatalStack ==
    ASSUME Types, RingInv, FatalStep
    PROVE  StackStep
<1>1. CASE HandleFatalNoMailbox
    <2>1. At("fatal") /\ Return("none") /\ Calm /\ fatal'
        BY <1>1 DEF HandleFatalNoMailbox, Calm
    <2>2. Top.pc = "fatal"
        BY <2>1, TopTyped
    <2>3. Reason
        BY <2>1, <2>2 DEF Reason, ExecPcs, StepPcs
    <2>4. QED BY <2>1, <2>3, ReturnStep
<1>2. CASE HandleFatal
    <2>1. /\ At("fatal") /\ Top.pc = "fatal" /\ mailbox /\ ResetRing /\ ~connUp' /\ recovering' = TRUE
          /\ stack # <<>> /\ stack \in Seq(Activation) /\ recovering \in BOOLEAN
        BY <1>2, TopTyped DEF HandleFatal, CloseConnection, Disconnect, Types
    <2>2. NewTags' = {}
        BY <2>1 DEF ResetRing, EmptySlots, NewTags, IsNew
    <2>3. PICK stk : stk = Lost(stack)
        OBVIOUS
    <2>4. Noted(stack, stk)
        BY <2>1, <2>3, LostNoted
    <2>5. /\ stk # <<>> /\ stk \in Seq(Activation)
          /\ \A u, pc, f : Calls(stk, u, pc, f) => Calls(stack, u, pc, f)
          /\ \A u : Returns(stk, u) => Returns(stack, u)
        BY <2>1, <2>4, NotedSteps
    <2>6. CASE ~recovering
        <3>1. stack' = Append([stk EXCEPT ![Len(stk)].pc = "recovered"], Login)
            BY <1>2, <2>3, <2>6 DEF HandleFatal, MayLogin
        <3>2. "recovered" \in Pcs /\ "OK" \in Results \cup {"OK"} /\ Login \in Activation
            BY FramesTyped DEF Pcs
        <3>3. Calls(stk, stack', "recovered", Login)
            BY <2>5, <3>1, <3>2, TopAt
        <3>4. LoggingIn
            BY <2>1, <2>2, <2>5, <2>6, <3>3 DEF LoggingIn
        <3>5. QED BY <3>4 DEF StackStep
    <2>7. CASE recovering
        <3>1. stack' = SubSeq(stk, 1, Len(stk) - 1)
            BY <1>2, <2>3, <2>7 DEF HandleFatal, MayLogin
        <3>2. Returns(stack, stack')
            BY <2>5, <3>1, TopReturns
        <3>3. Reason
            BY <2>1 DEF Reason, ExecPcs, StepPcs
        <3>4. Calm
            BY <2>1, <2>7 DEF Calm
        <3>5. Returning
            BY <2>1, <3>2, <3>3, <3>4 DEF Returning
        <3>6. QED BY <3>5 DEF StackStep
    <2>8. QED BY <2>6, <2>7
<1>3. CASE Recovered
    <2>1. At("recovered") /\ Return("none") /\ recovering' = FALSE /\ mailbox' = mailbox
        BY <1>3 DEF Recovered
    <2>2. Returns(stack, stack') /\ Top.pc = "recovered"
        BY <2>1, ReturnStack, TopTyped
    <2>3. Returning
        BY <2>1, <2>2 DEF Returning
    <2>4. QED BY <2>3 DEF StackStep
<1>4. QED BY <1>1, <1>2, <1>3 DEF FatalStep

\* imap_login(), imap_open_connection().
LEMMA LoginStack ==
    ASSUME Types, RingInv, LoginStep
    PROVE  StackStep
<1> USE FramesTyped, SameFunctions, CalledFroms DEF Calm, acctVars, Pcs, Kinds, EntryPcs, LoginPcs, PrePcs
<1>1. CASE OpenConnection
    BY <1>1, CallStep DEF OpenConnection
<1>2. CASE OpenFails \/ Capable \/ Secured \/ Authenticated
    BY <1>2, GotoStep DEF OpenFails, Capable, Secured, Authenticated
<1>3. CASE Bail
    <2>1. PICK p \in {"greeted", "capable", "tls", "tlsdone", "secured"} : At(p)
        BY <1>3 DEF Bail
    <2>2. Goto("auth") /\ Calm
        BY <1>3 DEF Bail
    <2>3. QED BY <2>1, <2>2, GotoStep
<1>4. CASE Greeted
    BY <1>4, GotoStep, CallStep DEF Greeted
<1>5. CASE Preauth
    BY <1>5, GotoStep, CallStep DEF Preauth
<1>6. CASE StartTls
    <2>1. Exec("single") \in Activation /\ Exec("single").pc = "single"
        OBVIOUS
    <2>2. QED BY <1>6, <2>1, GotoStep, CallStep DEF StartTls
<1>7. CASE TlsDone
    BY <1>7, GotoStep, CallStep DEF TlsDone
<1>8. CASE Authenticate
    BY <1>8, GotoStep, CallStep DEF Authenticate
<1>9. CASE PostLogin
    BY <1>9, GotoStep, CallStep DEF PostLogin
<1>10. CASE Compress \/ Enable
    BY <1>10, GotoStep, CallStep DEF Compress, Enable
<1>11. CASE List \/ Flush
    BY <1>11, CallStep DEF List, Flush
<1>12. CASE Select
    BY <1>12, GotoStep, CallStep DEF Select
<1>13. CASE LoginDone
    <2>1. At("done") /\ Calm /\ \E res : Return(res)
        BY <1>13 DEF LoginDone
    <2>2. Reason
        BY <2>1, TopTyped DEF Reason, StepPcs, ExecPcs
    <2>3. QED BY <2>1, <2>2, ReturnStep
<1>14. QED
    BY <1>1, <1>2, <1>3, <1>4, <1>5, <1>6, <1>7, <1>8, <1>9, <1>10, <1>11, <1>12, <1>13
       DEF LoginStep

\* The callers.
LEMMA MailStack ==
    ASSUME Types, RingInv, MailboxStep
    PROVE  StackStep
<1> USE FramesTyped, SameFunctions, CalledFroms DEF Calm, acctVars, Pcs, Kinds, EntryPcs, MailPcs, PrePcs
<1>1. CASE OpenQueue
    BY <1>1, GotoStep, CallStep DEF OpenQueue
<1>2. CASE OpenSelect
    BY <1>2, CallStep DEF OpenSelect
<1>3. CASE CloseCommand
    BY <1>3, GotoStep, CallStep DEF CloseCommand
<1>4. CASE AccountFreed
    <2>1. At("added") /\ Call(Login, "added") /\ ResetRing /\ ~connUp' /\ Calm
        BY <1>4 DEF AccountFreed, CloseConnection, Disconnect
    <2>2. NewTags' = {}
        BY <2>1 DEF ResetRing, EmptySlots, NewTags, IsNew
    <2>3. Calls(stack, stack', "added", Login) /\ Top.pc = "added"
        BY <2>1, CallStack, TopTyped
    <2>4. LoggingIn
        BY <2>1, <2>2, <2>3 DEF LoggingIn
    <2>5. QED BY <2>4 DEF StackStep
<1>5. CASE AccountAdded \/ Opened \/ CloseFatal \/ Closed
    <2>1. /\ \E p \in MailPcs : At(p)
          /\ Calm /\ \E res : Return(res)
        BY <1>5 DEF AccountAdded, Opened, CloseFatal, Closed
    <2>2. Reason /\ Top.pc # "recovered"
        BY <2>1, TopTyped DEF Reason, StepPcs, ExecPcs
    <2>3. QED BY <2>1, <2>2, ReturnStep
<1>6. QED BY <1>1, <1>2, <1>3, <1>4, <1>5 DEF MailboxStep

\* The user's operations are called from an empty stack.
LEMMA UserStack ==
    ASSUME Types, UserStep
    PROVE  StackStep
<1>1. ASSUME NEW f \in Activation, Begin(f), recovering' = recovering,
             f.pc \in {"start", "read", "finish", "open", "close"}, f.kind # "single"
      PROVE  StackStep
    BY <1>1 DEF Begin, Beginning, StackStep
<1>2. ASSUME NEW kind \in Ops, UserExec(kind) PROVE StackStep
    <2>1. kind \in Kinds \ {"single"}
        BY SessionAssumption DEF Kinds
    <2>2. QED BY <1>1, <1>2, <2>1, FramesTyped DEF UserExec, acctVars
<1>3. CASE CheckIdle
    <2>1. "idle" \in Kinds \ {"single"}
        BY DEF Kinds
    <2>2. QED BY <1>1, <1>3, <2>1, FramesTyped DEF CheckIdle, acctVars
<1>4. CASE CheckRead
    BY <1>1, <1>4, FramesTyped DEF CheckRead, acctVars
<1>5. CASE CheckFinish \/ OpenMailbox \/ CloseMailbox
    <2>1. \A pc \in {"finish", "open", "close"} :
            Frame(pc, "none") \in Activation /\ Frame(pc, "none").pc = pc
            /\ Frame(pc, "none").kind = "none"
        BY FramesTyped DEF Frame, Pcs
    <2>2. QED BY <1>1, <1>5, <2>1 DEF CheckFinish, OpenMailbox, CloseMailbox, acctVars
<1>6. QED BY <1>2, <1>3, <1>4, <1>5 DEF UserStep

\* Every step does to the stack one of these things.
LEMMA NextStack ==
    ASSUME Types, RingInv, [Next]_vars
    PROVE  StackStep
<1>1. CASE Next
    <2>1. RingTypeOK
        BY DEF RingInv
    <2>2. QED
        BY <1>1, <2>1, ExecStack, ReadStack, FinishStack, FatalStack, LoginStack, MailStack,
           UserStack DEF Next, ClientStep
<1>2. CASE UNCHANGED vars
    BY <1>2 DEF StackStep, vars
<1>3. QED BY <1>1, <1>2

\* What is left of a list without its k-th element.
LEMMA WithoutIs ==
    ASSUME NEW S, NEW s \in Seq(S), NEW k \in DOMAIN s
    PROVE  /\ Without(s, k) \in Seq(S)
           /\ Len(Without(s, k)) = Len(s) - 1
           /\ \A i \in 1 .. Len(s) - 1 : Without(s, k)[i] = IF i < k THEN s[i] ELSE s[i+1]
<1> DEFINE n == Len(s)
<1>1. k \in 1 .. n /\ n \in Nat
    OBVIOUS
<1>2. \A i \in 1 .. n : s[i] \in S
    OBVIOUS
<1> HIDE DEF n
<1>3. PICK a : a = SubSeq(s, 1, k - 1)
    OBVIOUS
<1>4. PICK b : b = SubSeq(s, k + 1, n)
    OBVIOUS
<1>5. a \in Seq(S) /\ Len(a) = k - 1 /\ \A i \in 1 .. k - 1 : a[i] = s[i]
    <2>1. \A i \in 1 .. k - 1 : s[i] \in S
        BY <1>1, <1>2
    <2>2. /\ SubSeq(s, 1, k-1) \in Seq(S)
          /\ Len(SubSeq(s, 1, k-1)) = IF 1 <= k-1 THEN (k-1)-1+1 ELSE 0
          /\ \A i \in 1 .. (k-1)-1+1 : SubSeq(s, 1, k-1)[i] = s[1+i-1]
        BY <1>1, <2>1, SubSeqProperties
    <2>3. \A i \in 1 .. k - 1 : i \in 1 .. (k-1)-1+1 /\ 1+i-1 = i
        BY <1>1
    <2>4. Len(a) = k - 1
        BY <1>1, <1>3, <2>2
    <2>5. QED BY <1>3, <2>2, <2>3, <2>4
<1>6. b \in Seq(S) /\ Len(b) = n - k /\ \A i \in 1 .. n - k : b[i] = s[i + k]
    <2>1. \A i \in k + 1 .. n : s[i] \in S
        BY <1>1, <1>2
    <2>2. /\ SubSeq(s, k+1, n) \in Seq(S)
          /\ Len(SubSeq(s, k+1, n)) = IF k+1 <= n THEN n-(k+1)+1 ELSE 0
          /\ \A i \in 1 .. n-(k+1)+1 : SubSeq(s, k+1, n)[i] = s[(k+1)+i-1]
        BY <1>1, <2>1, SubSeqProperties
    <2>3. \A i \in 1 .. n - k : i \in 1 .. n-(k+1)+1 /\ (k+1)+i-1 = i + k
        BY <1>1
    <2>4. Len(b) = n - k
        BY <1>1, <1>4, <2>2
    <2>5. QED BY <1>4, <2>2, <2>3, <2>4
<1>7. a \o b \in Seq(S) /\ Len(a \o b) = n - 1
    <2>1. a \o b \in Seq(S) /\ Len(a \o b) = Len(a) + Len(b)
        BY <1>5, <1>6, ConcatProperties
    <2>2. QED BY <1>1, <1>5, <1>6, <2>1
<1>8. ASSUME NEW i \in 1 .. n - 1 PROVE (a \o b)[i] = IF i < k THEN s[i] ELSE s[i+1]
    <2>1. CASE i < k
        <3>1. i \in 1 .. k - 1
            BY <1>1, <2>1
        <3>2. (a \o b)[i] = a[i]
            BY <1>1, <1>5, <1>6, <3>1
        <3>3. QED BY <1>5, <2>1, <3>1, <3>2
    <2>2. CASE ~(i < k)
        <3>1. i - (k - 1) \in 1 .. n - k /\ (i - (k - 1)) + k = i + 1
            BY <1>1, <2>2
        <3>2. (a \o b)[i] = b[i - (k - 1)]
            <4>1. \A l \in 1 .. Len(a) + Len(b) :
                      (a \o b)[l] = IF l <= Len(a) THEN a[l] ELSE b[l - Len(a)]
                BY <1>5, <1>6, ConcatProperties
            <4>2. Len(a) = k - 1 /\ i \in 1 .. Len(a) + Len(b) /\ ~(i <= Len(a))
                BY <1>1, <1>5, <1>6, <2>2
            <4>3. QED BY <4>1, <4>2
        <3>3. QED BY <1>6, <2>2, <3>1, <3>2
    <2>3. QED BY <2>1, <2>2
<1>9. Without(s, k) = a \o b
    BY <1>3, <1>4 DEF Without, n
<1>10. QED BY <1>7, <1>8, <1>9 DEF n

\* What goes out: the commands of the buffer, without DONE.
LEMMA DeliveredIs ==
    ASSUME cmdbuf \in Seq(Tag \cup {DONE})
    PROVE  /\ Delivered \in Seq(Tag)
           /\ Elements(Delivered) = Elements(cmdbuf) \ {DONE}
<1> DEFINE p == {i \in DOMAIN cmdbuf : cmdbuf[i] # DONE}
<1> DEFINE d == AtPlaces(cmdbuf, p)
<1>0. \A i \in DOMAIN cmdbuf : i \in p <=> cmdbuf[i] # DONE
    OBVIOUS
<1>1. Delivered = d
    BY DEF Delivered
<1> HIDE DEF p
<1>2. /\ \A m \in DOMAIN d : \E i \in DOMAIN cmdbuf : i \in p /\ d[m] = cmdbuf[i]
      /\ \A i \in DOMAIN cmdbuf : i \in p => \E m \in DOMAIN d : d[m] = cmdbuf[i]
      /\ d \in Seq(Tag \cup {DONE})
    BY AtPlacesElements, AtPlacesPicks
<1> HIDE DEF d
<1>3. \A m \in DOMAIN d : d[m] \in Tag
    <2>1. \A i \in DOMAIN cmdbuf : cmdbuf[i] \in Tag \cup {DONE}
        OBVIOUS
    <2>2. QED BY <1>0, <1>2, <2>1
<1>4. d \in Seq(Tag)
    BY <1>2, <1>3
<1>5. Elements(d) = Elements(cmdbuf) \ {DONE}
    BY <1>0, <1>2 DEF Elements
<1>6. QED BY <1>1, <1>4, <1>5

\* What is put into the command buffer is in it.
LEMMA DoneIsLast ==
    ASSUME cmdbuf \in Seq(Tag \cup {DONE}), NEW x \in Tag \cup {DONE}
    PROVE  /\ Append(cmdbuf, x) \in Seq(Tag \cup {DONE})
           /\ Elements(Append(cmdbuf, x)) = Elements(cmdbuf) \cup {x}
<1>1. PICK b : b = Append(cmdbuf, x)
    OBVIOUS
<1>2. /\ b \in Seq(Tag \cup {DONE}) /\ DOMAIN b = 1 .. Len(cmdbuf) + 1
      /\ \A i \in 1 .. Len(cmdbuf) : b[i] = cmdbuf[i]
      /\ b[Len(cmdbuf) + 1] = x /\ Len(cmdbuf) \in Nat /\ DOMAIN cmdbuf = 1 .. Len(cmdbuf)
    BY <1>1
<1>3. \A i \in 1 .. Len(cmdbuf) + 1 : i \in 1 .. Len(cmdbuf) \/ i = Len(cmdbuf) + 1
    BY <1>2
<1>4. \A i \in 1 .. Len(cmdbuf) : i \in 1 .. Len(cmdbuf) + 1
    BY <1>2
<1>5. Len(cmdbuf) + 1 \in 1 .. Len(cmdbuf) + 1
    BY <1>2
<1>6. Elements(b) = Elements(cmdbuf) \cup {x}
    BY <1>2, <1>3, <1>4, <1>5 DEF Elements
<1>7. QED BY <1>1, <1>2, <1>6

-----------------------------------------------------------------------------
(* Every variable has its type *)

Values ==
    /\ state \in {"DISCONNECTED", "CONNECTED", "AUTHENTICATED", "SELECTED", "IDLE"}
    /\ fatal \in BOOLEAN /\ recovering \in BOOLEAN /\ mailbox \in BOOLEAN
    /\ connUp \in BOOLEAN /\ inOrder \in BOOLEAN /\ idling \in BOOLEAN
    /\ cmdbuf \in Seq(Tag \cup {DONE}) /\ sent \in Seq(Tag)
    /\ idle \in Tag \cup {Nil}
    /\ ret \in [kind : Kinds, fate : Fates, res : Reports]

\* The values that functions return.
LEMMA RetTyped ==
    ASSUME Types, NEW p, At(p)
    PROVE  /\ \A pc : Goto(pc) => ret' \in [kind : Kinds, fate : Fates, res : Reports]
           /\ \A f, pc : Call(f, pc) => ret' \in [kind : Kinds, fate : Fates, res : Reports]
           /\ \A res \in Reports : Return(res) => ret' \in [kind : Kinds, fate : Fates, res : Reports]
<1>1. NoRet \in [kind : Kinds, fate : Fates, res : Reports]
    BY DEF NoRet, Kinds, Fates, Reports
<1>2. Top.kind \in Kinds /\ Top.fate \in Fates
    BY TopTyped DEF Activation
<1>3. QED BY <1>1, <1>2 DEF Goto, Call, Return

\* Nothing returned is a value too.
LEMMA NoRetTyped == NoRet \in [kind : Kinds, fate : Fates, res : Reports]
BY DEF NoRet, Kinds, Fates, Reports

\* Values through imap_exec().
LEMMA ExecValues ==
    ASSUME Types, RingTypeOK, ExecStep
    PROVE  Values'
<1> USE DEF acctVars, connVars, Values
<1>0. Values /\ <<>> \in Seq(Tag \cup {DONE}) /\ <<>> \in Seq(Tag) /\ seqno \in Tag
    BY DEF Types, RingTypeOK
<1>1. CASE SingleDrain
    BY <1>0, <1>1, RetTyped DEF SingleDrain
<1>2. CASE CmdStart
    BY <1>0, <1>2, RetTyped DEF CmdStart
<1>3. CASE Drained \/ StillFull \/ SendNothing \/ PollReady \/ PollTimeout \/ Wait
    BY <1>0, <1>3, RetTyped DEF Drained, StillFull, SendNothing, PollReady, PollTimeout, Wait
<1>4. CASE Enqueue
    <2>1. Append(cmdbuf, seqno) \in Seq(Tag \cup {DONE})
        BY <1>0, DoneIsLast
    <2>2. QED BY <1>0, <1>4, <2>1, RetTyped, NoRetTyped DEF Enqueue, Reports
<1>5. CASE Send
    <2>1. Delivered \in Seq(Tag)
        BY <1>0, DeliveredIs
    <2>2. Top.own \in Tag \cup {Nil}
        BY <1>5, TopTyped DEF Send, Activation
    <2>3. sent \o Delivered \in Seq(Tag)
        BY <1>0, <2>1, ConcatProperties
    <2>4. ret' \in [kind : Kinds, fate : Fates, res : Reports]
        BY <1>5, RetTyped, NoRetTyped DEF Send, Reports
    <2>5. QED BY <1>0, <1>5, <2>2, <2>3, <2>4 DEF Send, Unidle
<1>6. CASE SendFails
    BY <1>0, <1>6, RetTyped DEF SendFails, Disconnect, Unidle
<1>7. CASE StartFail
    BY <1>0, <1>7, RetTyped DEF StartFail, Reports
<1>8. CASE RetFatal
    BY <1>0, <1>8, RetTyped DEF RetFatal, Reports
<1>9. CASE Stepped
    <2>1. Append(cmdbuf, DONE) \in Seq(Tag \cup {DONE})
        BY <1>0, DoneIsLast
    <2>2. ret' \in [kind : Kinds, fate : Fates, res : Reports]
        <3>1. CASE WaitAgain(Top.kind)
            BY <1>9, <3>1, RetTyped DEF Stepped
        <3>2. CASE ~WaitAgain(Top.kind)
            <4>1. PICK res \in Reports : Return(res)
                BY <1>0, <1>9, <3>2 DEF Stepped, Reports, ExecResult
            <4>2. QED BY <1>9, <4>1, RetTyped DEF Stepped
        <3>3. QED BY <3>1, <3>2
    <2>3. QED BY <1>0, <1>9, <2>1, <2>2 DEF Stepped
<1>10. QED BY <1>1, <1>2, <1>3, <1>4, <1>5, <1>6, <1>7, <1>8, <1>9 DEF ExecStep

\* Values through imap_cmd_step().
LEMMA ReadValues ==
    ASSUME Types, ReadStep
    PROVE  Values'
<1> USE DEF acctVars, connVars, Values
<1>0. Values /\ <<>> \in Seq(Tag)
    BY DEF Types
<1>1. CASE StepFatal
    BY <1>0, <1>1, RetTyped DEF StepFatal
<1>2. CASE ReadError
    BY <1>0, <1>2, RetTyped DEF ReadError, Disconnect
<1>3. CASE ReadContinuation
    BY <1>0, <1>3, RetTyped DEF ReadContinuation, Reports
<1>4. CASE ReadUntagged
    BY <1>0, <1>4, RetTyped, NoRetTyped DEF ReadUntagged, Scan, Reports
<1>5. ASSUME NEW k \in 1 .. Slots, NEW r \in Results, ReadTagged(k, r) PROVE Values'
    <2>1. Without(sent, k) \in Seq(Tag)
        BY <1>0, <1>5, WithoutIs DEF ReadTagged
    <2>2. ret' \in [kind : Kinds, fate : Fates, res : Reports]
        BY <1>5, NoRetTyped DEF ReadTagged, Kinds, Fates, Reports
    <2>3. QED BY <1>0, <1>5, <2>1, <2>2 DEF ReadTagged
<1>6. QED BY <1>1, <1>2, <1>3, <1>4, <1>5 DEF ReadStep

\* Values through imap_cmd_finish() and cmd_handle_fatal().
LEMMA FinishValues ==
    ASSUME Types, FinishStep \/ FatalStep
    PROVE  Values'
<1> USE DEF acctVars, connVars, Values
<1>0. Values /\ <<>> \in Seq(Tag)
    BY DEF Types
<1>1. CASE FinishFetch
    BY <1>0, <1>1, RetTyped DEF FinishFetch
<1>2. CASE Finish \/ Fetched
    <2>1. Top.rc \in Reports
        BY <1>2, TopTyped, SessionAssumption DEF Finish, Fetched, Activation, Reports, Result
    <2>2. QED BY <1>0, <1>2, <2>1, RetTyped DEF Finish, Fetched
<1>3. CASE StepBad
    BY <1>0, <1>3, RetTyped DEF StepBad, Reports
<1>4. CASE HandleFatalNoMailbox
    BY <1>0, <1>4, RetTyped DEF HandleFatalNoMailbox, Reports
<1>5. CASE HandleFatal
    BY <1>0, <1>5, NoRetTyped DEF HandleFatal, CloseConnection, Disconnect
<1>6. CASE Recovered
    BY <1>0, <1>6, RetTyped DEF Recovered, Reports
<1>7. QED BY <1>1, <1>2, <1>3, <1>4, <1>5, <1>6 DEF FinishStep, FatalStep

\* Values through imap_login() and what it calls.
LEMMA LoginValues ==
    ASSUME Types, LoginStep
    PROVE  Values'
<1> USE DEF acctVars, connVars, Values
<1>0. Values /\ <<>> \in Seq(Tag) /\ <<>> \in Seq(Tag \cup {DONE})
    BY DEF Types
<1>1. CASE OpenConnection \/ OpenFails
    BY <1>0, <1>1, RetTyped DEF OpenConnection, OpenFails, Purge
<1>2. CASE Bail
    BY <1>0, <1>2, RetTyped DEF Bail, CloseConnection, Disconnect
<1>3. CASE Greeted \/ Preauth
    BY <1>0, <1>3, RetTyped DEF Greeted, Preauth
<1>4. CASE Capable \/ StartTls \/ Secured \/ Authenticate \/ Authenticated \/ PostLogin
    BY <1>0, <1>4, RetTyped DEF Capable, StartTls, Secured, Authenticate, Authenticated, PostLogin
<1>5. CASE TlsDone
    <2>1. ASSUME NEW k \in 0 .. Len(sent) PROVE SubSeq(sent, k + 1, Len(sent)) \in Seq(Tag)
        BY <1>0
    <2>2. sent' \in Seq(Tag)
        BY <1>5, <2>1 DEF TlsDone
    <2>3. QED BY <1>0, <1>5, <2>2, RetTyped DEF TlsDone
<1>6. CASE Compress \/ Enable \/ List \/ Flush \/ Select
    BY <1>0, <1>6, RetTyped DEF Compress, Enable, List, Flush, Select
<1>7. CASE LoginDone
    BY <1>0, <1>7, RetTyped DEF LoginDone, Reports
<1>8. QED BY <1>1, <1>2, <1>3, <1>4, <1>5, <1>6, <1>7 DEF LoginStep

\* Values through the operations on a mailbox.
LEMMA CallerValues ==
    ASSUME Types, MailboxStep \/ UserStep
    PROVE  Values'
<1> USE DEF acctVars, connVars, Values
<1>0. Values /\ <<>> \in Seq(Tag) /\ <<>> \in Seq(Tag \cup {DONE})
    BY DEF Types
<1>1. CASE AccountAdded
    BY <1>0, <1>1, RetTyped DEF AccountAdded, Reports
<1>2. CASE AccountFreed
    BY <1>0, <1>2, RetTyped DEF AccountFreed, CloseConnection, Disconnect, Purge
<1>3. CASE OpenQueue \/ OpenSelect \/ CloseCommand
    BY <1>0, <1>3, RetTyped DEF OpenQueue, OpenSelect, CloseCommand
<1>4. CASE Opened \/ CloseFatal \/ Closed
    BY <1>0, <1>4, RetTyped DEF Opened, CloseFatal, Closed, Reports
<1>5. CASE UserStep
    BY <1>0, <1>5, NoRetTyped DEF UserStep, UserExec, CheckIdle, CheckRead, CheckFinish,
                                  OpenMailbox, CloseMailbox, Begin
<1>6. QED BY <1>1, <1>2, <1>3, <1>4, <1>5 DEF MailboxStep

\* Every step keeps the types.
LEMMA TypesKept ==
    ASSUME Types, RingInv, [Next]_vars
    PROVE  Types'
<1>1. Values'
    <2>1. RingTypeOK
        BY DEF RingInv
    <2>2. CASE Next
        BY <2>1, <2>2, ExecValues, ReadValues, FinishValues, LoginValues, CallerValues
           DEF Next, ClientStep
    <2>3. CASE UNCHANGED vars
        BY <2>3 DEF vars, acctVars, connVars, Types, Values
    <2>4. QED BY <2>2, <2>3
<1>2. stack' \in Seq(Activation)
    <2>1. StackStep
        BY NextStack
    <2>2. CASE stack' = stack
        BY <2>2 DEF Types
    <2>3. CASE Inside
        BY <2>3 DEF Inside, GoesOn
    <2>4. CASE Calling
        BY <2>4 DEF Calling, Calls
    <2>5. CASE LoggingIn
        BY <2>5 DEF LoggingIn, Calls
    <2>6. CASE Returning
        BY <2>6 DEF Returning, Returns
    <2>7. CASE Beginning
        BY <2>7 DEF Beginning
    <2>8. QED BY <2>1, <2>2, <2>3, <2>4, <2>5, <2>6, <2>7 DEF StackStep
<1>3. QED BY <1>1, <1>2 DEF Types, Values

\* The account that is added.
LEMMA TypesInit == Init => Types
<1> SUFFICES ASSUME Init PROVE Types
    OBVIOUS
<1>1. Frame("added", "none") \in Activation /\ Login \in Activation
    BY FramesTyped DEF Pcs
<1>2. stack \in Seq(Activation)
    BY <1>1 DEF Init
<1>3. inOrder \in BOOLEAN
    BY SessionAssumption DEF Init, NewAccount
<1>4. <<>> \in Seq(Tag) /\ <<>> \in Seq(Tag \cup {DONE})
    OBVIOUS
<1>5. QED BY <1>2, <1>3, <1>4, NoRetTyped DEF Init, NewAccount, Types

-----------------------------------------------------------------------------
(* Recovery does not recur *)

\* Where on the stack a recovery waits for its login.
RecoveredAt(s) == {i \in DOMAIN s : s[i].pc = "recovered"}

\* A recovery is under way when the flag says so, and no more than one; adding
\* an account is no recovery and has no mailbox to recover.
RecoveryInv ==
    /\ \A i, j \in RecoveredAt(stack) : i = j
    /\ recovering <=> RecoveredAt(stack) # {}
    /\ (stack # <<>> /\ stack[1].pc = "added") => ~mailbox /\ ~recovering

\* The places of a list that becomes one longer.
LEMMA LastPlace ==
    ASSUME NEW n \in Nat, n > 0
    PROVE  /\ \A i \in 1 .. n : i = n \/ i \in 1 .. n - 1
           /\ \A i \in 1 .. n - 1 : i \in 1 .. n /\ i # n /\ i \in 1 .. n + 1
           /\ \A i \in 1 .. n + 1 : i = n + 1 \/ i = n \/ i \in 1 .. n - 1
           /\ n \in 1 .. n + 1 /\ n \in 1 .. n /\ n + 1 \in 1 .. n + 1
OBVIOUS

\* Going on neither starts a recovery nor ends one.
LEMMA RecoveredGoesOn ==
    ASSUME NEW s \in Seq(Activation), NEW t, NEW pc, GoesOn(s, t, pc),
           pc # "recovered", s[Len(s)].pc # "recovered"
    PROVE  RecoveredAt(t) = RecoveredAt(s)
<1>1. /\ DOMAIN s = 1 .. Len(s) /\ DOMAIN t = 1 .. Len(s) /\ Len(s) \in Nat
      /\ t[Len(s)].pc = pc /\ \A i \in 1 .. Len(s) - 1 : t[i].pc = s[i].pc
    BY DEF GoesOn
<1>2. Len(s) > 0
    BY <1>1 DEF GoesOn
<1>3. QED BY <1>1, <1>2, LastPlace DEF RecoveredAt

\* A call starts a recovery when it is made from it.
LEMMA RecoveredCalls ==
    ASSUME NEW s \in Seq(Activation), NEW t, NEW pc, NEW f, Calls(s, t, pc, f),
           f.pc # "recovered", s[Len(s)].pc # "recovered"
    PROVE  RecoveredAt(t) = RecoveredAt(s) \cup (IF pc = "recovered" THEN {Len(s)} ELSE {})
<1>1. /\ DOMAIN s = 1 .. Len(s) /\ DOMAIN t = 1 .. Len(s) + 1 /\ Len(s) \in Nat /\ Len(s) > 0
      /\ t[Len(s)].pc = pc /\ \A i \in 1 .. Len(s) - 1 : t[i].pc = s[i].pc
      /\ t[Len(s) + 1].pc = f.pc
    BY DEF Calls
<1>2. ASSUME NEW i
      PROVE  i \in RecoveredAt(t) <=> i \in RecoveredAt(s) \/ (pc = "recovered" /\ i = Len(s))
    <2>1. i \in 1 .. Len(s) + 1 => i = Len(s) + 1 \/ i = Len(s) \/ i \in 1 .. Len(s) - 1
        BY <1>1, LastPlace
    <2>2. i \in 1 .. Len(s) => i = Len(s) \/ i \in 1 .. Len(s) - 1
        BY <1>1, LastPlace
    <2>3. i \in 1 .. Len(s) - 1 => i \in 1 .. Len(s) + 1 /\ i \in 1 .. Len(s)
        BY <1>1, LastPlace
    <2>4. Len(s) \in 1 .. Len(s) + 1
        BY <1>1, LastPlace
    <2>5. QED BY <1>1, <2>1, <2>2, <2>3, <2>4 DEF RecoveredAt
<1>3. CASE pc = "recovered"
    BY <1>2, <1>3
<1>4. CASE pc # "recovered"
    BY <1>2, <1>4
<1>5. QED BY <1>3, <1>4

\* A return ends the recovery at the top.
LEMMA RecoveredReturns ==
    ASSUME NEW s \in Seq(Activation), NEW t, Returns(s, t)
    PROVE  RecoveredAt(t) = RecoveredAt(s) \ {Len(s)}
<1>1. /\ DOMAIN s = 1 .. Len(s) /\ DOMAIN t = 1 .. Len(s) - 1 /\ Len(s) \in Nat /\ Len(s) > 0
      /\ \A i \in 1 .. Len(s) - 1 : t[i].pc = s[i].pc
    BY DEF Returns
<1>2. /\ \A i \in 1 .. Len(s) - 1 : i \in 1 .. Len(s) /\ i # Len(s)
      /\ \A i \in 1 .. Len(s) : i \in 1 .. Len(s) - 1 \/ i = Len(s)
    BY <1>1, LastPlace
<1>3. QED BY <1>1, <1>2 DEF RecoveredAt

\* Whether the outermost activation is imap_ac_add() is not changed by what
\* happens above it.
LEMMA AddedStays ==
    ASSUME NEW s \in Seq(Activation), NEW t, t # <<>>,
           \/ \E pc : GoesOn(s, t, pc) /\ pc # "added"
           \/ \E pc, f : Calls(s, t, pc, f) /\ (pc = "added" => s[Len(s)].pc = "added")
           \/ Returns(s, t),
           t[1].pc = "added"
    PROVE  s # <<>> /\ s[1].pc = "added"
<1>1. CASE \E pc : GoesOn(s, t, pc) /\ pc # "added"
    BY <1>1 DEF GoesOn
<1>2. CASE \E pc, f : Calls(s, t, pc, f) /\ (pc = "added" => s[Len(s)].pc = "added")
    BY <1>2 DEF Calls
<1>3. CASE Returns(s, t)
    <2>1. 1 \in 1 .. Len(s) - 1
        <3>1. Len(t) \in Nat /\ Len(t) # 0 /\ Len(t) = Len(s) - 1
            BY <1>3 DEF Returns
        <3>2. QED BY <3>1
    <2>2. QED BY <1>3, <2>1 DEF Returns
<1>4. QED BY <1>1, <1>2, <1>3

\* At first there is no recovery.
LEMMA RecoveryInit == Init => RecoveryInv
<1> SUFFICES ASSUME Init PROVE RecoveryInv
    OBVIOUS
<1>1. stack = <<Frame("added", "none"), Login>> /\ ~mailbox /\ ~recovering
    BY DEF Init, NewAccount
<1>2. RecoveredAt(stack) = {}
    BY <1>1 DEF RecoveredAt, Frame, Login
<1>3. QED BY <1>1, <1>2 DEF RecoveryInv

\* No step starts a recovery inside another one.
LEMMA RecoveryKept ==
    ASSUME Types, RecoveryInv, StackStep
    PROVE  RecoveryInv'
<1>0. stack \in Seq(Activation) /\ recovering \in BOOLEAN /\ Top = stack[Len(stack)]
    BY DEF Types, Top
<1>1. CASE stack' = stack /\ UNCHANGED vars
    BY <1>1 DEF RecoveryInv, RecoveredAt, vars, acctVars
<1>2. CASE Inside
    <2>1. PICK pc \in Pcs \ EntryPcs : GoesOn(stack, stack', pc) /\ SameFunction(Top.pc, pc)
        BY <1>2 DEF Inside
    <2>2. RecoveredAt(stack') = RecoveredAt(stack)
        BY <1>0, <2>1, RecoveredGoesOn DEF EntryPcs, SameFunction
    <2>3. (stack' # <<>> /\ stack'[1].pc = "added") => (stack # <<>> /\ stack[1].pc = "added")
        BY <1>0, <2>1, AddedStays DEF EntryPcs
    <2>4. QED BY <1>2, <2>2, <2>3 DEF RecoveryInv, Inside, Calm
<1>3. CASE Calling
    <2>1. PICK pc \in Pcs, f \in Activation :
            /\ Calls(stack, stack', pc, f) /\ SameFunction(Top.pc, pc) /\ CalledFrom(pc, f)
            /\ f.pc \in {"single", "start", "read", "fatal"}
        BY <1>3 DEF Calling
    <2>2. pc # "recovered" /\ pc # "added" /\ Top.pc # "recovered" /\ f.pc # "recovered"
        BY <2>1 DEF SameFunction, CalledFrom, LoginPcs, StepPcs, ExecPcs, FatalPcs
    <2>3. RecoveredAt(stack') = RecoveredAt(stack)
        BY <1>0, <2>1, <2>2, RecoveredCalls
    <2>4. (stack' # <<>> /\ stack'[1].pc = "added") => (stack # <<>> /\ stack[1].pc = "added")
        BY <1>0, <2>1, <2>2, AddedStays
    <2>5. QED BY <1>3, <2>3, <2>4 DEF RecoveryInv, Calling, Calm
<1>4. CASE LoggingIn
    <2>1. Login.pc = "login"
        BY FramesTyped
    <2>2. CASE Calls(stack, stack', "added", Login) /\ Top.pc = "added" /\ Calm
        <3>1. RecoveredAt(stack') = RecoveredAt(stack)
            BY <1>0, <2>1, <2>2, RecoveredCalls
        <3>2. (stack' # <<>> /\ stack'[1].pc = "added") => (stack # <<>> /\ stack[1].pc = "added")
            BY <1>0, <2>2, AddedStays
        <3>3. QED BY <2>2, <3>1, <3>2 DEF RecoveryInv, Calm
    <2>3. CASE /\ Calls(stack, stack', "recovered", Login) /\ Top.pc = "fatal"
               /\ ~recovering /\ recovering' = TRUE /\ mailbox
        <3>1. RecoveredAt(stack') = RecoveredAt(stack) \cup {Len(stack)}
            BY <1>0, <2>1, <2>3, RecoveredCalls
        <3>2. RecoveredAt(stack) = {}
            BY <2>3 DEF RecoveryInv
        <3>3. (stack' # <<>> /\ stack'[1].pc = "added") => (stack # <<>> /\ stack[1].pc = "added")
            BY <1>0, <2>3, AddedStays
        <3>4. ~(stack' # <<>> /\ stack'[1].pc = "added")
            BY <2>3, <3>3 DEF RecoveryInv
        <3>5. QED BY <2>3, <3>1, <3>2, <3>4 DEF RecoveryInv
    <2>4. QED BY <1>4, <2>2, <2>3 DEF LoggingIn
<1>5. CASE Returning
    <2>1. RecoveredAt(stack') = RecoveredAt(stack) \ {Len(stack)}
        BY <1>0, <1>5, RecoveredReturns DEF Returning
    <2>2. (stack' # <<>> /\ stack'[1].pc = "added") => (stack # <<>> /\ stack[1].pc = "added")
        BY <1>0, <1>5, AddedStays DEF Returning
    <2>3. CASE Top.pc # "recovered" /\ Calm
        <3>1. RecoveredAt(stack') = RecoveredAt(stack)
            BY <1>0, <2>1, <2>3 DEF RecoveredAt
        <3>2. QED BY <2>2, <2>3, <3>1 DEF RecoveryInv, Calm
    <2>4. CASE Top.pc = "recovered" /\ recovering' = FALSE /\ mailbox' = mailbox
        <3>1. Len(stack) \in RecoveredAt(stack)
            BY <1>0, <1>5, <2>4 DEF RecoveredAt, Returning, Returns
        <3>2. RecoveredAt(stack') = {}
            BY <2>1, <3>1 DEF RecoveryInv
        <3>3. QED BY <2>2, <2>4, <3>2 DEF RecoveryInv
    <2>5. QED BY <1>5, <2>3, <2>4 DEF Returning
<1>6. CASE Beginning
    <2>1. PICK f \in Activation :
            stack' = <<f>> /\ f.pc \in {"start", "read", "finish", "open", "close"}
        BY <1>6 DEF Beginning
    <2>2. RecoveredAt(stack') = {} /\ RecoveredAt(stack) = {}
        BY <1>6, <2>1 DEF RecoveredAt, Beginning
    <2>3. QED BY <1>6, <2>1, <2>2 DEF RecoveryInv, Beginning
<1>7. QED BY <1>1, <1>2, <1>3, <1>4, <1>5, <1>6 DEF StackStep

\* Who calls whom is kept.
LEMMA GraphKept ==
    ASSUME Types, CallGraph(stack), StackStep
    PROVE  CallGraph(stack')
<1>0. stack \in Seq(Activation) /\ Top = stack[Len(stack)]
    BY DEF Types, Top
<1>1. CASE Inside
    BY <1>0, <1>1, GoesOnGraph DEF Inside
<1>2. CASE Calling
    BY <1>0, <1>2, CallsGraph DEF Calling
<1>3. CASE LoggingIn
    <2>1. CalledFrom("added", Login) /\ CalledFrom("recovered", Login)
        BY CalledFroms
    <2>2. SameFunction("added", "added")
        BY SameFunctions DEF MailPcs
    <2>3. QED BY <1>0, <1>3, <2>1, <2>2, CallsGraph DEF LoggingIn
<1>4. CASE Returning
    BY <1>0, <1>4, ReturnsGraph DEF Returning
<1>5. CASE Beginning
    <2>1. PICK f \in Activation :
            /\ stack' = <<f>> /\ f.kind # "single"
            /\ f.pc \in {"start", "read", "finish", "open", "close"}
        BY <1>5 DEF Beginning
    <2>2. QED BY <2>1 DEF CallGraph, FatalPcs, LoginPcs
<1>6. QED BY <1>1, <1>2, <1>3, <1>4, <1>5 DEF StackStep

\* At first nothing is called.
LEMMA GraphInit == Init => CallGraph(stack)
<1> SUFFICES ASSUME Init PROVE CallGraph(stack)
    OBVIOUS
<1>1. stack = <<Frame("added", "none"), Login>> /\ CalledFrom("added", Login)
    BY CalledFroms DEF Init
<1>2. QED BY <1>1 DEF CallGraph, Frame, FatalPcs, LoginPcs

-----------------------------------------------------------------------------
(* The connection *)

\* A step may end the connection; otherwise these are the ones that change the
\* ring, the buffer or what the server owes.
Hangup ==
    /\ connUp' = FALSE /\ sent' = <<>> /\ idle' = Nil /\ idling' = FALSE
    /\ cmdbuf' \in {cmdbuf, <<>>}

Renews ==
    /\ At("stepped") /\ Top.kind = "idle" /\ cmdbuf' = Append(cmdbuf, DONE)
    /\ UNCHANGED <<ringVars, connUp, sent, idle, idling>>

PipeStep ==
    \/ /\ UNCHANGED <<ringVars, cmdbuf, connUp, sent, idle>>
       /\ idling' => idling \/ idle # Nil
    \/ Hangup
    \/ Enqueue \/ Send \/ Renews \/ OpenConnection \/ OpenFails \/ TlsDone
    \/ \E k \in 1 .. Slots, r \in Results : ReadTagged(k, r)

\* Every step is one of those that concern the commands on their way.
LEMMA PipeSteps == [Next]_vars => PipeStep
<1> SUFFICES ASSUME [Next]_vars PROVE PipeStep
    OBVIOUS
<1> USE DEF connVars
<1>1. CASE ExecStep
    <2>1. CASE Enqueue \/ Send
        BY <2>1 DEF PipeStep
    <2>2. CASE SingleDrain \/ CmdStart \/ Drained \/ StillFull \/ SendNothing
        BY <2>2 DEF PipeStep, SingleDrain, CmdStart, Drained, StillFull, SendNothing
    <2>3. CASE StartFail \/ RetFatal \/ PollReady \/ PollTimeout \/ Wait
        BY <2>3 DEF PipeStep, StartFail, RetFatal, PollReady, PollTimeout, Wait
    <2>4. CASE SendFails
        BY <2>4 DEF PipeStep, SendFails, Hangup, Disconnect
    <2>5. CASE Stepped
        BY <2>5 DEF PipeStep, Stepped, Renews
    <2>6. QED BY <1>1, <2>1, <2>2, <2>3, <2>4, <2>5 DEF ExecStep
<1>2. CASE ReadStep
    BY <1>2 DEF PipeStep, ReadStep, StepFatal, ReadError, ReadContinuation, ReadUntagged,
                Hangup, Disconnect
<1>3. CASE FinishStep \/ FatalStep
    BY <1>3 DEF PipeStep, FinishStep, FinishFetch, Finish, Fetched, StepBad, FatalStep,
                HandleFatalNoMailbox, HandleFatal, Recovered, CloseConnection, Hangup, Disconnect
<1>4. CASE LoginStep
    <2>1. CASE OpenConnection \/ OpenFails \/ TlsDone
        BY <2>1 DEF PipeStep
    <2>2. CASE Bail
        BY <2>2 DEF PipeStep, Bail, CloseConnection, Hangup, Disconnect
    <2>3. CASE Greeted \/ Preauth \/ Capable \/ StartTls \/ Secured \/ Authenticate
        BY <2>3 DEF PipeStep, Greeted, Preauth, Capable, StartTls, Secured, Authenticate
    <2>4. CASE Authenticated \/ PostLogin \/ Compress \/ Enable \/ List \/ Flush \/ Select \/ LoginDone
        BY <2>4 DEF PipeStep, Authenticated, PostLogin, Compress, Enable, List, Flush, Select,
                    LoginDone
    <2>5. QED BY <1>4, <2>1, <2>2, <2>3, <2>4 DEF LoginStep
<1>5. CASE MailboxStep
    BY <1>5 DEF PipeStep, MailboxStep, AccountAdded, AccountFreed, OpenQueue, OpenSelect, Opened,
                CloseCommand, CloseFatal, Closed, CloseConnection, Purge, Hangup, Disconnect
<1>6. CASE UserStep
    BY <1>6 DEF PipeStep, UserStep, UserExec, CheckIdle, CheckRead, CheckFinish, OpenMailbox,
                CloseMailbox
<1>7. CASE UNCHANGED vars
    BY <1>7 DEF PipeStep, vars
<1>8. QED BY <1>1, <1>2, <1>3, <1>4, <1>5, <1>6, <1>7 DEF Next, ClientStep

\* On a closed connection the server owes nothing.
Closing == ~connUp => sent = <<>> /\ idle = Nil

\* Without a connection nothing is in the buffer and nothing on its way.
LEMMA ClosingKept ==
    ASSUME Types, Closing, PipeStep
    PROVE  Closing'
<1>1. CASE UNCHANGED <<ringVars, cmdbuf, connUp, sent, idle>> \/ Hangup \/ Renews
    BY <1>1 DEF Closing, Hangup, Renews
<1>2. CASE Enqueue \/ OpenFails
    BY <1>2 DEF Closing, Enqueue, OpenFails, connVars
<1>3. CASE Send \/ OpenConnection
    BY <1>3 DEF Closing, Send, OpenConnection
<1>4. CASE TlsDone
    <2>1. SUFFICES ASSUME ~connUp PROVE sent' = <<>> /\ idle' = Nil
        BY <1>4 DEF Closing, TlsDone
    <2>2. sent = <<>> /\ idle' = Nil
        BY <1>4, <2>1 DEF Closing, TlsDone
    <2>3. PICK k \in 0 .. Len(sent) : sent' = SubSeq(sent, k + 1, Len(sent))
        BY <1>4 DEF TlsDone
    <2>4. k = 0 /\ Len(sent) = 0
        BY <2>2, <2>3
    <2>5. sent' = SubSeq(sent, 1, 0)
        BY <2>3, <2>4
    <2>6. SubSeq(sent, 1, 0) = <<>>
        BY SubSeqEmpty
    <2>7. QED BY <2>2, <2>5, <2>6
<1>5. CASE \E k \in 1 .. Slots, r \in Results : ReadTagged(k, r)
    BY <1>5 DEF Closing, ReadTagged
<1>6. QED BY <1>1, <1>2, <1>3, <1>4, <1>5 DEF PipeStep

-----------------------------------------------------------------------------
(* IDLE *)

LoginAt(s) == {i \in DOMAIN s : s[i].pc \in LoginPcs}

\* Going on within a function keeps the login that runs.
LEMMA LoginGoesOn ==
    ASSUME NEW s \in Seq(Activation), NEW t, NEW pc, GoesOn(s, t, pc),
           SameFunction(s[Len(s)].pc, pc)
    PROVE  LoginAt(t) = LoginAt(s)
<1>1. /\ DOMAIN s = 1 .. Len(s) /\ DOMAIN t = 1 .. Len(s) /\ Len(s) \in Nat
      /\ t[Len(s)].pc = pc /\ \A i \in 1 .. Len(s) - 1 : t[i].pc = s[i].pc
    BY DEF GoesOn
<1>2. Len(s) > 0 /\ (s[Len(s)].pc \in LoginPcs <=> pc \in LoginPcs)
    BY <1>1 DEF GoesOn, SameFunction
<1>3. QED BY <1>1, <1>2, LastPlace DEF LoginAt

\* A call that is no login keeps the login that runs.
LEMMA LoginCalls ==
    ASSUME NEW s \in Seq(Activation), NEW t, NEW pc, NEW f, Calls(s, t, pc, f),
           f.pc \notin LoginPcs, SameFunction(s[Len(s)].pc, pc)
    PROVE  LoginAt(t) = LoginAt(s)
<1>1. /\ DOMAIN s = 1 .. Len(s) /\ DOMAIN t = 1 .. Len(s) + 1 /\ Len(s) \in Nat /\ Len(s) > 0
      /\ t[Len(s)].pc = pc /\ \A i \in 1 .. Len(s) - 1 : t[i].pc = s[i].pc
      /\ t[Len(s) + 1].pc = f.pc
    BY DEF Calls
<1>2. s[Len(s)].pc \in LoginPcs <=> pc \in LoginPcs
    BY DEF SameFunction
<1>3. QED BY <1>1, <1>2, LastPlace DEF LoginAt

\* A return ends the login at the top.
LEMMA LoginReturns ==
    ASSUME NEW s \in Seq(Activation), NEW t, Returns(s, t)
    PROVE  LoginAt(t) = LoginAt(s) \ {Len(s)}
<1>1. /\ DOMAIN s = 1 .. Len(s) /\ DOMAIN t = 1 .. Len(s) - 1 /\ Len(s) \in Nat /\ Len(s) > 0
      /\ \A i \in 1 .. Len(s) - 1 : t[i].pc = s[i].pc
    BY DEF Returns
<1>2. /\ \A i \in 1 .. Len(s) - 1 : i \in 1 .. Len(s) /\ i # Len(s)
      /\ \A i \in 1 .. Len(s) : i \in 1 .. Len(s) - 1 \/ i = Len(s)
    BY <1>1, LastPlace
<1>3. QED BY <1>1, <1>2 DEF LoginAt

\* imap_login() is on the stack when it was or when it is called, and it is
\* called on a closed connection.
LEMMA LoginStays ==
    ASSUME Types, StackStep
    PROVE  LoginAt(stack') \subseteq LoginAt(stack) \/ ~connUp'
<1>0. stack \in Seq(Activation) /\ Top = stack[Len(stack)]
    BY DEF Types, Top
<1>1. CASE stack' = stack
    BY <1>1
<1>2. CASE Inside
    BY <1>0, <1>2, LoginGoesOn DEF Inside
<1>3. CASE Calling
    <2>1. PICK pc \in Pcs, f \in Activation :
            /\ Calls(stack, stack', pc, f) /\ SameFunction(Top.pc, pc)
            /\ f.pc \in {"single", "start", "read", "fatal"}
        BY <1>3 DEF Calling
    <2>2. f.pc \notin LoginPcs
        BY <2>1 DEF LoginPcs
    <2>3. QED BY <1>0, <2>1, <2>2, LoginCalls
<1>4. CASE LoggingIn
    BY <1>4 DEF LoggingIn
<1>5. CASE Returning
    BY <1>0, <1>5, LoginReturns DEF Returning
<1>6. CASE Beginning
    <2>1. PICK f \in Activation :
            stack' = <<f>> /\ f.pc \in {"start", "read", "finish", "open", "close"}
        BY <1>6 DEF Beginning
    <2>2. LoginAt(stack') = {}
        BY <2>1 DEF LoginAt, LoginPcs
    <2>3. QED BY <2>2
<1>7. QED BY <1>1, <1>2, <1>3, <1>4, <1>5, <1>6 DEF StackStep

\* After a return the activation below goes on where it called from.
LEMMA Resumes ==
    ASSUME Types, CallGraph(stack), Returning, stack' # <<>>
    PROVE  /\ Len(stack) > 1 /\ Caller \in Activation
           /\ Len(stack') = Len(stack) - 1
           /\ stack'[Len(stack')].pc = Caller.pc /\ stack'[Len(stack')].kind = Caller.kind
           /\ CalledFrom(Caller.pc, Top)
<1>1. /\ stack \in Seq(Activation) /\ Len(stack) \in Nat
      /\ stack' \in Seq(Activation) /\ Len(stack') = Len(stack) - 1
      /\ \A i \in 1 .. Len(stack) - 1 :
            stack'[i].pc = stack[i].pc /\ stack'[i].kind = stack[i].kind
    BY DEF Types, Returning, Returns
<1>2. Len(stack') \in Nat /\ Len(stack') # 0
    BY <1>1
<1>3. Len(stack) > 1 /\ Len(stack) - 1 \in 1 .. Len(stack) - 1 /\ Len(stack) - 1 \in 1 .. Len(stack)
    BY <1>1, <1>2
<1>4. CalledFrom(stack[Len(stack) - 1].pc, stack[(Len(stack) - 1) + 1]) /\ (Len(stack) - 1) + 1 = Len(stack)
    BY <1>1, <1>3 DEF CallGraph
<1>5. QED BY <1>1, <1>3, <1>4 DEF Caller, Top

\* IDLE is issued by the user alone, not while the client logs in, and its tag
\* is in the buffer that is about to be sent.
IdleInv ==
    /\ At("send") /\ Top.kind = "idle" => Top.own \in Tag /\ Top.own \in Elements(cmdbuf)
    /\ LoginAt(stack) # {} => idle = Nil
    /\ idle \in {Nil} \cup Elements(sent)

\* IDLE is in the command buffer when it is sent.
LEMMA SendingIdle ==
    ASSUME Types, CallGraph(stack), StackStep, IdleInv
    PROVE  At("send")' /\ Top'.kind = "idle" => Top'.own \in Tag /\ Top'.own \in Elements(cmdbuf')
<1> SUFFICES ASSUME stack' # <<>>, stack'[Len(stack')].pc = "send", stack'[Len(stack')].kind = "idle"
             PROVE  /\ stack'[Len(stack')].own \in Tag
                    /\ stack'[Len(stack')].own \in Elements(cmdbuf')
    BY DEF At, Top
<1>0. stack \in Seq(Activation) /\ Top = stack[Len(stack)]
    BY DEF Types, Top
<1>1. CASE stack' = stack /\ UNCHANGED vars
    BY <1>1 DEF IdleInv, At, Top, vars
<1>2. CASE Inside
    <2>1. PICK pc \in Pcs \ EntryPcs :
            /\ GoesOn(stack, stack', pc)
            /\ pc = "send" /\ Top.kind = "idle" =>
                 stack'[Len(stack)].own \in Tag /\ stack'[Len(stack)].own \in Elements(cmdbuf')
        BY <1>2 DEF Inside
    <2>2. QED BY <1>0, <2>1 DEF GoesOn
<1>3. CASE Calling \/ LoggingIn
    <2>1. PICK pc, f : Calls(stack, stack', pc, f) /\ f.pc # "send"
        BY <1>3, FramesTyped DEF Calling, LoggingIn
    <2>2. QED BY <2>1 DEF Calls
<1>4. CASE Returning
    <2>1. CalledFrom("send", Top)
        BY <1>4, Resumes
    <2>2. QED BY <2>1 DEF CalledFrom, LoginPcs
<1>5. CASE Beginning
    BY <1>5 DEF Beginning
<1>6. QED BY <1>1, <1>2, <1>3, <1>4, <1>5 DEF StackStep

\* The place below the last one.
LEMMA OneBelow ==
    ASSUME NEW n \in Nat, n > 0, n # 1
    PROVE  n - 1 \in 1 .. n - 1 /\ n - 1 \in 1 .. n /\ (n - 1) + 1 = n /\ n > 1
OBVIOUS

\* IDLE is started by the user and by nothing else.
LEMMA IdleAlone ==
    ASSUME Types, CallGraph(stack), stack # <<>>, Top.kind = "idle"
    PROVE  Len(stack) = 1
<1>1. Len(stack) \in Nat /\ Len(stack) > 0 /\ Top = stack[Len(stack)]
    BY DEF Types, Top
<1>2. SUFFICES ASSUME Len(stack) # 1 PROVE FALSE
    OBVIOUS
<1>3. Len(stack) - 1 \in 1 .. Len(stack) - 1 /\ (Len(stack) - 1) + 1 = Len(stack)
    BY <1>1, <1>2, OneBelow
<1>4. CalledFrom(stack[Len(stack) - 1].pc, stack[Len(stack)])
    BY <1>3 DEF CallGraph
<1>5. QED BY <1>1, <1>4 DEF CalledFrom

\* Only imap_cmd_idle() makes the server idle, and nothing runs below it.
LEMMA IdleSet ==
    ASSUME Types, CallGraph(stack), PipeStep
    PROVE  idle' = idle \/ idle' = Nil \/ LoginAt(stack) = {}
<1>1. CASE UNCHANGED <<ringVars, cmdbuf, connUp, sent, idle>> \/ Hangup \/ Renews
    BY <1>1 DEF Hangup, Renews
<1>2. CASE Enqueue \/ OpenFails \/ OpenConnection \/ TlsDone
    BY <1>2 DEF Enqueue, OpenFails, OpenConnection, TlsDone, connVars
<1>3. CASE Send
    <2>1. CASE Top.kind = "idle"
        <3>1. stack # <<>> /\ Top.pc = "send" /\ Top = stack[Len(stack)] /\ stack \in Seq(Activation)
            BY <1>3 DEF Send, At, Top, Types
        <3>2. Len(stack) = 1
            BY <2>1, <3>1, IdleAlone
        <3>3. QED BY <3>1, <3>2 DEF LoginAt, LoginPcs
    <2>2. CASE Top.kind # "idle"
        BY <1>3, <2>2 DEF Send
    <2>3. QED BY <2>1, <2>2
<1>4. CASE \E k \in 1 .. Slots, r \in Results : ReadTagged(k, r)
    BY <1>4 DEF ReadTagged
<1>5. QED BY <1>1, <1>2, <1>3, <1>4 DEF PipeStep

\* The IDLE that has not ended is among the commands the server has.
LEMMA IdleIsOwed ==
    ASSUME Types, IdleInv, PipeStep
    PROVE  idle' \in {Nil} \cup Elements(sent')
<1>0. /\ idle \in {Nil} \cup Elements(sent) /\ sent \in Seq(Tag)
      /\ cmdbuf \in Seq(Tag \cup {DONE}) /\ stack \in Seq(Activation)
    BY DEF IdleInv, Types
<1>1. CASE UNCHANGED <<ringVars, cmdbuf, connUp, sent, idle>> \/ Hangup \/ Renews
    BY <1>0, <1>1 DEF Hangup, Renews
<1>2. CASE Enqueue \/ OpenFails \/ OpenConnection
    BY <1>0, <1>2 DEF Enqueue, OpenFails, OpenConnection, connVars
<1>3. CASE Send
    <2>1. Delivered \in Seq(Tag) /\ Elements(Delivered) = Elements(cmdbuf) \ {DONE}
        BY <1>0, DeliveredIs
    <2>2. PICK d : d = Delivered
        OBVIOUS
    <2>3. Elements(sent \o d) = Elements(sent) \cup Elements(d)
        <3>1. d \in Seq(Tag)
            BY <2>1, <2>2
        <3>2. /\ DOMAIN sent = 1 .. Len(sent) /\ DOMAIN d = 1 .. Len(d) /\ Len(sent) \in Nat /\ Len(d) \in Nat
              /\ DOMAIN (sent \o d) = 1 .. Len(sent) + Len(d)
              /\ \A i \in 1 .. Len(sent) + Len(d) :
                    (sent \o d)[i] = IF i <= Len(sent) THEN sent[i] ELSE d[i - Len(sent)]
            BY <1>0, <3>1, ConcatProperties
        <3>3. ASSUME NEW i \in 1 .. Len(sent) + Len(d)
              PROVE  (sent \o d)[i] \in Elements(sent) \cup Elements(d)
            <4>1. CASE i <= Len(sent)
                BY <3>2, <4>1 DEF Elements
            <4>2. CASE ~(i <= Len(sent))
                <5>1. i - Len(sent) \in DOMAIN d
                    BY <3>2, <4>2
                <5>2. QED BY <3>2, <4>2, <5>1 DEF Elements
            <4>3. QED BY <4>1, <4>2
        <3>4. ASSUME NEW i \in DOMAIN sent PROVE sent[i] \in Elements(sent \o d)
            <4>1. i \in 1 .. Len(sent) + Len(d) /\ i <= Len(sent)
                BY <3>2
            <4>2. QED BY <3>2, <4>1 DEF Elements
        <3>5. ASSUME NEW i \in DOMAIN d PROVE d[i] \in Elements(sent \o d)
            <4>1. i + Len(sent) \in 1 .. Len(sent) + Len(d) /\ ~(i + Len(sent) <= Len(sent))
                  /\ (i + Len(sent)) - Len(sent) = i
                BY <3>2
            <4>2. QED BY <3>2, <4>1 DEF Elements
        <3>6. QED BY <3>2, <3>3, <3>4, <3>5 DEF Elements
    <2>4. sent' = sent \o d
        BY <1>3, <2>2 DEF Send
    <2>5. CASE Top.kind = "idle"
        <3>1. idle' = Top.own /\ Top.own \in Tag /\ Top.own \in Elements(cmdbuf)
            BY <1>3, <2>5 DEF Send, IdleInv
        <3>2. Top.own \in Elements(d)
            BY <2>1, <2>2, <3>1, SessionAssumption
        <3>3. QED BY <2>3, <2>4, <3>1, <3>2
    <2>6. CASE Top.kind # "idle"
        <3>1. idle' = idle \/ idle' = Nil
            BY <1>3, <2>6 DEF Send
        <3>2. QED BY <1>0, <2>3, <2>4, <3>1
    <2>7. QED BY <2>5, <2>6
<1>4. CASE TlsDone
    <2>1. stack # <<>> /\ stack[Len(stack)].pc = "tlsdone"
        BY <1>4 DEF TlsDone, At, Top
    <2>2. Len(stack) \in LoginAt(stack)
        BY <1>0, <2>1 DEF LoginAt, LoginPcs
    <2>3. QED BY <1>4, <2>2 DEF IdleInv, TlsDone
<1>5. ASSUME NEW k \in 1 .. Slots, NEW r \in Results, ReadTagged(k, r)
      PROVE  idle' \in {Nil} \cup Elements(sent')
    <2>1. k \in DOMAIN sent /\ sent' = Without(sent, k) /\ idle' = IF idle = sent[k] THEN Nil ELSE idle
        BY <1>5 DEF ReadTagged
    <2>2. SUFFICES ASSUME idle # Nil, idle # sent[k] PROVE idle \in Elements(sent')
        BY <2>1
    <2>3. PICK i \in DOMAIN sent : sent[i] = idle
        BY <1>0, <2>2 DEF Elements
    <2>4. /\ sent' \in Seq(Tag) /\ Len(sent') = Len(sent) - 1
          /\ \A j \in 1 .. Len(sent) - 1 : sent'[j] = IF j < k THEN sent[j] ELSE sent[j+1]
        BY <1>0, <2>1, WithoutIs
    <2>5. i \in 1 .. Len(sent) /\ k \in 1 .. Len(sent) /\ i # k /\ Len(sent) \in Nat
          /\ DOMAIN sent' = 1 .. Len(sent) - 1
        BY <1>0, <2>1, <2>2, <2>3, <2>4
    <2>6. CASE i < k
        <3>1. i \in 1 .. Len(sent) - 1
            BY <2>5, <2>6
        <3>2. QED BY <2>3, <2>4, <2>5, <2>6, <3>1 DEF Elements
    <2>7. CASE i > k
        <3>1. i - 1 \in 1 .. Len(sent) - 1 /\ ~(i - 1 < k) /\ (i - 1) + 1 = i
            BY <2>5, <2>7
        <3>2. QED BY <2>3, <2>4, <2>5, <3>1 DEF Elements
    <2>8. QED BY <2>5, <2>6, <2>7
<1>6. QED BY <1>1, <1>2, <1>3, <1>4, <1>5 DEF PipeStep

\* While the server idles the next thing sent is DONE.
LEMMA IdleKept ==
    ASSUME Types, CallGraph(stack), StackStep, PipeStep, IdleInv, Closing'
    PROVE  IdleInv'
<1>1. At("send")' /\ Top'.kind = "idle" => Top'.own \in Tag /\ Top'.own \in Elements(cmdbuf')
    BY SendingIdle
<1>2. LoginAt(stack') # {} => idle' = Nil
    <2>1. CASE ~connUp'
        BY <2>1 DEF Closing
    <2>2. CASE LoginAt(stack') \subseteq LoginAt(stack)
        BY <2>2, IdleSet DEF IdleInv
    <2>3. QED BY <2>1, <2>2, LoginStays
<1>3. idle' \in {Nil} \cup Elements(sent')
    BY IdleIsOwed
<1>4. QED BY <1>1, <1>2, <1>3 DEF IdleInv

-----------------------------------------------------------------------------
(* The first invariant of the session and what follows from it *)

ControlInv ==
    Types /\ RingInv /\ CallGraph(stack) /\ RecoveryInv /\ Closing /\ IdleInv

\* The control of imap_exec(), imap_cmd_step(), cmd_handle_fatal() and
\* imap_login(): what is on the stack, on its way and awaited.
THEOREM SessionControl == Spec => []ControlInv
<1>1. Init => ControlInv
    <2> SUFFICES ASSUME Init PROVE ControlInv
        OBVIOUS
    <2>1. RingInv
        BY EmptyRing DEF Init, NewAccount, RingInit
    <2>2. Closing
        BY DEF Init, NewAccount, Closing
    <2>3. IdleInv
        <3>1. stack = <<Frame("added", "none"), Login>> /\ idle = Nil
            BY DEF Init, NewAccount
        <3>2. ~At("send")
            BY <3>1 DEF At, Top, Login, Frame
        <3>3. QED BY <3>1, <3>2 DEF IdleInv
    <2>4. QED BY <2>1, <2>2, <2>3, TypesInit, GraphInit, RecoveryInit DEF ControlInv
<1>2. RingInv /\ RingInv' /\ ControlInv /\ [Next]_vars => ControlInv'
    <2> SUFFICES ASSUME RingInv, RingInv', ControlInv, [Next]_vars PROVE ControlInv'
        OBVIOUS
    <2>1. Types /\ CallGraph(stack) /\ RecoveryInv /\ Closing /\ IdleInv
        BY DEF ControlInv
    <2>2. StackStep /\ PipeStep
        BY <2>1, NextStack, PipeSteps
    <2>3. Types'
        BY <2>1, TypesKept
    <2>4. CallGraph(stack)'
        BY <2>1, <2>2, GraphKept
    <2>5. RecoveryInv'
        BY <2>1, <2>2, RecoveryKept
    <2>6. Closing'
        BY <2>1, <2>2, ClosingKept
    <2>7. IdleInv'
        BY <2>1, <2>2, <2>6, IdleKept
    <2>8. QED BY <2>3, <2>4, <2>5, <2>6, <2>7 DEF ControlInv
<1>3. QED BY <1>1, <1>2, SessionRing, PTL DEF Spec

\* Recovery does not recur, however often the connection is lost while the
\* client logs in again: cmd_handle_fatal() waits for one login at most, and
\* the flag says whether it does.
THEOREM RecoveryOnce == Spec => []OneRecovery
<1>1. ControlInv => OneRecovery
    <2> SUFFICES ASSUME ControlInv PROVE OneRecovery
        OBVIOUS
    <2> DEFINE R == RecoveredAt(stack)
    <2>1. /\ \A i, j \in R : i = j
          /\ recovering <=> R # {}
          /\ recovering \in BOOLEAN
        BY DEF ControlInv, RecoveryInv, Types
    <2>2. R = {i \in DOMAIN stack : stack[i].pc = "recovered"}
        BY DEF RecoveredAt
    <2>3. Cardinality(R) <= 1
        <3>1. CASE R = {}
            BY <3>1, FS_EmptySet
        <3>2. ASSUME NEW x \in R PROVE Cardinality(R) <= 1
            <4>1. R = {x}
                BY <2>1, <3>2
            <4>2. Cardinality({x}) = 1
                BY FS_Singleton
            <4>3. QED BY <4>1, <4>2
        <3>3. QED BY <3>1, <3>2
    <2>4. (\E i \in DOMAIN stack : stack[i].pc = "recovered") <=> R # {}
        BY DEF RecoveredAt
    <2> HIDE DEF R
    <2>5. recovering = (\E i \in DOMAIN stack : stack[i].pc = "recovered")
        BY <2>1, <2>4
    <2>6. QED BY <2>2, <2>3, <2>5 DEF OneRecovery
<1>2. QED BY <1>1, SessionControl, PTL

\* Every value has its type in every reachable state; the IDLE that has not
\* ended is one the server still owes an answer to, also after a recovery.
THEOREM SessionTypes == Spec => []TypeOK
<1>1. ControlInv => TypeOK
    <2> SUFFICES ASSUME ControlInv PROVE TypeOK
        OBVIOUS
    <2>1. Types /\ RingTypeOK /\ idle \in {Nil} \cup Elements(sent)
        BY DEF ControlInv, RingInv, IdleInv
    <2>2. state \in Elements(States)
        BY <2>1 DEF Types, Elements, States
    <2>3. QED BY <2>1, <2>2 DEF TypeOK, Types, Activation, Reports
<1>2. QED BY <1>1, SessionControl, PTL

-----------------------------------------------------------------------------
(* The answers of a login, and the commands the client waits for *)

\* imap_login() is called by a recovery or by imap_ac_add().
LEMMA LoginCaller ==
    ASSUME Types, CallGraph(stack), NEW i \in LoginAt(stack)
    PROVE  /\ i - 1 \in DOMAIN stack
           /\ \/ stack[i-1].pc = "recovered"
              \/ i - 1 = 1 /\ stack[1].pc = "added"
<1>1. /\ stack \in Seq(Activation) /\ Len(stack) \in Nat /\ DOMAIN stack = 1 .. Len(stack)
      /\ i \in 1 .. Len(stack) /\ stack[i].pc \in LoginPcs
    BY DEF Types, LoginAt
<1>2. i # 1
    BY <1>1 DEF CallGraph
<1>3. i - 1 \in 1 .. Len(stack) - 1 /\ i - 1 \in 1 .. Len(stack) /\ (i - 1) + 1 = i
    BY <1>1, <1>2
<1>4. CalledFrom(stack[i-1].pc, stack[i])
    BY <1>3 DEF CallGraph
<1>5. stack[i-1].pc \in {"recovered", "added"}
    BY <1>1, <1>4 DEF CalledFrom, LoginPcs, StepPcs, ExecPcs, FatalPcs
<1>6. CASE i - 1 # 1 /\ stack[i-1].pc = "added"
    <2>1. (i - 1) - 1 \in 1 .. Len(stack) - 1 /\ ((i - 1) - 1) + 1 = i - 1
        BY <1>3, <1>6
    <2>2. CalledFrom(stack[(i-1)-1].pc, stack[i-1])
        BY <2>1 DEF CallGraph
    <2>3. QED BY <1>6, <2>2 DEF CalledFrom, LoginPcs, StepPcs, ExecPcs, FatalPcs
<1>7. QED BY <1>1, <1>3, <1>5, <1>6

\* One login is under way, and no recovery above it.
LEMMA OneLogin ==
    ASSUME Types, CallGraph(stack), RecoveryInv
    PROVE  /\ \A i, j \in LoginAt(stack) : i = j
           /\ \A i \in LoginAt(stack), j \in RecoveredAt(stack) : j = i - 1
<1>0. stack \in Seq(Activation) /\ DOMAIN stack = 1 .. Len(stack) /\ Len(stack) \in Nat
    BY DEF Types
<1>1. ASSUME NEW i \in LoginAt(stack)
      PROVE  \/ i - 1 \in RecoveredAt(stack)
             \/ i = 2 /\ RecoveredAt(stack) = {}
    <2>1. i \in 1 .. Len(stack)
        BY <1>0 DEF LoginAt
    <2>2. CASE stack[i-1].pc = "recovered"
        BY <2>2, LoginCaller DEF RecoveredAt
    <2>3. CASE i - 1 = 1 /\ stack[1].pc = "added"
        <3>1. stack # <<>> /\ i = 2
            BY <1>0, <2>1, <2>3
        <3>2. QED BY <2>3, <3>1 DEF RecoveryInv
    <2>4. QED BY <2>2, <2>3, LoginCaller
<1>2. ASSUME NEW i \in LoginAt(stack), NEW j \in LoginAt(stack) PROVE i = j
    <2>1. i \in Nat /\ j \in Nat
        BY <1>0 DEF LoginAt
    <2>2. CASE i - 1 \in RecoveredAt(stack) /\ j - 1 \in RecoveredAt(stack)
        <3>1. i - 1 = j - 1
            BY <2>2 DEF RecoveryInv
        <3>2. QED BY <2>1, <3>1
    <2>3. QED BY <1>1, <2>2
<1>3. ASSUME NEW i \in LoginAt(stack), NEW j \in RecoveredAt(stack) PROVE j = i - 1
    BY <1>1 DEF RecoveryInv
<1>4. QED BY <1>2, <1>3

PreAt(s) == {i \in DOMAIN s : s[i].pc \in PrePcs}

\* What a step does to adata->state.
StateStep ==
    \/ state' \in {"CONNECTED", "DISCONNECTED"}
    \/ state' = state
    \/ state = "IDLE"
    \/ stack # <<>> /\ (Top.kind = "idle" \/ Top.pc \in MailPcs)
    \/ /\ stack # <<>> /\ Top.pc \in LoginPcs
       /\ \/ \E pc \in Pcs \ PrePcs : Goto(pc)
          \/ \E pc \in Pcs \ PrePcs, f \in Activation : Call(f, pc)

\* How the state of the session changes in any step.
LEMMA StateSteps ==
    ASSUME Types, [Next]_vars
    PROVE  StateStep
<1> USE DEF StateStep
<1>1. CASE ExecStep
    <2>1. CASE SingleDrain \/ CmdStart \/ Drained \/ Enqueue \/ StillFull \/ SendNothing
        BY <2>1 DEF SingleDrain, CmdStart, Drained, Enqueue, StillFull, SendNothing, acctVars
    <2>2. CASE Send \/ SendFails
        BY <2>2 DEF Send, SendFails, Unidle
    <2>3. CASE StartFail \/ RetFatal \/ PollReady \/ PollTimeout \/ Wait
        BY <2>3 DEF StartFail, RetFatal, PollReady, PollTimeout, Wait, acctVars
    <2>4. CASE Stepped
        BY <2>4 DEF Stepped, At
    <2>5. QED BY <1>1, <2>1, <2>2, <2>3, <2>4 DEF ExecStep
<1>2. CASE ReadStep
    BY <1>2 DEF ReadStep, StepFatal, ReadError, ReadContinuation, ReadUntagged, ReadTagged, acctVars
<1>3. CASE FinishStep \/ FatalStep
    BY <1>3 DEF FinishStep, FinishFetch, Finish, Fetched, StepBad, FatalStep,
                HandleFatalNoMailbox, HandleFatal, Recovered, CloseConnection, acctVars
<1>4. CASE LoginStep
    <2>1. CASE OpenConnection \/ OpenFails \/ Bail
        BY <2>1 DEF OpenConnection, OpenFails, Bail, CloseConnection, acctVars
    <2>2. CASE Greeted \/ Capable \/ StartTls \/ TlsDone \/ Secured \/ Authenticate
        BY <2>2 DEF Greeted, Capable, StartTls, TlsDone, Secured, Authenticate, acctVars
    <2>3. CASE PostLogin \/ Compress \/ Enable \/ List \/ Flush \/ LoginDone
        BY <2>3 DEF PostLogin, Compress, Enable, List, Flush, LoginDone, acctVars
    <2>4. CASE Preauth
        <3>1. stack # <<>> /\ Top.pc \in LoginPcs
            BY <2>4 DEF Preauth, At, LoginPcs
        <3>2. Exec("sync") \in Activation
            BY FramesTyped DEF Kinds
        <3>3. QED BY <2>4, <3>1, <3>2 DEF Preauth, Pcs, PrePcs
    <2>5. CASE Authenticated
        <3>1. stack # <<>> /\ Top.pc \in LoginPcs /\ Goto("post")
            BY <2>5 DEF Authenticated, At, LoginPcs
        <3>2. QED BY <3>1 DEF Pcs, PrePcs
    <2>6. CASE Select
        <3>1. stack # <<>> /\ Top.pc \in LoginPcs
            BY <2>6 DEF Select, At, LoginPcs
        <3>2. Exec("start") \in Activation
            BY FramesTyped DEF Kinds
        <3>3. QED BY <2>6, <3>1, <3>2 DEF Select, Pcs, PrePcs
    <2>7. QED BY <1>4, <2>1, <2>2, <2>3, <2>4, <2>5, <2>6 DEF LoginStep
<1>5. CASE MailboxStep
    BY <1>5 DEF MailboxStep, AccountAdded, AccountFreed, OpenQueue, OpenSelect, Opened,
                CloseCommand, CloseFatal, Closed, At, MailPcs
<1>6. CASE UserStep
    BY <1>6 DEF UserStep, UserExec, CheckIdle, CheckRead, CheckFinish, OpenMailbox,
                CloseMailbox, acctVars
<1>7. CASE UNCHANGED vars
    BY <1>7 DEF vars, acctVars
<1>8. QED BY <1>1, <1>2, <1>3, <1>4, <1>5, <1>6, <1>7 DEF Next, ClientStep

\* A caller from before the login stays there, or the state is CONNECTED.
LEMMA PreStays ==
    ASSUME Types, StackStep
    PROVE  PreAt(stack') \subseteq PreAt(stack) \/ state' = "CONNECTED"
<1>0. stack \in Seq(Activation) /\ Top = stack[Len(stack)] /\ DOMAIN stack = 1 .. Len(stack)
      /\ Len(stack) \in Nat
    BY DEF Types, Top
<1>1. CASE stack' = stack
    BY <1>1
<1>2. CASE Inside
    <2>1. PICK pc \in Pcs \ EntryPcs :
            GoesOn(stack, stack', pc) /\ (pc \in PrePcs => Top.pc \in PrePcs \/ state' = "CONNECTED")
        BY <1>2 DEF Inside
    <2>2. /\ DOMAIN stack' = 1 .. Len(stack) /\ Len(stack) > 0 /\ stack'[Len(stack)].pc = pc
          /\ \A i \in 1 .. Len(stack) - 1 : stack'[i].pc = stack[i].pc
        BY <1>0, <2>1 DEF GoesOn
    <2>3. QED BY <1>0, <2>1, <2>2, LastPlace DEF PreAt
<1>3. CASE Calling \/ LoggingIn
    <2>1. PICK pc, f : /\ Calls(stack, stack', pc, f) /\ f.pc \notin PrePcs
                       /\ pc \in PrePcs => Top.pc \in PrePcs \/ state' = "CONNECTED"
        <3>1. CASE Calling
            BY <3>1 DEF Calling, PrePcs
        <3>2. CASE LoggingIn
            BY <3>2, FramesTyped DEF LoggingIn, PrePcs
        <3>3. QED BY <1>3, <3>1, <3>2
    <2>2. /\ DOMAIN stack' = 1 .. Len(stack) + 1 /\ Len(stack) > 0 /\ stack'[Len(stack)].pc = pc
          /\ \A i \in 1 .. Len(stack) - 1 : stack'[i].pc = stack[i].pc
          /\ stack'[Len(stack) + 1].pc = f.pc
        BY <1>0, <2>1 DEF Calls
    <2>3. QED BY <1>0, <2>1, <2>2, LastPlace DEF PreAt
<1>4. CASE Returning
    <2>1. /\ DOMAIN stack' = 1 .. Len(stack) - 1 /\ Len(stack) > 0
          /\ \A i \in 1 .. Len(stack) - 1 : stack'[i].pc = stack[i].pc
        BY <1>0, <1>4 DEF Returning, Returns
    <2>2. QED BY <1>0, <2>1, LastPlace DEF PreAt
<1>5. CASE Beginning
    <2>1. PICK f \in Activation :
            stack' = <<f>> /\ f.pc \in {"start", "read", "finish", "open", "close"}
        BY <1>5 DEF Beginning
    <2>2. PreAt(stack') = {}
        BY <2>1 DEF PreAt, PrePcs
    <2>3. QED BY <2>2
<1>6. QED BY <1>1, <1>2, <1>3, <1>4, <1>5 DEF StackStep

\* Before the server knows the client nothing is selected.
Unknown == PreAt(stack) # {} => state \in {"CONNECTED", "DISCONNECTED"}

\* Before the login has begun the state is CONNECTED or DISCONNECTED.
LEMMA UnknownKept ==
    ASSUME Types, CallGraph(stack), RecoveryInv, StackStep, StateStep, Unknown
    PROVE  Unknown'
<1> SUFFICES ASSUME PreAt(stack') # {} PROVE state' \in {"CONNECTED", "DISCONNECTED"}
    BY DEF Unknown
<1>0. stack \in Seq(Activation) /\ Top = stack[Len(stack)] /\ DOMAIN stack = 1 .. Len(stack)
      /\ Len(stack) \in Nat
    BY DEF Types, Top
<1>1. CASE state' \in {"CONNECTED", "DISCONNECTED"}
    BY <1>1
<1>2. CASE state' # "CONNECTED" /\ (state' = state \/ state = "IDLE")
    BY <1>2, PreStays DEF Unknown
<1>3. CASE state' # "CONNECTED" /\ stack # <<>> /\ (Top.kind = "idle" \/ Top.pc \in MailPcs)
    <2>1. Len(stack) = 1
        <3>1. SUFFICES ASSUME Top.pc \in MailPcs PROVE Len(stack) = 1
            BY <1>3, IdleAlone
        <3>2. CASE Len(stack) # 1
            <4>1. Len(stack) - 1 \in 1 .. Len(stack) - 1 /\ (Len(stack) - 1) + 1 = Len(stack)
                BY <1>0, <1>3, <3>2, OneBelow
            <4>2. CalledFrom(stack[Len(stack) - 1].pc, Top)
                BY <1>0, <4>1 DEF CallGraph
            <4>3. QED BY <3>1, <4>2 DEF CalledFrom, MailPcs, LoginPcs, ExecPcs, StepPcs, FatalPcs
        <3>3. QED BY <3>2
    <2>2. stack[1].pc \notin PrePcs
        BY <1>3 DEF CallGraph, PrePcs, LoginPcs
    <2>3. PreAt(stack) = {}
        BY <1>0, <2>1, <2>2 DEF PreAt
    <2>4. QED BY <1>3, <2>3, PreStays
<1>4. CASE /\ state' # "CONNECTED" /\ stack # <<>> /\ Top.pc \in LoginPcs
           /\ \/ \E pc \in Pcs \ PrePcs : Goto(pc)
              \/ \E pc \in Pcs \ PrePcs, f \in Activation : Call(f, pc)
    <2>1. At(Top.pc) /\ Len(stack) > 0
        BY <1>0, <1>4 DEF At
    <2>2. stack'[Len(stack)].pc \notin PrePcs
        <3>1. CASE \E pc \in Pcs \ PrePcs : Goto(pc)
            BY <2>1, <3>1, GotoStack DEF GoesOn
        <3>2. CASE \E pc \in Pcs \ PrePcs, f \in Activation : Call(f, pc)
            BY <2>1, <3>2, CallStack DEF Calls
        <3>3. QED BY <1>4, <3>1, <3>2
    <2>3. PreAt(stack) \subseteq LoginAt(stack)
        BY DEF PreAt, LoginAt, PrePcs, LoginPcs
    <2>4. Len(stack) \in LoginAt(stack)
        BY <1>0, <1>4, <2>1 DEF LoginAt
    <2>5. PreAt(stack) \subseteq {Len(stack)}
        BY <2>3, <2>4, OneLogin
    <2>6. PreAt(stack') = {}
        BY <1>4, <2>2, <2>5, PreStays DEF PreAt
    <2>7. QED BY <2>6
<1>5. QED BY <1>1, <1>2, <1>3, <1>4 DEF StateStep

\* The server answers, or the connection is closed, before imap_exec() of
\* STARTTLS has an end: it waits alone (IMAP_CMD_SINGLE) for the last command.
Answers ==
    /\ At("login") => NewTags = {} /\ ~connUp
    /\ At("finish") /\ Len(stack) > 1 => NewTags = {}
    /\ At("bad") /\ Len(stack) > 1 /\ Caller.kind = "single" => fatal \/ ~connUp
    /\ At("stepped") /\ Top.kind = "single" /\ connUp
          /\ ret.res # "CONTINUE" /\ ~(fatal /\ ret.res = "BAD") => NewTags = {}
    /\ At("tlsdone") /\ connUp /\ ret.res # "FATAL" => NewTags = {}

\* imap_read_headers() does not run in an answer to STARTTLS.
NoFetch == \A i \in 2 .. Len(stack) : stack[i].pc = "fetched" => stack[i-1].kind # "single"

\* STARTTLS is awaited by a login.
LEMMA SingleCaller ==
    ASSUME Types, CallGraph(stack), NEW i \in DOMAIN stack, stack[i].kind = "single"
    PROVE  i > 1 /\ i - 1 \in PreAt(stack) /\ i - 1 \in LoginAt(stack)
<1>1. DOMAIN stack = 1 .. Len(stack) /\ Len(stack) \in Nat
    BY DEF Types
<1>2. i # 1
    BY <1>1 DEF CallGraph
<1>3. i - 1 \in 1 .. Len(stack) - 1 /\ i - 1 \in 1 .. Len(stack) /\ (i - 1) + 1 = i /\ i > 1
    BY <1>1, <1>2
<1>4. CalledFrom(stack[i-1].pc, stack[i])
    BY <1>3 DEF CallGraph
<1>5. stack[i-1].pc = "tlsdone"
    BY <1>4 DEF CalledFrom
<1>6. QED BY <1>1, <1>3, <1>5 DEF PreAt, LoginAt, PrePcs, LoginPcs

\* A mailbox is selected after the login.
LEMMA SelectedIsKnown ==
    ASSUME Reached("SELECTED")
    PROVE  state \notin {"CONNECTED", "DISCONNECTED"}
<1>1. PICK i \in DOMAIN States, j \in DOMAIN States :
        States[i] = state /\ States[j] = "SELECTED" /\ i >= j
    BY DEF Reached
<1>2. i \in 1 .. 5 /\ j \in 1 .. 5
    BY <1>1 DEF States
<1>3. j = 4
    BY <1>1, <1>2 DEF States
<1>4. i = 4 \/ i = 5
    BY <1>1, <1>2, <1>3
<1>5. QED BY <1>1, <1>4 DEF States

\* The places of a stack onto which an activation is pushed.
LEMMA WherePushed ==
    ASSUME NEW n \in Nat, NEW i \in 2 .. n + 1
    PROVE  \/ i = n + 1
           \/ i = n /\ i - 1 \in 1 .. n - 1
           \/ i \in 1 .. n - 1 /\ i \in 2 .. n /\ i - 1 \in 1 .. n - 1
    OBVIOUS

\* No messages are fetched in an answer to STARTTLS.
LEMMA NoFetchKept ==
    ASSUME Types, CallGraph(stack), Unknown, StackStep, NoFetch
    PROVE  NoFetch'
<1>0. stack \in Seq(Activation) /\ Top = stack[Len(stack)] /\ DOMAIN stack = 1 .. Len(stack)
      /\ Len(stack) \in Nat
    BY DEF Types, Top
<1> SUFFICES ASSUME NEW i \in 2 .. Len(stack'), stack'[i].pc = "fetched"
             PROVE  stack'[i-1].kind # "single"
    BY DEF NoFetch
<1>1. CASE stack' = stack
    BY <1>1 DEF NoFetch
<1>2. CASE Inside
    <2>1. PICK pc \in Pcs \ EntryPcs : GoesOn(stack, stack', pc)
        BY <1>2 DEF Inside
    <2>2. /\ Len(stack') = Len(stack) /\ stack'[Len(stack)].pc # "fetched"
          /\ \A j \in 1 .. Len(stack) - 1 : stack'[j].pc = stack[j].pc /\ stack'[j].kind = stack[j].kind
        BY <2>1 DEF GoesOn, EntryPcs
    <2>3. i \in 1 .. Len(stack) - 1 /\ i - 1 \in 1 .. Len(stack) - 1 /\ i \in 2 .. Len(stack)
        BY <1>0, <2>2
    <2>4. QED BY <2>2, <2>3 DEF NoFetch
<1>3. CASE Calling \/ LoggingIn
    <2>1. PICK pc, f : /\ Calls(stack, stack', pc, f) /\ f.pc # "fetched"
                       /\ pc = "fetched" => Reached("SELECTED")
        <3>1. CASE Calling
            BY <3>1 DEF Calling
        <3>2. CASE LoggingIn
            BY <3>2, FramesTyped DEF LoggingIn
        <3>3. QED BY <1>3, <3>1, <3>2
    <2>2. /\ Len(stack') = Len(stack) + 1 /\ Len(stack) > 0
          /\ stack'[Len(stack) + 1].pc # "fetched" /\ stack'[Len(stack)].pc = pc
          /\ \A j \in 1 .. Len(stack) - 1 : stack'[j].pc = stack[j].pc /\ stack'[j].kind = stack[j].kind
        BY <1>0, <2>1 DEF Calls
    <2>3. \/ i = Len(stack) + 1
          \/ i = Len(stack) /\ i - 1 \in 1 .. Len(stack) - 1
          \/ i \in 1 .. Len(stack) - 1 /\ i \in 2 .. Len(stack) /\ i - 1 \in 1 .. Len(stack) - 1
        BY <1>0, <2>2, WherePushed
    <2>4. CASE i = Len(stack) /\ i - 1 \in 1 .. Len(stack) - 1
        <3>1. state \notin {"CONNECTED", "DISCONNECTED"}
            BY <2>1, <2>2, <2>4, SelectedIsKnown
        <3>2. PreAt(stack) = {}
            BY <3>1 DEF Unknown
        <3>3. i - 1 \in DOMAIN stack
            BY <1>0, <2>4
        <3>4. stack[i-1].kind # "single"
            BY <3>2, <3>3, SingleCaller
        <3>5. QED BY <2>2, <2>4, <3>4
    <2>5. CASE i \in 1 .. Len(stack) - 1 /\ i \in 2 .. Len(stack) /\ i - 1 \in 1 .. Len(stack) - 1
        BY <2>2, <2>5 DEF NoFetch
    <2>6. CASE i = Len(stack) + 1
        BY <1>0, <2>2, <2>6
    <2>7. QED BY <2>3, <2>4, <2>5, <2>6
<1>4. CASE Returning
    <2>1. /\ Len(stack') = Len(stack) - 1 /\ Len(stack) > 0
          /\ \A j \in 1 .. Len(stack) - 1 : stack'[j].pc = stack[j].pc /\ stack'[j].kind = stack[j].kind
        BY <1>0, <1>4 DEF Returning, Returns
    <2>2. i - 1 \in 1 .. Len(stack) - 1 /\ i \in 1 .. Len(stack) - 1 /\ i \in 2 .. Len(stack)
        BY <1>0, <2>1
    <2>3. QED BY <2>1, <2>2 DEF NoFetch
<1>5. CASE Beginning
    <2>1. Len(stack') = 1
        BY <1>5 DEF Beginning
    <2>2. QED BY <2>1
<1>6. QED BY <1>1, <1>2, <1>3, <1>4, <1>5 DEF StackStep

\* Back in imap_exec() of STARTTLS, and back in imap_login() after it.
LEMMA BackInSingle ==
    ASSUME ControlInv, Answers, NoFetch, Returning, stack' # <<>>,
           Caller.pc = "stepped", Caller.kind = "single",
           connUp', ret'.res # "CONTINUE", ~(fatal' /\ ret'.res = "BAD")
    PROVE  NewTags' = {}
<1>0. /\ Types /\ CallGraph(stack) /\ IdleInv /\ connUp \in BOOLEAN /\ fatal \in BOOLEAN
      /\ stack \in Seq(Activation) /\ Top = stack[Len(stack)] /\ Len(stack) \in Nat
      /\ DOMAIN stack = 1 .. Len(stack)
    BY DEF ControlInv, Types, Top
<1>1. Len(stack) > 1 /\ CalledFrom("stepped", Top)
    BY <1>0, Resumes
<1>2. Top.pc \in StepPcs /\ Top.pc # "fatal" /\ Top.pc # "recovered"
    BY <1>1 DEF CalledFrom, StepPcs, LoginPcs
<1>3. /\ Len(stack) - 1 \in DOMAIN stack /\ Caller = stack[Len(stack) - 1]
      /\ Len(stack) \in 2 .. Len(stack)
    BY <1>0, <1>1 DEF Caller
<1>4. idle = Nil
    <2>1. LoginAt(stack) # {}
        BY <1>0, <1>3, SingleCaller
    <2>2. QED BY <1>0, <2>1 DEF IdleInv
<1>5. At(Top.pc)
    BY <1>0, <1>1 DEF At
<1>6. \/ Top.pc = "finish" /\ NewTags' = NewTags
      \/ Top.pc = "fetched"
      \/ Top.pc = "bad" /\ ret'.res = "BAD" /\ fatal' = fatal /\ connUp' = connUp
    BY <1>2, <1>4 DEF Returning, Reason
<1>7. CASE Top.pc = "finish" /\ NewTags' = NewTags
    BY <1>1, <1>5, <1>7 DEF Answers
<1>8. CASE Top.pc = "fetched"
    BY <1>0, <1>3, <1>8 DEF NoFetch
<1>9. CASE Top.pc = "bad" /\ ret'.res = "BAD" /\ fatal' = fatal /\ connUp' = connUp
    BY <1>0, <1>1, <1>5, <1>9 DEF Answers
<1>10. QED BY <1>6, <1>7, <1>8, <1>9

\* When STARTTLS has been answered nothing is awaited.
LEMMA BackInLogin ==
    ASSUME ControlInv, Answers, Returning, stack' # <<>>, Caller.pc = "tlsdone",
           connUp', ret'.res # "FATAL"
    PROVE  NewTags' = {}
<1>0. /\ Types /\ CallGraph(stack) /\ RingInv /\ connUp \in BOOLEAN /\ fatal \in BOOLEAN
      /\ Top = stack[Len(stack)]
    BY DEF ControlInv, Types, Top
<1>1. Len(stack) > 1 /\ CalledFrom("tlsdone", Top)
    BY <1>0, Resumes
<1>2. Top.pc \in ExecPcs /\ Top.kind = "single" /\ Top.pc # "recovered"
    BY <1>1 DEF CalledFrom, ExecPcs, LoginPcs
<1>3. /\ Top.pc = "stepped" /\ ~WaitAgain("single") /\ ret'.res = ExecResult(ret.res)
      /\ UNCHANGED <<connUp, fatal, ringVars>>
    BY <1>2 DEF Returning, Reason
<1>4. At("stepped") /\ NewTags' = NewTags
    BY <1>0, <1>1, <1>3, SameTags DEF At
<1>5. CASE nextcmd = lastcmd
    <2>1. \A i \in Slot : ~IsNew(i)
        <3>1. lastcmd \in Slot /\ NewInWindow
            BY <1>0 DEF RingInv, RingTypeOK
        <3>2. Ahead(lastcmd, nextcmd) = 0
            BY <1>5, <3>1, RingAssumption DEF Ahead, Slot
        <3>3. \A i \in Slot : ~(Ahead(lastcmd, i) < 0)
            BY <3>1, RingAssumption DEF Ahead, Slot
        <3>4. QED BY <3>1, <3>2, <3>3 DEF NewInWindow
    <2>2. NewTags = {}
        BY <2>1 DEF NewTags
    <2>3. QED BY <1>4, <2>2
<1>6. CASE nextcmd # lastcmd
    <2>1. ret.res # "CONTINUE"
        BY <1>3, <1>6 DEF WaitAgain
    <2>2. ~(fatal /\ ret.res = "BAD")
        BY <1>3 DEF ExecResult
    <2>3. QED BY <1>2, <1>3, <1>4, <2>1, <2>2 DEF Answers
<1>7. QED BY <1>5, <1>6

\* A recovery that ends does not end in a login.
LEMMA BackInBad ==
    ASSUME ControlInv, Returning, stack' # <<>>, Caller.pc = "bad",
           Len(stack') > 1, stack'[Len(stack') - 1].kind = "single"
    PROVE  fatal' \/ ~connUp'
<1>0. /\ Types /\ CallGraph(stack) /\ RecoveryInv /\ Top = stack[Len(stack)]
      /\ stack \in Seq(Activation) /\ Len(stack) \in Nat /\ DOMAIN stack = 1 .. Len(stack)
    BY DEF ControlInv, Types, Top
<1>1. /\ Len(stack) > 1 /\ CalledFrom("bad", Top) /\ Len(stack') = Len(stack) - 1
    BY <1>0, Resumes
<1>2. Top.pc \in FatalPcs
    BY <1>1 DEF CalledFrom, LoginPcs
<1>3. CASE Top.pc = "fatal"
    BY <1>3 DEF Returning, Reason
<1>4. CASE Top.pc = "recovered"
    <2>1. Len(stack) - 2 \in 1 .. Len(stack) - 1 /\ Len(stack) - 2 \in DOMAIN stack
          /\ Len(stack') - 1 = Len(stack) - 2
        BY <1>0, <1>1
    <2>2. stack[Len(stack) - 2].kind = "single"
        BY <2>1 DEF Returning, Returns
    <2>3. (Len(stack) - 2) - 1 \in LoginAt(stack)
        BY <1>0, <2>1, <2>2, SingleCaller
    <2>4. Len(stack) \in RecoveredAt(stack)
        BY <1>0, <1>1, <1>4 DEF RecoveredAt
    <2>5. Len(stack) = ((Len(stack) - 2) - 1) - 1
        BY <1>0, <2>3, <2>4, OneLogin
    <2>6. QED BY <1>0, <2>5
<1>5. QED BY <1>2, <1>3, <1>4 DEF FatalPcs

\* No step answers STARTTLS while another command is awaited.
LEMMA AnswersKept ==
    ASSUME ControlInv, ControlInv', Answers, NoFetch, StackStep
    PROVE  Answers'
<1>0. /\ Types /\ CallGraph(stack) /\ stack' \in Seq(Activation) /\ Len(stack') \in Nat
    BY DEF ControlInv, Types
<1>1. CASE stack' = stack /\ UNCHANGED vars
    BY <1>1, SameTags DEF Answers, vars, ringVars, connVars, acctVars, At, Top, Caller
<1>2. CASE Inside
    <2>1. PICK pc \in Pcs \ EntryPcs :
            GoesOn(stack, stack', pc) /\ (pc = "finish" => NewTags' = {})
        BY <1>2 DEF Inside
    <2>2. stack' # <<>> /\ stack'[Len(stack')].pc = pc
        BY <2>1 DEF GoesOn
    <2>3. QED BY <2>1, <2>2 DEF Answers, At, Top, EntryPcs
<1>3. CASE Calling
    <2>1. PICK pc \in Pcs, f \in Activation :
            Calls(stack, stack', pc, f) /\ f.pc \in {"single", "start", "read", "fatal"}
        BY <1>3 DEF Calling
    <2>2. stack'[Len(stack')].pc \in {"single", "start", "read", "fatal"}
        BY <2>1 DEF Calls
    <2>3. QED BY <2>2 DEF Answers, At, Top
<1>4. CASE LoggingIn
    <2>1. stack'[Len(stack')].pc = "login"
        BY <1>4, FramesTyped DEF LoggingIn, Calls
    <2>2. QED BY <1>4, <2>1 DEF Answers, At, Top, LoggingIn
<1>5. CASE Beginning
    <2>1. Len(stack') = 1 /\ stack'[1].pc \in {"start", "read", "finish", "open", "close"}
        BY <1>5 DEF Beginning
    <2>2. QED BY <2>1 DEF Answers, At, Top
<1>6. CASE Returning
    <2> SUFFICES ASSUME stack' # <<>> PROVE Answers'
        BY DEF Answers, At
    <2>1. /\ Top'.pc = Caller.pc /\ Top'.kind = Caller.kind /\ CalledFrom(Caller.pc, Top)
          /\ Top' = stack'[Len(stack')]
        BY <1>0, <1>6, Resumes DEF Top
    <2>2. Caller.pc # "login" /\ Caller.pc # "finish"
        BY <2>1 DEF CalledFrom, LoginPcs
    <2>3. ASSUME Caller.pc = "bad", Len(stack') > 1, Caller'.kind = "single"
          PROVE  fatal' \/ ~connUp'
        <3>1. Caller' = stack'[Len(stack') - 1]
            BY DEF Caller
        <3>2. QED BY <1>6, <2>3, <3>1, BackInBad
    <2>4. ASSUME Caller.pc = "stepped", Caller.kind = "single", connUp', ret'.res # "CONTINUE",
                 ~(fatal' /\ ret'.res = "BAD")
          PROVE  NewTags' = {}
        BY <1>6, <2>4, BackInSingle
    <2>5. ASSUME Caller.pc = "tlsdone", connUp', ret'.res # "FATAL" PROVE NewTags' = {}
        BY <1>6, <2>5, BackInLogin
    <2>6. (At("login") => NewTags = {} /\ ~connUp)' /\ (At("finish") /\ Len(stack) > 1 => NewTags = {})'
        BY <2>1, <2>2 DEF At
    <2>7. (At("bad") /\ Len(stack) > 1 /\ Caller.kind = "single" => fatal \/ ~connUp)'
        BY <2>1, <2>3 DEF At
    <2>8. (At("stepped") /\ Top.kind = "single" /\ connUp
             /\ ret.res # "CONTINUE" /\ ~(fatal /\ ret.res = "BAD") => NewTags = {})'
        BY <2>1, <2>4 DEF At
    <2>9. (At("tlsdone") /\ connUp /\ ret.res # "FATAL" => NewTags = {})'
        BY <2>1, <2>5 DEF At
    <2>10. QED BY <2>6, <2>7, <2>8, <2>9 DEF Answers
<1>7. QED BY <1>1, <1>2, <1>3, <1>4, <1>5, <1>6 DEF StackStep

\* No element of s occurs twice, those equal to x aside.
Once(s, x) == \A i, j \in DOMAIN s : s[i] # x /\ s[i] = s[j] => i = j

\* An element at the end of a list.
LEMMA AppendOnce ==
    ASSUME NEW S, NEW s \in Seq(S), NEW y \in S, NEW x
    PROVE  /\ Once(s, x) /\ (y = x \/ y \notin Elements(s)) => Once(Append(s, y), x)
           /\ Elements(Append(s, y)) = Elements(s) \cup {y}
<1>1. PICK b : b = Append(s, y)
    OBVIOUS
<1>2. /\ DOMAIN b = 1 .. Len(s) + 1 /\ DOMAIN s = 1 .. Len(s) /\ Len(s) \in Nat
      /\ \A i \in 1 .. Len(s) : b[i] = s[i]
      /\ b[Len(s) + 1] = y
    BY <1>1
<1>3. DOMAIN b = DOMAIN s \cup {Len(s) + 1} /\ Len(s) + 1 \notin DOMAIN s
    BY <1>2
<1>4. Elements(b) = Elements(s) \cup {y}
    BY <1>2, <1>3 DEF Elements
<1>5. ASSUME Once(s, x), y = x \/ y \notin Elements(s) PROVE Once(b, x)
    <2>1. SUFFICES ASSUME NEW i \in DOMAIN b, NEW j \in DOMAIN b, b[i] # x, b[i] = b[j]
                   PROVE  i = j
        BY DEF Once
    <2>2. \A m \in DOMAIN s : s[m] \in Elements(s) /\ b[m] = s[m]
        BY <1>2 DEF Elements
    <2>3. QED BY <1>2, <1>3, <1>5, <2>1, <2>2 DEF Once
<1>6. QED BY <1>1, <1>4, <1>5

\* One list after another.
LEMMA ConcatOnce ==
    ASSUME NEW S, NEW s \in Seq(S), NEW t \in Seq(S), NEW x
    PROVE  /\ s \o t \in Seq(S)
           /\ Elements(s \o t) = Elements(s) \cup Elements(t)
           /\ Once(s, x) /\ Once(t, x) /\ Elements(s) \cap Elements(t) = {} => Once(s \o t, x)
<1>1. PICK c : c = s \o t
    OBVIOUS
<1>2. PICK n \in Nat, m \in Nat : n = Len(s) /\ m = Len(t)
    OBVIOUS
<1>3. /\ DOMAIN s = 1 .. n /\ DOMAIN t = 1 .. m /\ DOMAIN c = 1 .. n + m /\ c \in Seq(S)
      /\ \A i \in 1 .. n + m : c[i] = IF i <= n THEN s[i] ELSE t[i - n]
    BY <1>1, <1>2, ConcatProperties
<1>4. /\ \A i \in 1 .. n : i \in 1 .. n + m /\ c[i] = s[i]
      /\ \A i \in 1 .. m : i + n \in 1 .. n + m /\ c[i + n] = t[i]
    <2>1. \A i \in 1 .. n : i \in 1 .. n + m /\ i <= n
        BY <1>2
    <2>2. \A i \in 1 .. m : i + n \in 1 .. n + m /\ ~(i + n <= n) /\ (i + n) - n = i
        BY <1>2
    <2>3. \A i \in 1 .. n : c[i] = s[i]
        BY <1>3, <2>1
    <2>4. \A i \in 1 .. m : c[i + n] = t[i]
        <3>1. SUFFICES ASSUME NEW i \in 1 .. m PROVE c[i + n] = t[i]
            OBVIOUS
        <3>2. c[i + n] = IF i + n <= n THEN s[i + n] ELSE t[(i + n) - n]
            BY <1>3, <2>2
        <3>3. QED BY <2>2, <3>2
    <2>5. QED BY <2>1, <2>2, <2>3, <2>4
<1>5. \A i \in 1 .. n + m : i \in 1 .. n \/ (i - n \in 1 .. m /\ (i - n) + n = i)
    BY <1>2
<1>6. \A i \in 1 .. n + m : \/ i \in 1 .. n /\ c[i] = s[i]
                            \/ i - n \in 1 .. m /\ c[i] = t[i - n] /\ (i - n) + n = i
    BY <1>4, <1>5
<1>7. Elements(c) = Elements(s) \cup Elements(t)
    <2>1. Elements(c) \subseteq Elements(s) \cup Elements(t)
        <3>1. ASSUME NEW i \in 1 .. n + m PROVE c[i] \in Elements(s) \cup Elements(t)
            <4>1. CASE i \in 1 .. n /\ c[i] = s[i]
                BY <1>3, <4>1 DEF Elements
            <4>2. CASE i - n \in 1 .. m /\ c[i] = t[i - n]
                BY <1>3, <4>2 DEF Elements
            <4>3. QED BY <1>6, <4>1, <4>2
        <3>2. QED BY <1>3, <3>1 DEF Elements
    <2>2. Elements(s) \subseteq Elements(c) /\ Elements(t) \subseteq Elements(c)
        <3>1. \A i \in 1 .. n : s[i] \in Elements(c)
            BY <1>3, <1>4 DEF Elements
        <3>2. \A i \in 1 .. m : t[i] \in Elements(c)
            BY <1>3, <1>4 DEF Elements
        <3>3. QED BY <1>3, <3>1, <3>2 DEF Elements
    <2>3. QED BY <2>1, <2>2
<1>8. ASSUME Once(s, x), Once(t, x), Elements(s) \cap Elements(t) = {} PROVE Once(c, x)
    <2>1. SUFFICES ASSUME NEW i \in 1 .. n + m, NEW j \in 1 .. n + m, c[i] # x, c[i] = c[j]
                   PROVE  i = j
        BY <1>3 DEF Once
    <2>2. \A k \in 1 .. n : s[k] \in Elements(s)
        BY <1>3 DEF Elements
    <2>3. \A k \in 1 .. m : t[k] \in Elements(t)
        BY <1>3 DEF Elements
    <2>4. CASE i \in 1 .. n /\ j \in 1 .. n
        BY <1>3, <1>4, <1>8, <2>1, <2>4 DEF Once
    <2>5. CASE i - n \in 1 .. m /\ c[i] = t[i-n] /\ j - n \in 1 .. m /\ c[j] = t[j-n]
        <3>1. i - n = j - n
            BY <1>3, <1>8, <2>1, <2>5 DEF Once
        <3>2. QED BY <1>2, <3>1
    <2>6. QED BY <1>6, <1>8, <2>1, <2>2, <2>3, <2>4, <2>5
<1>9. QED BY <1>1, <1>3, <1>7, <1>8

\* A list without one of its elements.
LEMMA WithoutOnce ==
    ASSUME NEW S, NEW s \in Seq(S), NEW k \in DOMAIN s, NEW x, x \notin S, Once(s, x)
    PROVE  /\ Once(Without(s, k), x)
           /\ Elements(Without(s, k)) = Elements(s) \ {s[k]}
<1>1. PICK w : w = Without(s, k)
    OBVIOUS
<1>2. PICK n \in Nat : n = Len(s)
    OBVIOUS
<1>3. /\ w \in Seq(S) /\ Len(w) = n - 1
      /\ \A i \in 1 .. n - 1 : w[i] = IF i < k THEN s[i] ELSE s[i+1]
    BY <1>1, <1>2, WithoutIs
<1>4. /\ DOMAIN s = 1 .. n /\ k \in 1 .. n /\ DOMAIN w = 1 .. n - 1
      /\ \A i \in 1 .. n : s[i] # x
    BY <1>2, <1>3
<1>5. \A i, j \in 1 .. n : s[i] = s[j] => i = j
    BY <1>4 DEF Once
<1>6. \A i \in 1 .. n - 1 : \/ i < k /\ i \in 1 .. n /\ w[i] = s[i] /\ i # k
                            \/ ~(i < k) /\ i + 1 \in 1 .. n /\ w[i] = s[i + 1] /\ i + 1 # k
    BY <1>2, <1>3, <1>4
<1>7. ASSUME NEW i \in 1 .. n - 1, NEW j \in 1 .. n - 1, w[i] = w[j] PROVE i = j
    <2>1. CASE i < k /\ j < k
        BY <1>5, <1>6, <1>7, <2>1
    <2>2. CASE ~(i < k) /\ ~(j < k)
        <3>1. i + 1 = j + 1
            BY <1>5, <1>6, <1>7, <2>2
        <3>2. QED BY <3>1
    <2>3. CASE i < k /\ ~(j < k)
        <3>1. i = j + 1
            BY <1>5, <1>6, <1>7, <2>3
        <3>2. QED BY <1>4, <2>3, <3>1
    <2>4. CASE ~(i < k) /\ j < k
        <3>1. i + 1 = j
            BY <1>5, <1>6, <1>7, <2>4
        <3>2. QED BY <1>4, <2>4, <3>1
    <2>5. QED BY <2>1, <2>2, <2>3, <2>4
<1>8. Elements(w) \subseteq Elements(s) \ {s[k]}
    BY <1>4, <1>5, <1>6 DEF Elements
<1>9. Elements(s) \ {s[k]} \subseteq Elements(w)
    <2>1. SUFFICES ASSUME NEW i \in 1 .. n, i # k PROVE s[i] \in Elements(w)
        BY <1>4 DEF Elements
    <2>2. CASE i < k
        <3>1. i \in 1 .. n - 1
            BY <1>4, <2>2
        <3>2. QED BY <1>3, <1>4, <2>2, <3>1 DEF Elements
    <2>3. CASE ~(i < k)
        <3>1. i - 1 \in 1 .. n - 1 /\ ~(i - 1 < k) /\ (i - 1) + 1 = i
            BY <1>4, <2>1, <2>3
        <3>2. w[i-1] = s[i]
            BY <1>3, <3>1
        <3>3. QED BY <1>4, <3>1, <3>2 DEF Elements
    <2>4. QED BY <2>2, <2>3
<1>10. QED BY <1>1, <1>4, <1>7, <1>8, <1>9 DEF Once

\* A list without repetitions has as many elements as places.
LEMMA OnceCounts ==
    ASSUME NEW S, NEW s \in Seq(S), NEW x, x \notin S, Once(s, x)
    PROVE  IsFiniteSet(Elements(s)) /\ Cardinality(Elements(s)) = Len(s)
<1>1. PICK n \in Nat : n = Len(s)
    OBVIOUS
<1>2. DOMAIN s = 1 .. n /\ s \in [1 .. n -> S]
    BY <1>1
<1>3. \A i, j \in 1 .. n : s[i] = s[j] => i = j
    BY <1>2 DEF Once
<1>4. s \in [1 .. n -> Elements(s)]
    BY <1>2 DEF Elements
<1>5. ExistsBijection(1 .. n, Elements(s))
    <2>1. \A e \in Elements(s) : \E i \in 1 .. n : s[i] = e
        BY <1>2 DEF Elements
    <2>2. s \in Bijection(1 .. n, Elements(s))
        BY <1>3, <1>4, <2>1 DEF Bijection, Injection, IsInjective, Surjection
    <2>3. QED BY <2>2 DEF ExistsBijection
<1>6. IsFiniteSet(1 .. n) /\ Cardinality(1 .. n) = n
    BY FS_Interval
<1>7. IsFiniteSet(Elements(s)) /\ Cardinality(Elements(s)) = Cardinality(1 .. n)
    BY <1>5, <1>6, FS_Bijection
<1>8. QED BY <1>1, <1>6, <1>7

-----------------------------------------------------------------------------
(* What the client waits for is what is queued or owed *)

\* With the buffer in place of its commands, this is inductive; the steps that
\* drop or forget something do so when nothing is waited for.
Owed ==
    connUp => /\ NewTags = (Elements(cmdbuf) \ {DONE}) \cup Elements(sent)
              /\ Once(cmdbuf, DONE) /\ Once(sent, DONE)
              /\ Elements(cmdbuf) \cap Elements(sent) = {}

\* A list without elements is empty.
LEMMA NoElements ==
    ASSUME NEW S, NEW s \in Seq(S)
    PROVE  Elements(s) = {} <=> s = <<>>
BY DEF Elements

\* cmd_queue() and cmd_new(): the new command waits in the buffer.
LEMMA EnqueueOwed ==
    ASSUME Types, RingInv, Owed, Enqueue
    PROVE  Owed'
<1> SUFFICES ASSUME connUp' PROVE Owed'
    BY DEF Owed
<1>0. /\ cmdbuf \in Seq(Tag \cup {DONE}) /\ seqno \in Tag /\ DONE \notin Tag
      /\ connUp /\ sent' = sent /\ cmdbuf' = Append(cmdbuf, seqno) /\ NewCommand
    BY SessionAssumption DEF Types, RingInv, RingTypeOK, Enqueue, connVars
<1>1. seqno \notin NewTags /\ NewTags' = NewTags \cup {seqno}
    BY <1>0, NewCommandPipe DEF Pipe!Issue
<1>2. seqno \notin Elements(cmdbuf) /\ seqno \notin Elements(sent)
    BY <1>0, <1>1 DEF Owed
<1>3. Once(cmdbuf', DONE) /\ Elements(cmdbuf') = Elements(cmdbuf) \cup {seqno}
    BY <1>0, <1>2, AppendOnce DEF Owed
<1>4. QED BY <1>0, <1>1, <1>2, <1>3 DEF Owed

\* imap_cmd_idle() and DONE leave the tags alone.
LEMMA RenewsOwed ==
    ASSUME Types, Owed, Renews
    PROVE  Owed'
<1> SUFFICES ASSUME connUp' PROVE Owed'
    BY DEF Owed
<1>0. /\ cmdbuf \in Seq(Tag \cup {DONE}) /\ DONE \in Tag \cup {DONE} /\ DONE \notin Tag
      /\ sent \in Seq(Tag) /\ connUp /\ sent' = sent /\ cmdbuf' = Append(cmdbuf, DONE)
      /\ NewTags' = NewTags
    BY SessionAssumption, SameTags DEF Types, Renews
<1>1. Once(cmdbuf', DONE) /\ Elements(cmdbuf') = Elements(cmdbuf) \cup {DONE}
    BY <1>0, AppendOnce DEF Owed
<1>2. DONE \notin Elements(sent)
    BY <1>0 DEF Elements
<1>3. QED BY <1>0, <1>1, <1>2 DEF Owed

\* The commands of the buffer, in their order and each once.
LEMMA DeliveredOnce ==
    ASSUME cmdbuf \in Seq(Tag \cup {DONE}), Once(cmdbuf, DONE)
    PROVE  Once(Delivered, DONE)
<1> DEFINE p == {i \in DOMAIN cmdbuf : cmdbuf[i] # DONE}
<1> DEFINE d == AtPlaces(cmdbuf, p)
<1>0. \A i \in DOMAIN cmdbuf : i \in p <=> cmdbuf[i] # DONE
    OBVIOUS
<1>1. Delivered = d
    BY DEF Delivered
<1> HIDE DEF p
<1>2. d \in Seq(Tag \cup {DONE}) /\ \E e : Picks(cmdbuf, p, e, d, Len(cmdbuf))
    BY AtPlacesPicks
<1> HIDE DEF d
<1>3. PICK e : Picks(cmdbuf, p, e, d, Len(cmdbuf))
    BY <1>2
<1>4. PICK n \in Nat : n = Len(d)
    BY <1>2
<1>5. /\ DOMAIN d = 1 .. n /\ DOMAIN cmdbuf = 1 .. Len(cmdbuf) /\ Len(cmdbuf) \in Nat
    BY <1>2, <1>4
<1>6. /\ e \in [1 .. n -> 1 .. Len(cmdbuf)]
      /\ \A m \in 1 .. n : e[m] \in p /\ d[m] = cmdbuf[e[m]]
      /\ \A l, m \in 1 .. n : l < m => e[l] < e[m]
    BY <1>3, <1>4 DEF Picks
<1>7. SUFFICES ASSUME NEW l \in 1 .. n, NEW m \in 1 .. n, d[l] = d[m] PROVE l = m
    BY <1>1, <1>5 DEF Once
<1>8. e[l] = e[m]
    BY <1>0, <1>5, <1>6, <1>7 DEF Once
<1>9. ~(l < m) /\ ~(m < l)
    <2>1. e[l] \in Int /\ e[m] \in Int
        BY <1>5, <1>6
    <2>2. QED BY <1>6, <1>8, <2>1
<1>10. QED BY <1>4, <1>9

\* The buffer goes out, and the server owes an answer for what is in it.
LEMMA SendOwed ==
    ASSUME Types, Owed, Send
    PROVE  Owed'
<1>0. /\ cmdbuf \in Seq(Tag \cup {DONE}) /\ sent \in Seq(Tag) /\ DONE \notin Tag
      /\ connUp /\ sent' = sent \o Delivered /\ cmdbuf' = <<>> /\ NewTags' = NewTags
    BY SessionAssumption, SameTags DEF Types, Send
<1>1. Delivered \in Seq(Tag) /\ Elements(Delivered) = Elements(cmdbuf) \ {DONE}
    BY <1>0, DeliveredIs
<1>2. Once(Delivered, DONE)
    BY <1>0, DeliveredOnce DEF Owed
<1>3. Elements(sent) \cap Elements(Delivered) = {}
    BY <1>0, <1>1 DEF Owed
<1>4. Once(sent', DONE) /\ Elements(sent') = Elements(sent) \cup Elements(Delivered)
    BY <1>0, <1>1, <1>2, <1>3, ConcatOnce DEF Owed
<1>5. Once(cmdbuf', DONE) /\ Elements(cmdbuf') = {}
    BY <1>0 DEF Once, Elements
<1>6. QED BY <1>0, <1>1, <1>4, <1>5 DEF Owed

\* A new connection owes nothing, and nothing is awaited then.
LEMMA OpenOwed ==
    ASSUME Types, Closing, Answers, OpenConnection \/ OpenFails
    PROVE  Owed'
<1>1. NewTags = {} /\ ~connUp /\ sent = <<>> /\ At("login")
    BY DEF OpenConnection, OpenFails, Answers, Closing
<1>2. CASE OpenConnection
    <2>1. sent' = <<>> /\ cmdbuf' = <<>> /\ NewTags' = {}
        BY <1>1, <1>2, SameTags DEF OpenConnection, Purge
    <2>2. QED BY <2>1 DEF Owed, Once, Elements
<1>3. CASE OpenFails
    BY <1>1, <1>3 DEF OpenFails, connVars, Owed
<1>4. QED BY <1>2, <1>3

\* The answers given before STARTTLS are dropped when nothing is awaited.
LEMMA TlsOwed ==
    ASSUME Types, Owed, Answers, TlsDone
    PROVE  Owed'
<1> SUFFICES ASSUME connUp' PROVE Owed'
    BY DEF Owed
<1>0. /\ sent \in Seq(Tag) /\ connUp /\ NewTags' = NewTags /\ NewTags = {} /\ cmdbuf' = cmdbuf
    BY SameTags DEF Types, TlsDone, Answers
<1>1. sent = <<>>
    BY <1>0, NoElements DEF Owed
<1>2. sent' = <<>>
    <2>1. PICK k \in 0 .. Len(sent) : sent' = SubSeq(sent, k + 1, Len(sent))
        BY DEF TlsDone
    <2>2. Len(sent) = 0 /\ k = 0
        BY <1>1, <2>1
    <2>3. sent' = SubSeq(sent, 1, 0)
        BY <2>1, <2>2
    <2>4. SubSeq(sent, 1, 0) = <<>>
        BY SubSeqEmpty
    <2>5. QED BY <2>3, <2>4
<1>3. QED BY <1>0, <1>1, <1>2 DEF Owed

\* The answer that is read was owed, and is awaited no longer.
LEMMA TaggedOwed ==
    ASSUME Types, RingInv, Owed, NEW k \in 1 .. Slots, NEW r \in Results, ReadTagged(k, r)
    PROVE  Owed'
<1>0. /\ sent \in Seq(Tag) /\ DONE \notin Tag /\ k \in DOMAIN sent /\ connUp
      /\ sent' = Without(sent, k) /\ cmdbuf' = cmdbuf
      /\ Complete(sent[k], r) /\ r \in Result
    BY SessionAssumption DEF Types, ReadTagged
<1>1. NewTags' = NewTags \ {sent[k]}
    BY <1>0, CompletePipe
<1>2. Once(sent', DONE) /\ Elements(sent') = Elements(sent) \ {sent[k]}
    BY <1>0, WithoutOnce DEF Owed
<1>3. sent[k] \in Elements(sent)
    BY <1>0 DEF Elements
<1>4. QED BY <1>0, <1>1, <1>2, <1>3 DEF Owed

\* Every step keeps what the server owes.
LEMMA OwedKept ==
    ASSUME Types, RingInv, Closing, Answers, Owed, PipeStep
    PROVE  Owed'
<1>1. CASE UNCHANGED <<ringVars, cmdbuf, connUp, sent, idle>>
    BY <1>1, SameTags DEF Owed
<1>2. CASE Hangup
    BY <1>2 DEF Owed, Hangup
<1>3. QED
    BY <1>1, <1>2, EnqueueOwed, SendOwed, RenewsOwed, OpenOwed, TlsOwed, TaggedOwed DEF PipeStep

\* What is owed is what AwaitedAreOwed says.
LEMMA OwedSays ==
    ASSUME Types, Owed
    PROVE  AwaitedAreOwed
<1> SUFFICES ASSUME connUp
             PROVE  /\ NewTags = Elements(Delivered) \cup Elements(sent)
                    /\ Cardinality(NewTags) = Len(Delivered) + Len(sent)
    BY DEF AwaitedAreOwed
<1>0. /\ cmdbuf \in Seq(Tag \cup {DONE}) /\ sent \in Seq(Tag) /\ DONE \notin Tag
    BY SessionAssumption DEF Types
<1>1. Delivered \in Seq(Tag) /\ Elements(Delivered) = Elements(cmdbuf) \ {DONE}
    BY <1>0, DeliveredIs
<1>2. Once(Delivered, DONE) /\ Once(sent, DONE)
    BY <1>0, DeliveredOnce DEF Owed
<1>3. /\ NewTags = Elements(Delivered) \cup Elements(sent)
      /\ Elements(Delivered) \cap Elements(sent) = {}
    BY <1>1 DEF Owed
<1> DEFINE D == Elements(Delivered)
<1> DEFINE S == Elements(sent)
<1>4. /\ IsFiniteSet(D) /\ Cardinality(D) = Len(Delivered)
      /\ IsFiniteSet(S) /\ Cardinality(S) = Len(sent)
    BY <1>0, <1>1, <1>2, OnceCounts
<1>5. Len(Delivered) \in Nat /\ Len(sent) \in Nat
    BY <1>0, <1>1
<1>6. D \cap S = {} /\ NewTags = D \cup S
    BY <1>3
<1> HIDE DEF D, S
<1>7. Cardinality(D \cup S) = Cardinality(D) + Cardinality(S) - Cardinality(D \cap S)
    BY <1>4, FS_Union
<1>8. Cardinality(D \cap S) = 0
    BY <1>6, FS_EmptySet
<1>9. Cardinality(NewTags) = Len(Delivered) + Len(sent)
    BY <1>4, <1>5, <1>6, <1>7, <1>8
<1>10. QED BY <1>3, <1>9

\* The invariant of what is owed, with what it rests on.
OwedInv == Unknown /\ NoFetch /\ Answers /\ Owed

\* Whatever is awaited on the connection is in the buffer or owed, always.
LEMMA SessionOwed == Spec => []OwedInv
<1>1. Init => OwedInv
    <2> SUFFICES ASSUME Init PROVE OwedInv
        OBVIOUS
    <2>1. /\ stack = <<Frame("added", "none"), Login>> /\ ~connUp
          /\ state = "DISCONNECTED" /\ NewTags = {}
        BY NothingWaits DEF Init, NewAccount, RingInit
    <2>2. Unknown /\ NoFetch /\ Owed
        BY <2>1 DEF Unknown, NoFetch, Owed, Frame, Login
    <2>3. Answers
        BY <2>1 DEF Answers, At, Top, Frame, Login
    <2>4. QED BY <2>2, <2>3 DEF OwedInv
<1>2. ControlInv /\ ControlInv' /\ OwedInv /\ [Next]_vars => OwedInv'
    <2> SUFFICES ASSUME ControlInv, ControlInv', OwedInv, [Next]_vars PROVE OwedInv'
        OBVIOUS
    <2>1. /\ Types /\ RingInv /\ CallGraph(stack) /\ RecoveryInv /\ Closing
          /\ Unknown /\ NoFetch /\ Answers /\ Owed
        BY DEF ControlInv, OwedInv
    <2>2. StackStep /\ PipeStep /\ StateStep
        BY <2>1, NextStack, PipeSteps, StateSteps
    <2>3. Unknown'
        BY <2>1, <2>2, UnknownKept
    <2>4. NoFetch'
        BY <2>1, <2>2, NoFetchKept
    <2>5. Answers'
        BY <2>1, <2>2, AnswersKept
    <2>6. Owed'
        BY <2>1, <2>2, OwedKept
    <2>7. QED BY <2>3, <2>4, <2>5, <2>6 DEF OwedInv
<1>3. QED BY <1>1, <1>2, SessionControl, PTL DEF Spec

\* No command of an earlier connection is sent, answered or waited for after a
\* reconnection, and none is lost: while the connection is up the client waits
\* for the commands in its buffer and those the server owes an answer, each
\* once, for every depth of the pipeline, order of the answers and failure.
THEOREM AwaitedOnThisConnection == Spec => []AwaitedAreOwed
<1>1. ControlInv /\ OwedInv => AwaitedAreOwed
    BY OwedSays DEF ControlInv, OwedInv
<1>2. QED BY <1>1, SessionControl, SessionOwed, PTL

-----------------------------------------------------------------------------
(* What the client waits for, it gets: imap_exec() waits only when the server *)
(* owes it a line                                                            *)

\* A connection that is open owes an answer, and nothing is left to be sent.
AnswerDue == connUp => cmdbuf = <<>> /\ ServerOwesLine

\* What is to be sent is, or comes with, a command that is awaited.
Sendable == connUp /\ cmdbuf # <<>> => NewTags # {}

\* imap_cmd_step() runs in the loop of imap_exec() and its likes.
Within == At("read") /\ Len(stack) > 1 /\ Caller.pc = "stepped"

\* Whatever waits, but for the functions that ignore what imap_cmd_start()
\* returns, waits for an answer that is due.
DueInv ==
    /\ At("poll") \/ At("wait") => Top.kind = "loop" \/ AnswerDue
    /\ Within /\ Caller.kind # "loop" => AnswerDue
    /\ At("stepped") /\ Top.kind # "loop" /\ ret.res = "CONTINUE" => AnswerDue
    /\ At("send") \/ (At("start") /\ Top.kind \notin HasCmd) => Sendable

\* imap_login() once it has opened a connection, or failed to.
PastPcs   == LoginPcs \ {"login"}
PastAt(s) == {i \in DOMAIN s : s[i].pc \in PastPcs}

\* Of these functions only imap_exec() has a kind; the one of STARTTLS calls
\* from "start"; the buffer was purged by imap_login(), and only imap_cmd_idle()
\* puts DONE into it.
KindInv ==
    /\ \A i \in LoginAt(stack) : stack[i].kind = "none"
    /\ At("single") => Top.kind = "single"
    /\ \A i \in 1 .. Len(stack) - 1 : stack[i].pc = "start" => stack[i].kind = "single"

DoneInv ==
    /\ PastAt(stack) # {} => DONE \notin Elements(cmdbuf)
    /\ idling => idle # Nil

\* Where a step that goes on, calls or returns arrives.
LEMMA GoesOnTo ==
    ASSUME Types, NEW pc, GoesOn(stack, stack', pc)
    PROVE  /\ stack' # <<>> /\ Len(stack') = Len(stack)
           /\ Top'.pc = pc /\ Top'.kind = Top.kind
<1>1. stack \in Seq(Activation) /\ stack # <<>> /\ Top = stack[Len(stack)]
    BY DEF GoesOn, Types, Top
<1>2. Len(stack) \in Nat /\ Len(stack) > 0
    BY <1>1
<1>3. stack' # <<>> /\ Len(stack') = Len(stack)
    BY <1>2 DEF GoesOn
<1>4. Top' = stack'[Len(stack)]
    BY <1>3 DEF Top
<1>5. QED BY <1>1, <1>3, <1>4 DEF GoesOn

\* A call arrives at the function called.
LEMMA CallsTo ==
    ASSUME Types, NEW pc, NEW f, Calls(stack, stack', pc, f)
    PROVE  /\ stack' # <<>> /\ Len(stack') > 1
           /\ Top'.pc = f.pc /\ Top'.kind = f.kind
           /\ Caller'.pc = pc /\ Caller'.kind = Top.kind
<1>1. stack \in Seq(Activation) /\ stack # <<>> /\ Top = stack[Len(stack)]
    BY DEF Calls, Types, Top
<1>2. Len(stack) \in Nat /\ Len(stack) > 0 /\ Len(stack') = Len(stack) + 1
    BY <1>1 DEF Calls
<1>3. Len(stack') > 1 /\ stack' # <<>> /\ Len(stack') - 1 = Len(stack)
    BY <1>2
<1>4. Top' = stack'[Len(stack) + 1] /\ Caller' = stack'[Len(stack)]
    BY <1>2, <1>3 DEF Top, Caller
<1>5. QED BY <1>1, <1>3, <1>4 DEF Calls

\* A return arrives at the caller.
LEMMA ReturnsTo ==
    ASSUME Types, CallGraph(stack), Returns(stack, stack'), stack' # <<>>
    PROVE  /\ Len(stack) > 1 /\ Top'.pc = Caller.pc /\ Top'.kind = Caller.kind
           /\ CalledFrom(Caller.pc, Top) /\ Len(stack) - 1 \in 1 .. Len(stack) - 1
<1>1. /\ stack \in Seq(Activation) /\ Len(stack) \in Nat
      /\ stack' \in Seq(Activation) /\ Len(stack') = Len(stack) - 1
      /\ \A i \in 1 .. Len(stack) - 1 :
            stack'[i].pc = stack[i].pc /\ stack'[i].kind = stack[i].kind
    BY DEF Types, Returns
<1>2. Len(stack') \in Nat /\ Len(stack') # 0
    BY <1>1
<1>3. Len(stack) > 1 /\ Len(stack) - 1 \in 1 .. Len(stack) - 1
    BY <1>1, <1>2
<1>4. CalledFrom(stack[Len(stack) - 1].pc, stack[(Len(stack) - 1) + 1]) /\ (Len(stack) - 1) + 1 = Len(stack)
    BY <1>1, <1>3 DEF CallGraph
<1>5. Top' = stack'[Len(stack) - 1]
    BY <1>1 DEF Top
<1>6. QED BY <1>1, <1>3, <1>4, <1>5 DEF Caller, Top

\* Where to, and with what, a function may go on.
LEMMA DueGoesOn ==
    ASSUME Types, NEW pc, GoesOn(stack, stack', pc), pc \notin {"read", "stepped"},
           pc \in {"poll", "wait"} => Top.kind = "loop" \/ AnswerDue',
           pc = "send" \/ (pc = "start" /\ Top.kind \notin HasCmd) => Sendable'
    PROVE  DueInv'
<1>1. Top'.pc = pc /\ Top'.kind = Top.kind
    BY GoesOnTo
<1>2. QED BY <1>1 DEF DueInv, At, Within

\* What may be called, and from where.
LEMMA DueCalls ==
    ASSUME Types, NEW pc, NEW f, Calls(stack, stack', pc, f),
           f.pc \in {"single", "start", "read", "fatal", "login"},
           f.pc = "start" /\ f.kind \notin HasCmd => Sendable',
           f.pc = "read" /\ pc = "stepped" /\ Top.kind # "loop" => AnswerDue'
    PROVE  DueInv'
<1>1. Top'.pc = f.pc /\ Top'.kind = f.kind /\ Caller'.pc = pc /\ Caller'.kind = Top.kind
    BY CallsTo
<1>2. QED BY <1>1 DEF DueInv, At, Within

\* Only a return of imap_cmd_step() says whether to wait on.
LEMMA DueReturns ==
    ASSUME Types, CallGraph(stack), KindInv, Returns(stack, stack'),
           Top.pc \in StepPcs /\ ret'.res = "CONTINUE"
              => (Len(stack) > 1 /\ Caller.pc = "stepped" /\ Caller.kind # "loop" => AnswerDue')
    PROVE  DueInv'
<1>1. SUFFICES ASSUME stack' # <<>> PROVE DueInv'
    BY DEF DueInv, At, Within
<1>2. /\ Len(stack) > 1 /\ Top'.pc = Caller.pc /\ Top'.kind = Caller.kind
      /\ CalledFrom(Caller.pc, Top) /\ Len(stack) - 1 \in 1 .. Len(stack) - 1
    BY <1>1, ReturnsTo
<1>3. Caller.pc \notin {"poll", "wait", "read", "send"}
    BY <1>2 DEF CalledFrom, LoginPcs
<1>4. Caller.pc = "start" => Caller.kind = "single"
    BY <1>2 DEF KindInv, Caller
<1>5. Caller.pc = "stepped" => Top.pc \in StepPcs
    BY <1>2 DEF CalledFrom, LoginPcs
<1>6. QED BY <1>2, <1>3, <1>4, <1>5 DEF DueInv, At, Within, HasCmd, Kinds

\* Kinds stay as they are.
LEMMA KindKept ==
    ASSUME Types, CallGraph(stack), StackStep, KindInv
    PROVE  KindInv'
<1>0. stack \in Seq(Activation) /\ Top = stack[Len(stack)] /\ DOMAIN stack = 1 .. Len(stack)
      /\ Len(stack) \in Nat
    BY DEF Types, Top
<1>1. CASE stack' = stack
    BY <1>1 DEF KindInv, LoginAt, At, Top
<1>2. CASE Inside
    <2>1. PICK pc \in Pcs \ EntryPcs : GoesOn(stack, stack', pc) /\ SameFunction(Top.pc, pc)
        BY <1>2 DEF Inside
    <2>2. LoginAt(stack') = LoginAt(stack)
        BY <1>0, <2>1, LoginGoesOn
    <2>3. /\ Len(stack') = Len(stack) /\ Len(stack) > 0 /\ Top'.pc = pc
          /\ stack'[Len(stack)].kind = stack[Len(stack)].kind
          /\ \A i \in 1 .. Len(stack) - 1 :
                stack'[i].pc = stack[i].pc /\ stack'[i].kind = stack[i].kind
        BY <1>0, <2>1, GoesOnTo DEF GoesOn
    <2>4. \A i \in LoginAt(stack') : stack'[i].kind = "none"
        BY <1>0, <2>2, <2>3, LastPlace DEF KindInv, LoginAt
    <2>5. QED BY <2>1, <2>3, <2>4 DEF KindInv, At, EntryPcs
<1>3. CASE Calling
    <2>1. PICK pc \in Pcs, f \in Activation :
            /\ Calls(stack, stack', pc, f) /\ SameFunction(Top.pc, pc)
            /\ f.pc \in {"single", "start", "read", "fatal"}
            /\ f.pc = "single" => f.kind = "single"
            /\ pc = "start" => Top.pc = "single"
        BY <1>3 DEF Calling
    <2>2. LoginAt(stack') = LoginAt(stack)
        <3>1. f.pc \notin LoginPcs
            BY <2>1 DEF LoginPcs
        <3>2. QED BY <1>0, <2>1, <3>1, LoginCalls
    <2>3. /\ Len(stack') = Len(stack) + 1 /\ Len(stack) > 0 /\ Top'.pc = f.pc /\ Top'.kind = f.kind
          /\ stack'[Len(stack)].kind = stack[Len(stack)].kind /\ stack'[Len(stack)].pc = pc
          /\ \A i \in 1 .. Len(stack) - 1 :
                stack'[i].pc = stack[i].pc /\ stack'[i].kind = stack[i].kind
        BY <1>0, <2>1, CallsTo DEF Calls
    <2>4. \A i \in LoginAt(stack') : stack'[i].kind = "none"
        BY <1>0, <2>2, <2>3, LastPlace DEF KindInv, LoginAt
    <2>5. pc = "start" => stack[Len(stack)].kind = "single"
        BY <1>0, <2>1, <2>3 DEF KindInv, At
    <2>6. \A i \in 1 .. Len(stack') - 1 : stack'[i].pc = "start" => stack'[i].kind = "single"
        <3>1. Len(stack') - 1 = Len(stack)
            BY <1>0, <2>3
        <3>2. QED BY <1>0, <2>3, <2>5, <3>1, LastPlace DEF KindInv
    <2>7. QED BY <2>1, <2>3, <2>4, <2>6 DEF KindInv, At
<1>4. CASE LoggingIn
    <2>1. PICK pc : Calls(stack, stack', pc, Login) /\ pc \in {"added", "recovered"}
        BY <1>4 DEF LoggingIn
    <2>2. /\ Len(stack') = Len(stack) + 1 /\ Len(stack) > 0
          /\ Top'.pc = "login" /\ Top'.kind = "none" /\ stack'[Len(stack) + 1].kind = "none"
          /\ stack'[Len(stack)].pc = pc /\ DOMAIN stack' = 1 .. Len(stack) + 1
          /\ \A i \in 1 .. Len(stack) - 1 :
                stack'[i].pc = stack[i].pc /\ stack'[i].kind = stack[i].kind
        BY <1>0, <2>1, CallsTo, FramesTyped DEF Calls
    <2>3. pc \notin LoginPcs /\ pc # "start"
        BY <2>1 DEF LoginPcs
    <2>4. \A i \in LoginAt(stack') : i = Len(stack) + 1 \/ (i \in 1 .. Len(stack) - 1 /\ i \in LoginAt(stack))
        BY <1>0, <2>2, <2>3 DEF LoginAt
    <2>5. \A i \in LoginAt(stack') : stack'[i].kind = "none"
        BY <2>2, <2>4 DEF KindInv
    <2>6. \A i \in 1 .. Len(stack') - 1 : stack'[i].pc = "start" => stack'[i].kind = "single"
        <3>1. Len(stack') - 1 = Len(stack)
            BY <1>0, <2>2
        <3>2. QED BY <1>0, <2>2, <2>3, <3>1, LastPlace DEF KindInv
    <2>7. QED BY <2>2, <2>5, <2>6 DEF KindInv, At
<1>5. CASE Returning
    <2>1. /\ Len(stack') = Len(stack) - 1 /\ Len(stack) > 0 /\ DOMAIN stack' = 1 .. Len(stack) - 1
          /\ \A i \in 1 .. Len(stack) - 1 :
                stack'[i].pc = stack[i].pc /\ stack'[i].kind = stack[i].kind
        BY <1>0, <1>5 DEF Returning, Returns
    <2>2. \A i \in LoginAt(stack') : i \in 1 .. Len(stack) - 1 /\ i \in LoginAt(stack)
        BY <1>0, <2>1 DEF LoginAt
    <2>3. ~At("single")'
        <3>1. SUFFICES ASSUME stack' # <<>> PROVE Top'.pc # "single"
            BY DEF At
        <3>2. Top'.pc = Caller.pc /\ CalledFrom(Caller.pc, Top)
            BY <1>5, <3>1, ReturnsTo DEF Returning
        <3>3. QED BY <3>2 DEF CalledFrom, LoginPcs
    <2>4. \A i \in 1 .. Len(stack') - 1 : i \in 1 .. Len(stack) - 1
        BY <1>0, <2>1
    <2>5. QED BY <2>1, <2>2, <2>3, <2>4 DEF KindInv
<1>6. CASE Beginning
    <2>1. PICK f \in Activation :
            stack' = <<f>> /\ f.pc \in {"start", "read", "finish", "open", "close"}
        BY <1>6 DEF Beginning
    <2>2. LoginAt(stack') = {} /\ 1 .. Len(stack') - 1 = {} /\ ~At("single")'
        BY <2>1 DEF LoginAt, LoginPcs, At, Top
    <2>3. QED BY <2>2 DEF KindInv
<1>7. QED BY <1>1, <1>2, <1>3, <1>4, <1>5, <1>6 DEF StackStep

\* imap_login() purges the buffer before it does anything else.
LEMMA LoginPurges ==
    ASSUME Types, [Next]_vars, At("login")
    PROVE  cmdbuf' = <<>> \/ stack' = stack
<1>1. stack # <<>> /\ Top.pc = "login" /\ \A p : At(p) => p = "login"
    BY DEF At
<1>2. CASE ExecStep
    BY <1>1, <1>2 DEF ExecStep, SingleDrain, CmdStart, Drained, Enqueue, StillFull, SendNothing,
        Send, SendFails, StartFail, RetFatal, PollReady, PollTimeout, Wait, Stepped
<1>3. CASE ReadStep \/ FinishStep \/ FatalStep
    BY <1>1, <1>3 DEF ReadStep, StepFatal, ReadError, ReadContinuation, ReadUntagged, ReadTagged,
        FinishStep, FinishFetch, Finish, Fetched, StepBad, FatalStep, HandleFatalNoMailbox,
        HandleFatal, Recovered
<1>4. CASE LoginStep
    <2>1. CASE OpenConnection \/ OpenFails
        BY <2>1 DEF OpenConnection, OpenFails, Purge
    <2>2. CASE ~(OpenConnection \/ OpenFails)
        BY <1>1, <1>4, <2>2 DEF LoginStep, Bail, Greeted, Preauth, Capable, StartTls, TlsDone, Secured,
            Authenticate, Authenticated, PostLogin, Compress, Enable, List, Flush, Select, LoginDone
    <2>3. QED BY <2>1, <2>2
<1>5. CASE MailboxStep
    BY <1>1, <1>5 DEF MailboxStep, AccountAdded, AccountFreed, OpenQueue, OpenSelect, Opened,
        CloseCommand, CloseFatal, Closed
<1>6. CASE UserStep
    BY <1>1, <1>6 DEF UserStep, UserExec, CheckIdle, CheckRead, CheckFinish, OpenMailbox,
        CloseMailbox, Begin
<1>7. CASE UNCHANGED vars
    BY <1>7 DEF vars
<1>8. QED BY <1>2, <1>3, <1>4, <1>5, <1>6, <1>7 DEF Next, ClientStep

\* A login goes on past its beginning with an empty buffer.
LEMMA PastStays ==
    ASSUME Types, StackStep, [Next]_vars
    PROVE  PastAt(stack') \subseteq PastAt(stack) \/ cmdbuf' = <<>>
<1>0. stack \in Seq(Activation) /\ Top = stack[Len(stack)] /\ DOMAIN stack = 1 .. Len(stack)
      /\ Len(stack) \in Nat
    BY DEF Types, Top
<1>1. CASE stack' = stack
    BY <1>1
<1>2. CASE stack # <<>> /\ Top.pc = "login"
    BY <1>1, <1>2, LoginPurges DEF At
<1>3. CASE (Inside \/ Calling \/ LoggingIn) /\ Top.pc # "login"
    <2>1. PICK pc : /\ pc \in PastPcs => Top.pc \in PastPcs
                    /\ \/ GoesOn(stack, stack', pc)
                       \/ \E f : Calls(stack, stack', pc, f) /\ f.pc \notin PastPcs
        <3>1. CASE Inside
            BY <1>3, <3>1 DEF Inside, SameFunction, PastPcs
        <3>2. CASE Calling
            BY <1>3, <3>2 DEF Calling, SameFunction, PastPcs, LoginPcs
        <3>3. CASE LoggingIn
            BY <3>3, FramesTyped DEF LoggingIn, PastPcs, LoginPcs
        <3>4. QED BY <1>3, <3>1, <3>2, <3>3
    <2>2. CASE GoesOn(stack, stack', pc)
        <3>1. /\ DOMAIN stack' = 1 .. Len(stack) /\ Len(stack) > 0 /\ stack'[Len(stack)].pc = pc
              /\ \A i \in 1 .. Len(stack) - 1 : stack'[i].pc = stack[i].pc
            BY <1>0, <2>2 DEF GoesOn
        <3>2. QED BY <1>0, <2>1, <3>1, LastPlace DEF PastAt
    <2>3. ASSUME NEW f, Calls(stack, stack', pc, f), f.pc \notin PastPcs
          PROVE  PastAt(stack') \subseteq PastAt(stack)
        <3>1. /\ DOMAIN stack' = 1 .. Len(stack) + 1 /\ Len(stack) > 0 /\ stack'[Len(stack)].pc = pc
              /\ stack'[Len(stack) + 1].pc \notin PastPcs
              /\ \A i \in 1 .. Len(stack) - 1 : stack'[i].pc = stack[i].pc
            BY <1>0, <2>3 DEF Calls
        <3>2. QED BY <1>0, <2>1, <3>1, LastPlace DEF PastAt
    <2>4. QED BY <2>1, <2>2, <2>3
<1>4. CASE Returning
    <2>1. /\ DOMAIN stack' = 1 .. Len(stack) - 1 /\ Len(stack) > 0
          /\ \A i \in 1 .. Len(stack) - 1 : stack'[i].pc = stack[i].pc
        BY <1>0, <1>4 DEF Returning, Returns
    <2>2. QED BY <1>0, <2>1, LastPlace DEF PastAt
<1>5. CASE Beginning
    <2>1. PICK f \in Activation :
            stack' = <<f>> /\ f.pc \in {"start", "read", "finish", "open", "close"}
        BY <1>5 DEF Beginning
    <2>2. PastAt(stack') = {}
        BY <2>1 DEF PastAt, PastPcs, LoginPcs
    <2>3. QED BY <2>2
<1>6. CASE (Inside \/ Calling \/ LoggingIn) /\ Top.pc = "login"
    <2>1. stack # <<>>
        BY <1>6 DEF Inside, Calling, LoggingIn, GoesOn, Calls
    <2>2. QED BY <1>2, <1>6, <2>1
<1>7. QED BY <1>1, <1>3, <1>4, <1>5, <1>6 DEF StackStep

\* DONE in the buffer and the IDLE it ends.
LEMMA DoneKept ==
    ASSUME Types, RingTypeOK, CallGraph(stack), IdleInv, StackStep, PipeStep, [Next]_vars, DoneInv
    PROVE  DoneInv'
<1>0. /\ stack \in Seq(Activation) /\ cmdbuf \in Seq(Tag \cup {DONE}) /\ DONE \notin Tag
      /\ Nil \notin Tag /\ seqno \in Tag
    BY SessionAssumption DEF Types, RingTypeOK
<1>1. PastAt(stack') # {} => DONE \notin Elements(cmdbuf')
    <2>1. SUFFICES ASSUME PastAt(stack) # {}, cmdbuf' # <<>> PROVE DONE \notin Elements(cmdbuf')
        <3>1. cmdbuf' = <<>> => DONE \notin Elements(cmdbuf')
            BY DEF Elements
        <3>2. QED BY <2>1, <3>1, PastStays
    <2>2. DONE \notin Elements(cmdbuf)
        BY <2>1 DEF DoneInv
    <2>3. CASE cmdbuf' = cmdbuf
        BY <2>2, <2>3
    <2>4. CASE Enqueue
        <3>1. cmdbuf' = Append(cmdbuf, seqno)
            BY <2>4 DEF Enqueue
        <3>2. Elements(cmdbuf') = Elements(cmdbuf) \cup {seqno}
            BY <1>0, <3>1, DoneIsLast
        <3>3. QED BY <1>0, <2>2, <3>2
    <2>5. CASE Renews
        <3>1. stack # <<>> /\ Top.pc = "stepped" /\ Top = stack[Len(stack)] /\ Top.kind = "idle"
            BY <2>5 DEF Renews, At, Top
        <3>2. Len(stack) = 1
            BY <3>1, IdleAlone
        <3>3. PastAt(stack) = {}
            BY <1>0, <3>1, <3>2 DEF PastAt, PastPcs, LoginPcs
        <3>4. QED BY <2>1, <3>3
    <2>6. cmdbuf' = cmdbuf \/ Enqueue \/ Renews
        BY <2>1 DEF PipeStep, Hangup, Send, OpenConnection, OpenFails, Purge, TlsDone, ReadTagged
    <2>7. QED BY <2>3, <2>4, <2>5, <2>6
<1>2. idling' => idle' # Nil
    <2>1. CASE Send
        <3>1. Top.kind = "idle" => Top.own \in Tag
            BY <2>1 DEF Send, IdleInv
        <3>2. QED BY <1>0, <2>1, <3>1 DEF Send, DoneInv
    <2>2. CASE ~Send
        BY <2>2 DEF PipeStep, Hangup, Renews, Enqueue, OpenConnection, OpenFails, TlsDone, ReadTagged,
                    connVars, DoneInv
    <2>3. QED BY <2>1, <2>2
<1>3. QED BY <1>1, <1>2 DEF DoneInv

\* What the whole session keeps, in a state.
SessionInv ==
    /\ ControlInv /\ Owed /\ FullWaits /\ KindInv /\ DoneInv /\ DueInv

\* A buffer without DONE holds commands only.
LEMMA TagsSendable ==
    ASSUME Types, Owed, DONE \notin Elements(cmdbuf)
    PROVE  Sendable
<1>1. cmdbuf \in Seq(Tag \cup {DONE})
    BY DEF Types
<1>2. cmdbuf # <<>> => Elements(cmdbuf) # {}
    BY <1>1, NoElements
<1>3. QED BY <1>2 DEF Owed, Sendable

\* After sending, the server owes a line: the answer to what was sent or, when
\* it is idle and has not been told to end that, the one that refuses the IDLE.
LEMMA SendDue ==
    ASSUME SessionInv, Send
    PROVE  AnswerDue'
<1>0. /\ cmdbuf \in Seq(Tag \cup {DONE}) /\ sent \in Seq(Tag) /\ DONE \notin Tag
      /\ sent' = sent \o Delivered /\ cmdbuf' = <<>> /\ connUp /\ cmdbuf # <<>> /\ NewTags' = NewTags
      /\ Types /\ Owed
    BY SessionAssumption, SameTags DEF SessionInv, ControlInv, Types, Send
<1>1. Sendable
    BY DEF SessionInv, DueInv, Send
<1>2. NewTags # {} /\ NewTags = (Elements(cmdbuf) \ {DONE}) \cup Elements(sent)
    BY <1>0, <1>1 DEF Sendable, Owed
<1>3. Delivered \in Seq(Tag) /\ Elements(Delivered) = Elements(cmdbuf) \ {DONE}
    BY <1>0, DeliveredIs
<1>4. PICK n \in Nat, m \in Nat : n = Len(sent) /\ m = Len(Delivered)
    BY <1>0, <1>3
<1>5. Len(sent') = n + m /\ sent' \in Seq(Tag)
    BY <1>0, <1>3, <1>4, ConcatProperties
<1>6. n # 0 \/ m # 0
    <2>1. CASE n = 0 /\ m = 0
        <3>1. DOMAIN sent = 1 .. n /\ DOMAIN Delivered = 1 .. m /\ 1 .. 0 = {}
            BY <1>0, <1>3, <1>4
        <3>2. Elements(sent) = {} /\ Elements(Delivered) = {}
            BY <2>1, <3>1 DEF Elements
        <3>3. QED BY <1>2, <1>3, <3>2
    <2>2. QED BY <2>1
<1>7. idling' => n # 0 /\ m # 0
    <2>1. SUFFICES ASSUME idling, ~Done PROVE n # 0 /\ m # 0
        BY DEF Send
    <2>2. idle # Nil /\ idle \in {Nil} \cup Elements(sent)
        BY <2>1 DEF SessionInv, DoneInv, ControlInv, IdleInv
    <2>3. sent # <<>>
        BY <2>2 DEF Elements
    <2>4. DONE \notin Elements(cmdbuf)
        BY <2>1 DEF Done, Elements
    <2>5. Elements(cmdbuf) # {}
        BY <1>0, NoElements
    <2>6. Delivered # <<>>
        <3>1. Elements(Delivered) # {}
            BY <1>3, <2>4, <2>5
        <3>2. QED BY <3>1 DEF Elements
    <2>7. QED BY <1>0, <1>3, <1>4, <2>3, <2>6
<1>8. sent' # <<>> /\ (idling' => Len(sent') > 1)
    <2>1. n + m # 0
        BY <1>4, <1>6
    <2>2. n # 0 /\ m # 0 => n + m > 1
        BY <1>4
    <2>3. QED BY <1>5, <1>7, <2>1, <2>2
<1>9. QED BY <1>0, <1>8 DEF AnswerDue, ServerOwesLine

\* While a command that is scanned for runs on, it is one the server owes.
LEMMA TaggedDue ==
    ASSUME SessionInv, Owed', NEW k \in 1 .. Slots, NEW r \in Results, ReadTagged(k, r),
           Running(sent[k]) # {}, AnswerDue
    PROVE  AnswerDue'
<1>0. /\ RingInv /\ r \in Result /\ Complete(sent[k], r) /\ cmdbuf = <<>> /\ cmdbuf' = cmdbuf
      /\ connUp /\ connUp' = connUp /\ idling' = FALSE
    BY SessionAssumption DEF SessionInv, ControlInv, ReadTagged, AnswerDue
<1>1. PICK i \in Slot : IsNew(i) /\ cmds[i].seq # sent[k]
    BY DEF Running, Matching, Scanned
<1>2. cmds[i].seq \in NewTags \ {sent[k]}
    BY <1>1 DEF NewTags
<1>3. NewTags' # {}
    BY <1>0, <1>2, CompletePipe
<1>4. Elements(cmdbuf') = {}
    BY <1>0 DEF Elements
<1>5. Elements(sent') # {}
    BY <1>0, <1>3, <1>4 DEF Owed
<1>6. sent' # <<>>
    BY <1>5 DEF Elements
<1>7. QED BY <1>0, <1>6 DEF AnswerDue, ServerOwesLine

\* imap_exec(), cmd_start() and the loops that wait.
LEMMA DueExec ==
    ASSUME SessionInv, ExecStep
    PROVE  DueInv'
<1>0. /\ Types /\ RingInv /\ CallGraph(stack) /\ KindInv /\ DueInv /\ FullWaits /\ Owed
      /\ stack \in Seq(Activation)
    BY DEF SessionInv, ControlInv, Types
<1>1. ASSUME UNCHANGED <<ringVars, cmdbuf, connUp>>, Sendable PROVE Sendable'
    BY <1>1, SameTags DEF Sendable
<1>2. ASSUME UNCHANGED <<cmdbuf, connVars>>, AnswerDue PROVE AnswerDue'
    BY <1>2 DEF AnswerDue, ServerOwesLine, connVars
<1>3. ASSUME NEW p, At(p), p \notin StepPcs, NEW res, Return(res) PROVE DueInv'
    <2>1. Returns(stack, stack') /\ Top.pc \notin StepPcs
        BY <1>0, <1>3, ReturnStack, TopTyped
    <2>2. QED BY <1>0, <2>1, DueReturns
<1>4. ASSUME NEW p, At(p), NEW pc \in {"startfail", "enqueue"}, Goto(pc) PROVE DueInv'
    <2>1. GoesOn(stack, stack', pc)
        BY <1>0, <1>4, GotoStack DEF Pcs
    <2>2. QED BY <1>0, <2>1, DueGoesOn
<1>5. ASSUME NEW p, At(p), NEW pc \in Pcs, Call(Fatal, pc) PROVE DueInv'
    <2>1. Calls(stack, stack', pc, Fatal) /\ Fatal.pc = "fatal"
        BY <1>0, <1>5, CallStack, FramesTyped
    <2>2. QED BY <1>0, <2>1, DueCalls
<1>6. ASSUME NEW p, At(p), NEW kind \in {"drain", "flush"}, NEW pc \in Pcs, Call(Exec(kind), pc), Sendable'
      PROVE  DueInv'
    <2>1. Exec(kind) \in Activation /\ Exec(kind).pc = "start"
        BY FramesTyped DEF Kinds
    <2>2. Calls(stack, stack', pc, Exec(kind))
        BY <1>0, <1>6, <2>1, CallStack
    <2>3. QED BY <1>0, <1>6, <2>1, <2>2, DueCalls
<1>7. ASSUME NEW p, At(p), Goto("wait"), Top.kind = "loop" \/ AnswerDue' PROVE DueInv'
    <2>1. GoesOn(stack, stack', "wait")
        BY <1>0, <1>7, GotoStack DEF Pcs
    <2>2. QED BY <1>0, <1>7, <2>1, DueGoesOn
<1>8. CASE SingleDrain
    <2>1. At("single") /\ Top.kind = "single" /\ UNCHANGED <<ringVars, cmdbuf, connUp>> /\ stack # <<>>
        BY <1>0, <1>8 DEF SingleDrain, KindInv, At, connVars
    <2>2. CASE Goto("start")
        <3>1. GoesOn(stack, stack', "start")
            BY <1>0, <2>1, <2>2, GotoStack DEF Pcs
        <3>2. QED BY <1>0, <2>1, <3>1, DueGoesOn DEF HasCmd, Kinds
    <2>3. CASE Call(Exec("drain"), "start")
        <3>1. Len(stack) \in DOMAIN stack /\ stack[Len(stack)].kind = "single" /\ Len(stack) \in Nat
            BY <1>0, <2>1 DEF Top
        <3>2. Len(stack) > 1 /\ Len(stack) - 1 \in DOMAIN stack /\ stack[Len(stack) - 1].pc \in PrePcs
            BY <1>0, <3>1, SingleCaller DEF PreAt
        <3>3. Len(stack) - 1 \in PastAt(stack)
            BY <3>2 DEF PastAt, PastPcs, LoginPcs, PrePcs
        <3>4. DONE \notin Elements(cmdbuf)
            BY <3>3 DEF SessionInv, DoneInv
        <3>5. Sendable
            BY <1>0, <3>4, TagsSendable
        <3>6. Sendable' /\ "start" \in Pcs
            BY <1>1, <2>1, <3>5 DEF Pcs
        <3>7. QED BY <1>6, <2>1, <2>3, <3>6
    <2>4. QED BY <1>8, <2>2, <2>3 DEF SingleDrain
<1>9. CASE CmdStart
    <2>1. At("start") /\ UNCHANGED <<ringVars, cmdbuf, connUp>>
        BY <1>9 DEF CmdStart, connVars
    <2>2. CASE fatal
        BY <1>5, <1>9, <2>1, <2>2 DEF CmdStart, Pcs
    <2>3. CASE ~fatal /\ Top.kind \notin HasCmd
        <3>1. Sendable
            BY <1>0, <2>1, <2>3 DEF DueInv
        <3>2. GoesOn(stack, stack', "send")
            BY <1>0, <1>9, <2>1, <2>3, GotoStack DEF CmdStart, Pcs
        <3>3. QED BY <1>0, <1>1, <2>1, <3>1, <3>2, DueGoesOn
    <2>4. CASE ~fatal /\ Top.kind \in HasCmd /\ Full
        <3>1. NewTags # {}
            BY <1>0, <2>4 DEF FullWaits
        <3>2. Sendable'
            BY <1>1, <2>1, <3>1 DEF Sendable
        <3>3. \E kind \in {"drain", "flush"} : Call(Exec(kind), "drained")
            BY <1>9, <2>4 DEF CmdStart
        <3>4. "drained" \in Pcs
            BY DEF Pcs
        <3>5. QED BY <1>6, <2>1, <3>2, <3>3, <3>4
    <2>5. CASE ~fatal /\ Top.kind \in HasCmd /\ ~Full
        BY <1>4, <1>9, <2>1, <2>5 DEF CmdStart
    <2>6. QED BY <2>2, <2>3, <2>4, <2>5
<1>10. CASE Drained \/ StillFull \/ SendNothing \/ SendFails
    <2>1. \E p : At(p)
        BY <1>10 DEF Drained, StillFull, SendNothing, SendFails
    <2>2. \E pc \in {"startfail", "enqueue"} : Goto(pc)
        BY <1>10 DEF Drained, StillFull, SendNothing, SendFails
    <2>3. QED BY <1>4, <2>1, <2>2
<1>11. CASE Enqueue
    <2>1. At("enqueue") /\ "enqueue" \notin StepPcs
        BY <1>11 DEF Enqueue, StepPcs
    <2>2. CASE Top.kind = "queue"
        BY <1>3, <1>11, <2>1, <2>2 DEF Enqueue
    <2>3. CASE Top.kind # "queue"
        <3>1. PICK f : f = [Top EXCEPT !.pc = "send", !.own = seqno]
            OBVIOUS
        <3>2. f \in Activation /\ f.kind = Top.kind /\ f.pc = "send"
            <4>1. Top \in Activation /\ seqno \in Tag
                BY <1>0, <2>1, TopTyped DEF RingInv, RingTypeOK
            <4>2. QED BY <3>1, <4>1 DEF Activation, Pcs
        <3>3. stack' = With(f)
            BY <1>11, <2>3, <3>1 DEF Enqueue
        <3>4. GoesOn(stack, stack', "send")
            BY <1>0, <2>1, <3>2, <3>3, WithStack
        <3>5. NewTags' = NewTags \cup {seqno}
            BY <1>0, <1>11, NewCommandPipe DEF Enqueue, Pipe!Issue
        <3>6. QED BY <1>0, <3>4, <3>5, DueGoesOn DEF Sendable
    <2>4. QED BY <2>2, <2>3
<1>12. CASE Send
    <2>1. At("send") /\ "send" \notin StepPcs
        BY <1>12 DEF Send, StepPcs
    <2>2. CASE Top.kind = "start"
        BY <1>3, <1>12, <2>1, <2>2 DEF Send
    <2>3. CASE Top.kind # "start"
        <3>1. AnswerDue'
            BY <1>12, SendDue
        <3>2. PICK pc : StackStep /\ GoesOn(stack, stack', pc) /\ pc \in {"poll", "wait"}
            <4> DEFINE q == IF Top.kind \in Polls THEN "poll" ELSE "wait"
            <4> DEFINE r == IF Top.kind \in {"flush", "drain"} THEN "batch" ELSE Top.fate
            <4> DEFINE f == [Top EXCEPT !.pc = q, !.fate = r]
            <4>1. stack' = With(f)
                BY <1>12, <2>3 DEF Send
            <4>2. f \in Activation /\ f.kind = Top.kind /\ f.pc \in {"poll", "wait"}
                <5>1. q \in {"poll", "wait"} /\ q \in Pcs /\ r \in Fates /\ Top \in Activation
                    BY <1>0, <2>1, TopTyped DEF Activation, Fates, Pcs
                <5> HIDE DEF q, r
                <5>2. QED BY <5>1 DEF Activation
            <4> HIDE DEF f
            <4>3. QED BY <1>0, <1>12, <2>1, <4>1, <4>2, WithStack, SendStack
        <3>3. QED BY <1>0, <3>1, <3>2, DueGoesOn
    <2>4. QED BY <2>2, <2>3
<1>13. CASE StartFail
    <2>1. At("startfail") /\ "startfail" \notin StepPcs /\ "retfatal" \in Pcs
        BY <1>13 DEF StartFail, StepPcs, Pcs
    <2>2. CASE Top.kind = "start"
        BY <1>3, <1>13, <2>1, <2>2 DEF StartFail
    <2>3. CASE Top.kind = "loop"
        BY <1>7, <1>13, <2>1, <2>3 DEF StartFail
    <2>4. CASE Top.kind \notin {"start", "loop"}
        BY <1>5, <1>13, <2>1, <2>4 DEF StartFail
    <2>5. QED BY <2>2, <2>3, <2>4
<1>14. CASE RetFatal
    <2>1. \E p : At(p) /\ p \notin StepPcs
        BY <1>14 DEF RetFatal, StepPcs
    <2>2. QED BY <1>3, <1>14, <2>1 DEF RetFatal
<1>15. CASE PollReady
    <2>1. At("poll") /\ Goto("wait") /\ UNCHANGED <<cmdbuf, connVars>>
        BY <1>15 DEF PollReady
    <2>2. Top.kind = "loop" \/ AnswerDue'
        BY <1>0, <1>2, <2>1 DEF DueInv
    <2>3. QED BY <1>7, <2>1, <2>2
<1>16. CASE PollTimeout
    BY <1>5, <1>16 DEF PollTimeout, Pcs
<1>17. CASE Wait
    <2>1. At("wait") /\ Call(Step, "stepped") /\ UNCHANGED <<cmdbuf, connVars>>
        BY <1>17 DEF Wait
    <2>2. Top.kind = "loop" \/ AnswerDue'
        BY <1>0, <1>2, <2>1 DEF DueInv
    <2>3. Calls(stack, stack', "stepped", Step) /\ Step.pc = "read"
        BY <1>0, <2>1, CallStack, FramesTyped DEF Pcs
    <2>4. QED BY <1>0, <2>2, <2>3, DueCalls
<1>18. CASE Stepped
    <2>1. At("stepped") /\ "stepped" \notin StepPcs
        BY <1>18 DEF Stepped, StepPcs
    <2>2. CASE WaitAgain(Top.kind)
        <3>1. Goto("wait") /\ ret.res = "CONTINUE" /\ UNCHANGED <<cmdbuf, connVars>>
            BY <1>18, <2>2 DEF Stepped, WaitAgain
        <3>2. Top.kind = "loop" \/ AnswerDue'
            BY <1>0, <1>2, <2>1, <3>1 DEF DueInv
        <3>3. QED BY <1>7, <2>1, <3>1, <3>2
    <2>3. CASE ~WaitAgain(Top.kind)
        <3>1. \E res : Return(res)
            BY <1>18, <2>3 DEF Stepped
        <3>2. QED BY <1>3, <2>1, <3>1
    <2>4. QED BY <2>2, <2>3
<1>19. QED
    BY <1>8, <1>9, <1>10, <1>11, <1>12, <1>13, <1>14, <1>15, <1>16, <1>17, <1>18 DEF ExecStep

\* imap_cmd_step(): while commands run, what is due stays due.
LEMMA DueRead ==
    ASSUME SessionInv, Owed', ReadStep
    PROVE  DueInv'
<1>0. /\ Types /\ RingInv /\ CallGraph(stack) /\ KindInv /\ DueInv /\ stack \in Seq(Activation)
    BY DEF SessionInv, ControlInv, Types
<1>1. ASSUME At("read"), Len(stack) > 1, Caller.pc = "stepped", Caller.kind # "loop" PROVE AnswerDue
    BY <1>0, <1>1 DEF DueInv, Within
<1>2. CASE StepFatal \/ ReadError
    <2>1. At("read") /\ Call(Fatal, "bad") /\ "bad" \in Pcs
        BY <1>2 DEF StepFatal, ReadError, Pcs
    <2>2. Calls(stack, stack', "bad", Fatal) /\ Fatal.pc = "fatal"
        BY <1>0, <2>1, CallStack, FramesTyped
    <2>3. QED BY <1>0, <2>2, DueCalls
<1>3. CASE ReadContinuation
    <2>1. At("read") /\ Return("RESPOND")
        BY <1>3 DEF ReadContinuation
    <2>2. Returns(stack, stack') /\ ret'.res # "CONTINUE"
        BY <1>0, <2>1, ReturnStack
    <2>3. QED BY <1>0, <2>2, DueReturns
<1>4. CASE ReadUntagged
    <2>1. At("read") /\ Top \in Activation /\ UNCHANGED <<cmdbuf, connVars>> /\ Scan({i \in Scanned : IsNew(i)}, "OK")
        BY <1>0, <1>4, TopTyped DEF ReadUntagged
    <2>2. CASE {i \in Scanned : IsNew(i)} # {}
        <3>1. Return("CONTINUE")
            BY <2>1, <2>2 DEF Scan
        <3>2. Returns(stack, stack')
            BY <1>0, <2>1, <3>1, ReturnStack
        <3>3. AnswerDue => AnswerDue'
            BY <2>1 DEF AnswerDue, ServerOwesLine, connVars
        <3>4. QED BY <1>0, <1>1, <2>1, <3>2, <3>3, DueReturns
    <2>3. CASE {i \in Scanned : IsNew(i)} = {}
        <3>1. PICK f : f = [Top EXCEPT !.pc = "finish", !.rc = "OK"]
            OBVIOUS
        <3>2. f \in Activation /\ f.kind = Top.kind /\ f.pc = "finish"
            BY <2>1, <3>1 DEF Activation, Pcs
        <3>3. stack' = With(f)
            BY <2>1, <2>3, <3>1 DEF Scan
        <3>4. GoesOn(stack, stack', "finish")
            BY <1>0, <2>1, <3>2, <3>3, WithStack
        <3>5. QED BY <1>0, <3>4, DueGoesOn
    <2>4. QED BY <2>2, <2>3
<1>5. ASSUME NEW k \in 1 .. Slots, NEW r \in Results, ReadTagged(k, r)
      PROVE  DueInv'
    <2>1. At("read") /\ stack # <<>>
        BY <1>5 DEF ReadTagged, At
    <2>2. PICK marked : marked = Mark(stack, sent[k], r)
        OBVIOUS
    <2>3. Noted(stack, marked)
        BY <1>0, <2>2, MarkNoted
    <2>4. /\ marked # <<>> /\ marked \in Seq(Activation) /\ Len(marked) = Len(stack)
          /\ \A u, pc : GoesOn(marked, u, pc) => GoesOn(stack, u, pc)
          /\ \A u : Returns(marked, u) => Returns(stack, u)
        BY <1>0, <2>1, <2>3, NotedSteps
    <2>5. CASE Running(sent[k]) # {}
        <3>1. stack' = SubSeq(marked, 1, Len(stack) - 1)
            BY <1>5, <2>2, <2>5 DEF ReadTagged
        <3>2. Returns(stack, stack')
            BY <2>4, <3>1, TopReturns
        <3>3. AnswerDue => AnswerDue'
            BY <1>5, <2>5, TaggedDue
        <3>4. QED BY <1>0, <1>1, <2>1, <3>2, <3>3, DueReturns
    <2>6. CASE Running(sent[k]) = {}
        <3>1. stack' = [marked EXCEPT ![Len(stack)].pc = "finish", ![Len(stack)].rc = r]
            BY <1>5, <2>2, <2>6 DEF ReadTagged
        <3>2. GoesOn(marked, [marked EXCEPT ![Len(marked)].pc = "finish", ![Len(marked)].rc = r], "finish")
            BY <2>4, TopAt DEF Pcs
        <3>3. GoesOn(stack, stack', "finish")
            BY <2>4, <3>1, <3>2
        <3>4. QED BY <1>0, <3>3, DueGoesOn
    <2>7. QED BY <2>5, <2>6
<1>6. QED BY <1>2, <1>3, <1>4, <1>5 DEF ReadStep

\* What imap_cmd_finish() and cmd_handle_fatal() return ends the wait.
LEMMA DueFinish ==
    ASSUME SessionInv, FinishStep \/ FatalStep
    PROVE  DueInv'
<1>0. /\ Types /\ CallGraph(stack) /\ KindInv /\ stack \in Seq(Activation)
    BY DEF SessionInv, ControlInv, Types
<1>1. ASSUME NEW p, At(p), NEW res, Return(res), res # "CONTINUE" PROVE DueInv'
    <2>1. Returns(stack, stack') /\ ret'.res # "CONTINUE"
        BY <1>0, <1>1, ReturnStack
    <2>2. QED BY <1>0, <2>1, DueReturns
<1>2. CASE FinishFetch
    <2>1. At("finish") /\ Call(Exec("loop"), "fetched") /\ "fetched" \in Pcs
        BY <1>2 DEF FinishFetch, Pcs
    <2>2. Exec("loop") \in Activation /\ Exec("loop").pc = "start" /\ Exec("loop").kind \in HasCmd
        BY FramesTyped DEF Kinds, HasCmd
    <2>3. Calls(stack, stack', "fetched", Exec("loop"))
        BY <1>0, <2>1, <2>2, CallStack
    <2>4. QED BY <1>0, <2>2, <2>3, DueCalls
<1>3. CASE Finish \/ Fetched
    <2>1. PICK p : At(p) /\ Return(Top.rc)
        BY <1>3 DEF Finish, Fetched
    <2>2. Top.rc # "CONTINUE"
        <3>1. Top.rc \in Results \cup {"OK"}
            BY <1>0, <2>1, TopTyped DEF Activation
        <3>2. QED BY <3>1, SessionAssumption DEF Result
    <2>3. QED BY <1>1, <2>1, <2>2
<1>4. CASE StepBad \/ HandleFatalNoMailbox \/ Recovered
    <2>1. \E p, res : At(p) /\ Return(res) /\ res # "CONTINUE"
        BY <1>4 DEF StepBad, HandleFatalNoMailbox, Recovered
    <2>2. QED BY <1>1, <2>1
<1>5. CASE HandleFatal
    <2>1. At("fatal") /\ stack # <<>> /\ Top.pc = "fatal"
        BY <1>5 DEF HandleFatal, At
    <2>2. PICK stk : stk = Lost(stack)
        OBVIOUS
    <2>3. Noted(stack, stk)
        BY <1>0, <2>2, LostNoted
    <2>4. /\ stk # <<>> /\ stk \in Seq(Activation)
          /\ \A u, pc, f : Calls(stk, u, pc, f) => Calls(stack, u, pc, f)
          /\ \A u : Returns(stk, u) => Returns(stack, u)
        BY <1>0, <2>1, <2>3, NotedSteps
    <2>5. CASE MayLogin
        <3>1. stack' = Append([stk EXCEPT ![Len(stk)].pc = "recovered"], Login)
            BY <1>5, <2>2, <2>5 DEF HandleFatal
        <3>2. "recovered" \in Pcs /\ "OK" \in Results \cup {"OK"} /\ Login \in Activation /\ Login.pc = "login"
            BY FramesTyped DEF Pcs
        <3>3. Calls(stk, stack', "recovered", Login)
            BY <2>4, <3>1, <3>2, TopAt
        <3>4. Calls(stack, stack', "recovered", Login)
            BY <2>4, <3>3
        <3>5. QED BY <1>0, <3>2, <3>4, DueCalls
    <2>6. CASE ~MayLogin
        <3>1. stack' = SubSeq(stk, 1, Len(stk) - 1)
            BY <1>5, <2>2, <2>6 DEF HandleFatal
        <3>2. Returns(stack, stack')
            BY <2>4, <3>1, TopReturns
        <3>3. Top.pc \notin StepPcs
            BY <2>1 DEF StepPcs
        <3>4. QED BY <1>0, <3>2, <3>3, DueReturns
    <2>7. QED BY <2>5, <2>6
<1>6. QED BY <1>2, <1>3, <1>4, <1>5 DEF FinishStep, FatalStep

\* imap_login() waits for the greeting, and flushes what it has queued.
LEMMA DueLogin ==
    ASSUME SessionInv, LoginStep
    PROVE  DueInv'
<1>0. /\ Types /\ CallGraph(stack) /\ KindInv /\ DueInv /\ Owed /\ stack \in Seq(Activation)
    BY DEF SessionInv, ControlInv, Types
<1>1. ASSUME NEW p, At(p), NEW res, Return(res), p \notin StepPcs PROVE DueInv'
    <2>1. Returns(stack, stack') /\ Top.pc \notin StepPcs
        BY <1>0, <1>1, ReturnStack, TopTyped
    <2>2. QED BY <1>0, <2>1, DueReturns
<1>2. ASSUME NEW p, At(p), NEW pc \in LoginPcs, Goto(pc) PROVE DueInv'
    <2>1. GoesOn(stack, stack', pc) /\ pc \notin {"read", "stepped", "poll", "wait", "send", "start"}
        BY <1>0, <1>2, GotoStack DEF Pcs, LoginPcs
    <2>2. QED BY <1>0, <2>1, DueGoesOn
<1>3. ASSUME NEW p, At(p), NEW kind \in {"sync", "single", "queue", "start"}, NEW pc \in LoginPcs,
             Call(Exec(kind), pc)
      PROVE  DueInv'
    <2>1. /\ Exec(kind) \in Activation /\ Exec(kind).pc \in {"single", "start"}
          /\ Exec(kind).kind \in HasCmd
        BY FramesTyped DEF Kinds, HasCmd
    <2>2. Calls(stack, stack', pc, Exec(kind))
        BY <1>0, <1>3, <2>1, CallStack DEF Pcs, LoginPcs
    <2>3. QED BY <1>0, <2>1, <2>2, DueCalls
<1>4. CASE OpenConnection
    <2>1. At("login") /\ Call(Step, "greeted") /\ "greeted" \in Pcs
        BY <1>4 DEF OpenConnection, Pcs
    <2>2. Calls(stack, stack', "greeted", Step) /\ Step.pc = "read"
        BY <1>0, <2>1, CallStack, FramesTyped
    <2>3. QED BY <1>0, <2>2, DueCalls
<1>5. CASE OpenFails \/ Capable \/ Secured \/ Authenticated
    <2>1. \E p, pc : At(p) /\ pc \in LoginPcs /\ Goto(pc)
        BY <1>5 DEF OpenFails, Capable, Secured, Authenticated, LoginPcs
    <2>2. QED BY <1>2, <2>1
<1>6. CASE Bail
    <2>1. Goto("auth") /\ "auth" \in LoginPcs /\ \E p : At(p)
        BY <1>6 DEF Bail, LoginPcs
    <2>2. QED BY <1>2, <2>1
<1>7. CASE Greeted \/ Preauth \/ StartTls \/ TlsDone
    <2>1. \E p, pc : /\ At(p) /\ pc \in LoginPcs
                     /\ Goto(pc) \/ \E kind \in {"sync", "single", "queue", "start"} : Call(Exec(kind), pc)
        BY <1>7 DEF Greeted, Preauth, StartTls, TlsDone, LoginPcs
    <2>2. QED BY <1>2, <1>3, <2>1
<1>8. CASE Authenticate \/ PostLogin \/ Compress \/ Enable \/ List \/ Select
    <2>1. \E p, pc : /\ At(p) /\ pc \in LoginPcs
                     /\ Goto(pc) \/ \E kind \in {"sync", "single", "queue", "start"} : Call(Exec(kind), pc)
        BY <1>8 DEF Authenticate, PostLogin, Compress, Enable, List, Select, LoginPcs
    <2>2. QED BY <1>2, <1>3, <2>1
<1>9. CASE Flush
    <2>1. At("flush") /\ Call(Exec("flush"), "select") /\ UNCHANGED <<ringVars, cmdbuf, connUp>>
        BY <1>9 DEF Flush, connVars
    <2>2. Exec("flush") \in Activation /\ Exec("flush").pc = "start" /\ "select" \in Pcs
        BY FramesTyped DEF Kinds, Pcs
    <2>3. Calls(stack, stack', "select", Exec("flush"))
        BY <1>0, <2>1, <2>2, CallStack
    <2>4. Len(stack) \in PastAt(stack)
        <3>1. stack # <<>> /\ stack[Len(stack)].pc = "flush"
            BY <2>1 DEF At, Top
        <3>2. Len(stack) \in DOMAIN stack
            BY <1>0, <3>1
        <3>3. QED BY <3>1, <3>2 DEF PastAt, PastPcs, LoginPcs
    <2>5. Sendable
        <3>1. DONE \notin Elements(cmdbuf)
            BY <2>4 DEF SessionInv, DoneInv
        <3>2. QED BY <1>0, <3>1, TagsSendable
    <2>6. Sendable'
        BY <2>1, <2>5, SameTags DEF Sendable
    <2>7. QED BY <1>0, <2>2, <2>3, <2>6, DueCalls
<1>10. CASE LoginDone
    <2>1. At("done") /\ "done" \notin StepPcs /\ \E res : Return(res)
        BY <1>10 DEF LoginDone, StepPcs
    <2>2. QED BY <1>1, <2>1
<1>11. QED BY <1>4, <1>5, <1>6, <1>7, <1>8, <1>9, <1>10 DEF LoginStep

\* The callers: the user flushes only what was queued.
LEMMA DueCaller ==
    ASSUME SessionInv, MailboxStep \/ UserStep
    PROVE  DueInv'
<1>0. /\ Types /\ CallGraph(stack) /\ KindInv /\ DueInv /\ Owed /\ stack \in Seq(Activation)
      /\ cmdbuf \in Seq(Tag \cup {DONE})
    BY DEF SessionInv, ControlInv, Types
<1>1. ASSUME NEW p, At(p), NEW pc \in MailPcs, Goto(pc) PROVE DueInv'
    <2>1. GoesOn(stack, stack', pc) /\ pc \notin {"read", "stepped", "poll", "wait", "send", "start"}
        BY <1>0, <1>1, GotoStack DEF Pcs, MailPcs
    <2>2. QED BY <1>0, <2>1, DueGoesOn
<1>2. ASSUME NEW p, At(p), NEW f \in Activation, f.pc \in {"start", "login"}, f.pc = "start" => f.kind \in HasCmd,
             NEW pc \in MailPcs, Call(f, pc)
      PROVE  DueInv'
    <2>1. Calls(stack, stack', pc, f)
        BY <1>0, <1>2, CallStack DEF Pcs, MailPcs
    <2>2. QED BY <1>0, <1>2, <2>1, DueCalls
<1>3. ASSUME NEW f, Begin(f), f.pc = "start" /\ f.kind \notin HasCmd => Sendable',
             f.pc \in {"start", "read", "finish", "open", "close"}
      PROVE  DueInv'
    <2>1. stack' = <<f>>
        BY <1>3 DEF Begin
    <2>2. Len(stack') = 1 /\ Top' = f
        BY <2>1 DEF Top
    <2>3. QED BY <1>3, <2>2 DEF DueInv, At, Within
<1>4. CASE OpenQueue \/ OpenSelect \/ CloseCommand \/ AccountFreed
    <2>1. /\ \A kind \in {"queue", "loop", "sync"} :
                Exec(kind) \in Activation /\ Exec(kind).pc = "start" /\ Exec(kind).kind \in HasCmd
          /\ Login \in Activation /\ Login.pc = "login"
        BY FramesTyped DEF Kinds, HasCmd
    <2>2. PICK p, pc : /\ At(p) /\ pc \in MailPcs
                       /\ \/ Goto(pc) \/ Call(Login, pc)
                          \/ \E kind \in {"queue", "loop", "sync"} : Call(Exec(kind), pc)
        BY <1>4 DEF OpenQueue, OpenSelect, CloseCommand, AccountFreed, MailPcs
    <2>3. QED BY <1>1, <1>2, <2>1, <2>2
<1>5. CASE AccountAdded \/ Opened \/ CloseFatal \/ Closed
    <2>1. PICK p \in MailPcs : At(p) /\ Return("none")
        BY <1>5 DEF AccountAdded, Opened, CloseFatal, Closed, MailPcs
    <2>2. Returns(stack, stack') /\ Top.pc \notin StepPcs
        BY <1>0, <2>1, ReturnStack, TopTyped DEF MailPcs, StepPcs
    <2>3. QED BY <1>0, <2>2, DueReturns
<1>6. ASSUME NEW kind \in Ops, UserExec(kind) PROVE DueInv'
    <2>1. kind \in {"sync", "poll", "queue", "flush", "loop"}
        BY SessionAssumption
    <2>2. Begin(Exec(kind)) /\ UNCHANGED <<ringVars, cmdbuf, connUp>> /\ (kind = "flush" => Delivered # <<>>)
        BY <1>6 DEF UserExec, connVars
    <2>3. Exec(kind).pc = "start" /\ Exec(kind).kind = kind
        BY <2>1, FramesTyped DEF Kinds
    <2>4. CASE kind = "flush"
        <3>1. Delivered \in Seq(Tag) /\ Elements(Delivered) = Elements(cmdbuf) \ {DONE}
            BY <1>0, DeliveredIs
        <3>2. Elements(Delivered) # {}
            BY <2>2, <2>4, <3>1, NoElements
        <3>3. Sendable
            BY <1>0, <3>1, <3>2 DEF Owed, Sendable
        <3>4. Sendable'
            BY <2>2, <3>3, SameTags DEF Sendable
        <3>5. QED BY <1>3, <2>2, <2>3, <3>4
    <2>5. CASE kind # "flush"
        BY <1>3, <2>1, <2>2, <2>3, <2>5 DEF HasCmd, Kinds
    <2>6. QED BY <2>4, <2>5
<1>7. CASE CheckIdle
    <2>1. Begin(Exec("idle")) /\ Exec("idle").pc = "start" /\ Exec("idle").kind \in HasCmd
        BY <1>7, FramesTyped DEF CheckIdle, Kinds, HasCmd
    <2>2. QED BY <1>3, <2>1
<1>8. CASE CheckRead \/ CheckFinish \/ OpenMailbox \/ CloseMailbox
    <2>1. PICK f : Begin(f) /\ f.pc \in {"read", "finish", "open", "close"}
        BY <1>8, FramesTyped DEF CheckRead, CheckFinish, OpenMailbox, CloseMailbox, Frame
    <2>2. QED BY <1>3, <2>1
<1>9. QED BY <1>4, <1>5, <1>6, <1>7, <1>8 DEF MailboxStep, UserStep

\* A full ring has a command that waits, in every state of the session: the
\* drain before a command that finds no slot has something to wait for.
THEOREM SessionFullWaits == Spec => []FullWaits
<1>1. Init => FullWaits
    BY RingAssumption DEF Init, NewAccount, RingInit, FullWaits, Full, After
<1>2. RingInv /\ FullWaits /\ [Next]_vars => FullWaits'
    BY StepIsRingStep, FullKept DEF RingStep
<1>3. QED BY <1>1, <1>2, SessionRing, PTL DEF Spec

\* In all, each state of the session follows from the one before.
LEMMA SessionAlways == Spec => []SessionInv
<1> DEFINE Rest == ControlInv /\ Owed /\ FullWaits
<1> DEFINE Mine == KindInv /\ DoneInv /\ DueInv
<1>1. Init => Mine
    <2> SUFFICES ASSUME Init PROVE Mine
        OBVIOUS
    <2>1. stack = <<Frame("added", "none"), Login>> /\ ~idling
        BY DEF Init, NewAccount
    <2>2. /\ Len(stack) = 2 /\ Top.pc = "login" /\ stack[1].pc = "added" /\ stack[2].pc = "login"
          /\ stack[2].kind = "none"
        BY <2>1 DEF Top, Frame, Login
    <2>3. LoginAt(stack) = {2} /\ PastAt(stack) = {}
        BY <2>1, <2>2 DEF LoginAt, PastAt, PastPcs, LoginPcs
    <2>4. KindInv
        BY <2>2, <2>3 DEF KindInv, At
    <2>5. DoneInv
        BY <2>1, <2>3 DEF DoneInv
    <2>6. DueInv
        BY <2>2 DEF DueInv, At, Within
    <2>7. QED BY <2>4, <2>5, <2>6
<1>2. Rest /\ Rest' /\ Mine /\ [Next]_vars => Mine'
    <2> SUFFICES ASSUME Rest, Rest', Mine, [Next]_vars PROVE Mine'
        OBVIOUS
    <2>1. SessionInv /\ Owed'
        BY DEF SessionInv
    <2>2. Types /\ RingInv /\ RingTypeOK /\ CallGraph(stack) /\ IdleInv
        BY DEF ControlInv, RingInv
    <2>3. StackStep /\ PipeStep
        BY <2>2, NextStack, PipeSteps
    <2>4. KindInv'
        BY <2>2, <2>3, KindKept
    <2>5. DoneInv'
        BY <2>2, <2>3, DoneKept
    <2>6. DueInv'
        <3>1. CASE Next
            BY <2>1, <3>1, DueExec, DueRead, DueFinish, DueLogin, DueCaller DEF Next, ClientStep
        <3>2. CASE UNCHANGED vars
            BY <3>2, SameTags DEF DueInv, At, Top, Within, Caller, AnswerDue, ServerOwesLine, Sendable,
                vars, connVars, acctVars, ringVars
        <3>3. QED BY <3>1, <3>2
    <2>7. QED BY <2>4, <2>5, <2>6
<1>3. Rest /\ Mine => SessionInv
    BY DEF SessionInv
<1>4. ControlInv /\ OwedInv /\ FullWaits => Rest
    BY DEF OwedInv
<1> HIDE DEF Rest, Mine
<1>5. QED BY <1>1, <1>2, <1>3, <1>4, SessionControl, SessionOwed, SessionFullWaits, PTL DEF Spec

\* imap_exec() and imap_cmd_idle() read only when the server owes them a line,
\* for every pipeline depth, mix of commands, order of the answers, refused
\* IDLE, drained ring, time-out and reconnection on the way: none of them is
\* left waiting for an answer that was given, dropped or never asked for.
THEOREM ExecWaits == Spec => []ExecWaitsForAnswer
<1>1. SessionInv => ExecWaitsForAnswer
    <2> SUFFICES ASSUME SessionInv, Reading(Kinds \ {"none", "loop"}) PROVE ServerOwesLine
        BY DEF ExecWaitsForAnswer
    <2>1. /\ Types /\ CallGraph(stack) /\ KindInv /\ DueInv /\ stack \in Seq(Activation)
          /\ At("read") /\ connUp /\ Len(stack) > 1 /\ Caller.kind \notin {"none", "loop"}
        BY DEF SessionInv, ControlInv, Types, Reading
    <2>2. Len(stack) \in Nat /\ Len(stack) - 1 \in 1 .. Len(stack) - 1 /\ Len(stack) - 1 \in DOMAIN stack
          /\ (Len(stack) - 1) + 1 = Len(stack)
        BY <2>1
    <2>3. CalledFrom(stack[Len(stack) - 1].pc, stack[(Len(stack) - 1) + 1])
        BY <2>1, <2>2 DEF CallGraph
    <2>4. CalledFrom(Caller.pc, Top) /\ Top.pc = "read"
        BY <2>1, <2>2, <2>3 DEF Caller, Top, At
    <2>5. Caller.pc \in {"stepped", "greeted"}
        BY <2>4 DEF CalledFrom, FatalPcs, LoginPcs, ExecPcs
    <2>6. Caller.pc # "greeted"
        <3>1. SUFFICES ASSUME Caller.pc = "greeted" PROVE FALSE
            OBVIOUS
        <3>2. Len(stack) - 1 \in LoginAt(stack)
            BY <2>2, <3>1 DEF Caller, LoginAt, LoginPcs
        <3>3. QED BY <2>1, <3>2 DEF KindInv, Caller
    <2>7. Within
        BY <2>1, <2>5, <2>6 DEF Within
    <2>8. QED BY <2>1, <2>7 DEF DueInv, AnswerDue
<1>2. QED BY <1>1, SessionAlways, PTL

-----------------------------------------------------------------------------
(* What is reported successful was answered with OK *)

\* Activations that wait for the answer to one command, their own.
Alone == {"sync", "poll", "single"}

\* The command of activation f was answered with OK.
Answered(f) == f.own = Nil /\ f.fate = "OK"

\* The answer that the server owes last is the one to the command of f.
IsLast(f) == connUp => sent # <<>> /\ sent[Len(sent)] = f.own

\* The result that imap_cmd_step() is about to return at place i of the stack
\* is the OK of the command that its caller waits for.
StepAnswers(i) ==
    /\ stack[i].pc \in {"finish", "fetched"} /\ stack[i].rc = "OK"
    /\ stack[i-1].pc = "stepped" /\ stack[i-1].kind \in Alone
    => Answered(stack[i-1])

\* A command is sent last and, as the answers come in order, answered last: the
\* result that ends the wait is that of its answer.
OwnLast ==
    /\ At("send") /\ Top.kind \in Alone =>
          cmdbuf # <<>> /\ Top.own \in Tag /\ cmdbuf[Len(cmdbuf)] = Top.own
    /\ At("poll") \/ At("wait") => (Top.kind \in Alone => IsLast(Top))
    /\ Within /\ Caller.kind \in Alone => IsLast(Caller)
    /\ At("stepped") /\ Top.kind \in Alone =>
          /\ ret.res = "CONTINUE" => IsLast(Top)
          /\ ret.res = "OK" => Answered(Top)
    /\ \A i \in 2 .. Len(stack) : StepAnswers(i)

OwnInv == inOrder => OwnLast

\* The activations below the innermost one keep the result they are about to
\* return, and those whose command was answered with OK stay so.
Below ==
    \A i \in 1 .. Len(stack) - 1 :
        stack'[i].rc = stack[i].rc /\ (Answered(stack[i]) => Answered(stack'[i]))

\* What the activations below have to return is as it was.
LEMMA BelowAnswers ==
    ASSUME Types, Below, NEW i \in 2 .. Len(stack) - 1, StepAnswers(i),
           \A j \in 1 .. Len(stack) - 1 : stack'[j].pc = stack[j].pc /\ stack'[j].kind = stack[j].kind
    PROVE  StepAnswers(i)'
<1>1. Len(stack) \in Nat
    BY DEF Types
<1>2. i \in 1 .. Len(stack) - 1 /\ i - 1 \in 1 .. Len(stack) - 1
    BY <1>1
<1>3. /\ stack'[i].rc = stack[i].rc /\ stack'[i].pc = stack[i].pc
      /\ stack'[i-1].pc = stack[i-1].pc /\ stack'[i-1].kind = stack[i-1].kind
      /\ Answered(stack[i-1]) => Answered(stack'[i-1])
    BY <1>2 DEF Below
<1>4. QED BY <1>3 DEF StepAnswers, Answered

\* Where to, and with what, a function may go on.
LEMMA OwnGoesOn ==
    ASSUME Types, OwnLast, NEW pc, GoesOn(stack, stack', pc), Below, pc \notin {"read", "stepped", "fetched"},
           pc = "send" /\ Top.kind \in Alone =>
              cmdbuf' # <<>> /\ Top'.own \in Tag /\ cmdbuf'[Len(cmdbuf')] = Top'.own,
           pc \in {"poll", "wait"} /\ Top.kind \in Alone => IsLast(Top)',
           pc = "finish" /\ Top'.rc = "OK" /\ Len(stack) > 1
              => (Caller.pc = "stepped" /\ Caller.kind \in Alone => Answered(Caller'))
    PROVE  OwnLast'
<1>1. Top'.pc = pc /\ Top'.kind = Top.kind /\ Len(stack') = Len(stack) /\ stack' # <<>>
    BY GoesOnTo
<1>2. /\ Len(stack) \in Nat /\ Top' = stack'[Len(stack)] /\ Caller' = stack'[Len(stack) - 1]
      /\ Caller = stack[Len(stack) - 1]
      /\ \A j \in 1 .. Len(stack) - 1 : stack'[j].pc = stack[j].pc /\ stack'[j].kind = stack[j].kind
    BY <1>1 DEF Types, Top, Caller, GoesOn
<1>3. ASSUME NEW i \in 2 .. Len(stack') PROVE StepAnswers(i)'
    <2>1. CASE i < Len(stack)
        <3>1. i \in 2 .. Len(stack) - 1 /\ i \in 2 .. Len(stack)
            BY <1>1, <1>2, <2>1
        <3>2. StepAnswers(i)
            BY <3>1 DEF OwnLast
        <3>3. QED BY <1>2, <3>1, <3>2, BelowAnswers
    <2>2. CASE i = Len(stack)
        <3>1. Len(stack) > 1 /\ Len(stack) - 1 \in 1 .. Len(stack) - 1
            BY <1>1, <1>2, <2>2
        <3>2. stack'[i-1].pc = Caller.pc /\ stack'[i-1].kind = Caller.kind /\ stack'[i-1] = Caller'
              /\ stack'[i] = Top'
            BY <1>2, <2>2, <3>1
        <3>3. SUFFICES ASSUME stack'[i].pc \in {"finish", "fetched"}, stack'[i].rc = "OK",
                              stack'[i-1].pc = "stepped", stack'[i-1].kind \in Alone
                       PROVE  Answered(stack'[i-1])
            BY DEF StepAnswers, Answered, Alone
        <3>4. QED BY <1>1, <3>1, <3>2, <3>3
    <2>3. QED BY <1>1, <1>2, <2>1, <2>2
<1>4. QED BY <1>1, <1>3 DEF OwnLast, At, Within, Alone, Answered, StepAnswers, IsLast

\* What may be called, and from where.
LEMMA OwnCalls ==
    ASSUME Types, OwnLast, NEW pc, NEW f, Calls(stack, stack', pc, f), Below,
           f.pc \in {"single", "start", "read", "fatal", "login"}, pc # "finish",
           f.pc = "read" /\ pc = "stepped" /\ Top.kind \in Alone => IsLast(Caller)',
           pc = "fetched" => Top.pc = "finish" /\ stack'[Len(stack)].rc = Top.rc
    PROVE  OwnLast'
<1>1. /\ stack' # <<>> /\ Len(stack') > 1
      /\ Top'.pc = f.pc /\ Top'.kind = f.kind /\ Caller'.pc = pc /\ Caller'.kind = Top.kind
    BY CallsTo
<1>2. /\ Len(stack) \in Nat /\ Len(stack') = Len(stack) + 1 /\ stack[Len(stack)] = Top
      /\ Top' = stack'[Len(stack) + 1] /\ Caller' = stack'[Len(stack)]
      /\ \A j \in 1 .. Len(stack) - 1 : stack'[j].pc = stack[j].pc /\ stack'[j].kind = stack[j].kind
    <2>1. Len(stack) \in Nat /\ Len(stack') = Len(stack) + 1
        BY DEF Types, Calls
    <2>2. (Len(stack) + 1) - 1 = Len(stack)
        BY <2>1
    <2>3. QED BY <2>1, <2>2 DEF Top, Caller, Calls
<1>3. ASSUME NEW i \in 2 .. Len(stack') PROVE StepAnswers(i)'
    <2>1. CASE i < Len(stack)
        <3>1. i \in 2 .. Len(stack) - 1 /\ i \in 2 .. Len(stack)
            BY <1>1, <1>2, <2>1
        <3>2. StepAnswers(i)
            BY <3>1 DEF OwnLast
        <3>3. QED BY <1>2, <3>1, <3>2, BelowAnswers
    <2>2. CASE i = Len(stack)
        <3>1. i - 1 \in 1 .. Len(stack) - 1 /\ i \in 2 .. Len(stack)
            BY <1>1, <1>2, <2>2
        <3>2. StepAnswers(i)
            BY <3>1 DEF OwnLast
        <3>3. /\ stack'[i-1].pc = stack[i-1].pc /\ stack'[i-1].kind = stack[i-1].kind
              /\ Answered(stack[i-1]) => Answered(stack'[i-1])
            BY <1>2, <3>1 DEF Below
        <3>4. stack'[i].pc = pc /\ stack[i] = Top
            BY <1>1, <1>2, <2>2
        <3>5. SUFFICES ASSUME stack'[i].pc \in {"finish", "fetched"}, stack'[i].rc = "OK",
                              stack'[i-1].pc = "stepped", stack'[i-1].kind \in Alone
                       PROVE  Answered(stack'[i-1])
            BY DEF StepAnswers, Answered, Alone
        <3>6. Top.pc = "finish" /\ Top.rc = "OK"
            BY <2>2, <3>4, <3>5
        <3>7. QED BY <3>2, <3>3, <3>4, <3>5, <3>6 DEF StepAnswers
    <2>3. CASE i = Len(stack) + 1
        <3>1. stack'[i].pc = f.pc
            BY <1>1, <1>2, <2>3
        <3>2. QED BY <3>1 DEF StepAnswers
    <2>4. QED BY <1>2, <2>1, <2>2, <2>3
<1>4. QED BY <1>1, <1>3 DEF OwnLast, At, Within, Alone, Answered, StepAnswers, IsLast

\* Only a return of imap_cmd_step() says whether to wait on.
LEMMA OwnReturns ==
    ASSUME Types, CallGraph(stack), OwnLast, Returns(stack, stack'), Below,
           Top.pc \in StepPcs => (Len(stack) > 1 /\ Caller.pc = "stepped" /\ Caller.kind \in Alone
              => /\ ret'.res = "CONTINUE" => IsLast(Top)'
                 /\ ret'.res = "OK" => Answered(Top'))
    PROVE  OwnLast'
<1>1. Len(stack) \in Nat /\ Len(stack') = Len(stack) - 1 /\ stack' \in Seq(Activation) /\ Len(stack') \in Nat
      /\ \A j \in 1 .. Len(stack) - 1 : stack'[j].pc = stack[j].pc /\ stack'[j].kind = stack[j].kind
    BY DEF Types, Returns
<1>2. ASSUME NEW i \in 2 .. Len(stack') PROVE StepAnswers(i)'
    <2>1. i \in 2 .. Len(stack) - 1 /\ i \in 2 .. Len(stack)
        BY <1>1
    <2>2. StepAnswers(i)
        BY <2>1 DEF OwnLast
    <2>3. QED BY <1>1, <2>1, <2>2, BelowAnswers
<1>3. CASE stack' = <<>>
    BY <1>2, <1>3 DEF OwnLast, At, Within
<1>4. CASE stack' # <<>>
    <2>1. /\ Len(stack) > 1 /\ Top'.pc = Caller.pc /\ Top'.kind = Caller.kind
          /\ CalledFrom(Caller.pc, Top) /\ Len(stack) - 1 \in 1 .. Len(stack) - 1
        BY <1>4, ReturnsTo
    <2>2. Caller.pc \notin {"poll", "wait", "read", "send"}
        BY <2>1 DEF CalledFrom, LoginPcs
    <2>3. Caller.pc = "stepped" => Top.pc \in StepPcs
        BY <2>1 DEF CalledFrom, LoginPcs
    <2>4. QED BY <1>2, <2>1, <2>2, <2>3 DEF OwnLast, At, Within
<1>5. QED BY <1>3, <1>4

\* Notes on the stack keep what was answered with OK.
LEMMA MarkKeeps ==
    ASSUME NEW s \in Seq(Activation), NEW t \in Tag, NEW r \in Results, NEW i \in DOMAIN s
    PROVE  /\ Mark(s, t, r)[i].rc = s[i].rc
           /\ Answered(s[i]) => Answered(Mark(s, t, r)[i])
           /\ s[i].own = t => Mark(s, t, r)[i].own = Nil /\ Mark(s, t, r)[i].fate = r
           /\ s[i].own # t => Mark(s, t, r)[i].own = s[i].own
<1>1. s[i] \in Activation /\ t # Nil
    BY SessionAssumption
<1>2. PICK f : f = s[i]
    OBVIOUS
<1>3. f \in Activation
    BY <1>1, <1>2
<1>4. PICK a, b : a = [f EXCEPT !.own = Nil, !.fate = r] /\ b = [f EXCEPT !.fate = r]
    OBVIOUS
<1>5. /\ a.rc = f.rc /\ a.own = Nil /\ a.fate = r
      /\ b.rc = f.rc /\ b.own = f.own /\ b.fate = r
    BY <1>3, <1>4 DEF Activation
<1>6. Mark(s, t, r)[i] = IF f.own = t THEN a ELSE IF f.fate = "batch" /\ r # "OK" THEN b ELSE f
    BY <1>2, <1>4 DEF Mark
<1>7. QED BY <1>1, <1>2, <1>5, <1>6 DEF Answered

\* So does the note that the connection is lost.
LEMMA LostKeeps ==
    ASSUME NEW s \in Seq(Activation), NEW i \in DOMAIN s
    PROVE  Lost(s)[i].rc = s[i].rc /\ (Answered(s[i]) => Answered(Lost(s)[i]))
<1>1. s[i] \in Activation
    OBVIOUS
<1>2. PICK f : f = s[i]
    OBVIOUS
<1>3. f \in Activation
    BY <1>1, <1>2
<1>4. PICK a : a = [f EXCEPT !.own = Nil, !.fate = "lost"]
    OBVIOUS
<1>5. a.rc = f.rc
    BY <1>3, <1>4 DEF Activation
<1>6. Lost(s)[i] = IF f.own # Nil \/ f.fate = "batch" THEN a ELSE f
    BY <1>2, <1>4 DEF Lost
<1>7. QED BY <1>2, <1>5, <1>6 DEF Answered

\* Going on leaves the activations below alone.
LEMMA WithBelow ==
    ASSUME Types, NEW p, At(p), NEW f \in Activation, stack' = With(f)
    PROVE  Below /\ (Len(stack) > 1 => Caller' = Caller) /\ Top' = f
<1>1. stack \in Seq(Activation) /\ Len(stack) \in Nat /\ Len(stack) > 0
    BY TopTyped DEF Types
<1>2. /\ Len(stack') = Len(stack) /\ stack'[Len(stack)] = f
      /\ \A i \in 1 .. Len(stack) - 1 : stack'[i] = stack[i]
    BY <1>1 DEF With
<1>3. Len(stack) > 1 => Len(stack) - 1 \in 1 .. Len(stack) - 1
    BY <1>1
<1>4. QED BY <1>2, <1>3 DEF Below, Top, Caller

\* Goto keeps what the activation waits for and has to return.
LEMMA GotoBelow ==
    ASSUME Types, NEW p, At(p), NEW pc \in Pcs, Goto(pc)
    PROVE  Below /\ Top'.own = Top.own /\ Top'.rc = Top.rc
<1>1. PICK f : f = [Top EXCEPT !.pc = pc]
    OBVIOUS
<1>2. f \in Activation /\ f.own = Top.own /\ f.rc = Top.rc
    BY <1>1, TopTyped DEF Activation
<1>3. stack' = With(f)
    BY <1>1 DEF Goto
<1>4. QED BY <1>2, <1>3, WithBelow

\* So does a call,
LEMMA CallBelow ==
    ASSUME Types, NEW p, At(p), NEW pc \in Pcs, NEW g \in Activation, Call(g, pc)
    PROVE  Below /\ Caller'.own = Top.own /\ stack'[Len(stack)].rc = Top.rc
<1>1. PICK f : f = [Top EXCEPT !.pc = pc]
    OBVIOUS
<1>2. f \in Activation /\ f.own = Top.own /\ f.rc = Top.rc
    BY <1>1, TopTyped DEF Activation
<1>3. stack \in Seq(Activation) /\ Len(stack) \in Nat /\ Len(stack) > 0
    BY TopTyped DEF Types
<1>4. PICK w : w = [stack EXCEPT ![Len(stack)] = f]
    OBVIOUS
<1>5. /\ w \in Seq(Activation) /\ Len(w) = Len(stack) /\ w[Len(stack)] = f
      /\ \A i \in 1 .. Len(stack) - 1 : w[i] = stack[i]
    BY <1>2, <1>3, <1>4
<1>6. stack' = Append(w, g)
    BY <1>1, <1>4 DEF Call, With
<1>7. /\ Len(stack') = Len(stack) + 1
      /\ \A i \in 1 .. Len(stack) : stack'[i] = w[i]
    BY <1>3, <1>5, <1>6
<1>8. /\ \A i \in 1 .. Len(stack) - 1 : stack'[i] = stack[i]
      /\ Len(stack) \in 1 .. Len(stack) /\ (Len(stack) + 1) - 1 = Len(stack)
    BY <1>3, <1>5, <1>7
<1>9. stack'[Len(stack)] = f /\ Caller' = f
    BY <1>5, <1>7, <1>8 DEF Caller
<1>10. QED BY <1>2, <1>8, <1>9 DEF Below

\* and a return goes back to the activation that called.
LEMMA ReturnBelow ==
    ASSUME Types, NEW p, At(p), NEW res, Return(res)
    PROVE  Below /\ (Len(stack) > 1 => Top' = Caller)
<1>1. stack \in Seq(Activation) /\ Len(stack) \in Nat /\ Len(stack) > 0 /\ stack # <<>>
    BY TopTyped DEF Types
<1>2. stack' = SubSeq(stack, 1, Len(stack) - 1)
    BY DEF Return
<1>3. Len(stack') = Len(stack) - 1 /\ \A i \in 1 .. Len(stack) - 1 : stack'[i] = stack[i]
    BY <1>1, <1>2, ButLast
<1>4. Len(stack) > 1 => Len(stack) - 1 \in 1 .. Len(stack) - 1
    BY <1>1
<1>5. QED BY <1>3, <1>4 DEF Below, Top, Caller

\* The command put last into the buffer is sent last.
LEMMA LastDelivered ==
    ASSUME cmdbuf \in Seq(Tag \cup {DONE}), cmdbuf # <<>>, cmdbuf[Len(cmdbuf)] \in Tag
    PROVE  Delivered # <<>> /\ Delivered[Len(Delivered)] = cmdbuf[Len(cmdbuf)]
<1> DEFINE p == {i \in DOMAIN cmdbuf : cmdbuf[i] # DONE}
<1> DEFINE d == AtPlaces(cmdbuf, p)
<1> DEFINE n == Len(cmdbuf)
<1>1. Delivered = d /\ n \in Nat /\ n > 0 /\ n \in DOMAIN cmdbuf /\ n \in p
      /\ \A i \in p : i \in 1 .. n
    BY SessionAssumption DEF Delivered
<1>2. d \in Seq(Tag \cup {DONE}) /\ \E e : Picks(cmdbuf, p, e, d, n)
    BY AtPlacesPicks
<1>3. PICK e : Picks(cmdbuf, p, e, d, n)
    BY <1>2
<1>4. n \in 1 .. n
    BY <1>1
<1> HIDE DEF p, d
<1>5. PICK m \in 1 .. Len(d) : e[m] = n
    BY <1>1, <1>3, <1>4 DEF Picks
<1>6. Len(d) \in Nat /\ Len(d) > 0 /\ Len(d) \in 1 .. Len(d) /\ m \in Nat
    BY <1>2, <1>5
<1>7. m = Len(d)
    <2>1. SUFFICES ASSUME m < Len(d) PROVE FALSE
        BY <1>5, <1>6
    <2>2. e[m] < e[Len(d)] /\ e[Len(d)] \in 1 .. n
        BY <1>1, <1>3, <1>5, <1>6, <2>1 DEF Picks
    <2>3. QED BY <1>1, <1>5, <2>2
<1>8. d[Len(d)] = cmdbuf[n]
    BY <1>3, <1>5, <1>6, <1>7 DEF Picks
<1>9. QED BY <1>1, <1>2, <1>6, <1>8 DEF d

\* What is sent last is owed last.
LEMMA LastOfConcat ==
    ASSUME NEW S, NEW a \in Seq(S), NEW b \in Seq(S), b # <<>>
    PROVE  a \o b # <<>> /\ (a \o b)[Len(a \o b)] = b[Len(b)]
<1>1. PICK n \in Nat, m \in Nat : n = Len(a) /\ m = Len(b) /\ m # 0
    OBVIOUS
<1>2. /\ a \o b \in Seq(S) /\ Len(a \o b) = n + m
      /\ \A i \in 1 .. n + m : (a \o b)[i] = IF i <= n THEN a[i] ELSE b[i - n]
    BY <1>1, ConcatProperties
<1>3. n + m \in 1 .. n + m /\ ~(n + m <= n) /\ (n + m) - n = m /\ n + m # 0
    BY <1>1
<1>4. QED BY <1>1, <1>2, <1>3

\* imap_exec(), cmd_start() and the loops that wait: what is sent is sent last,
\* and what is returned is what was answered.
LEMMA OwnExec ==
    ASSUME SessionInv, OwnLast, ExecStep
    PROVE  OwnLast'
<1>0. /\ Types /\ RingInv /\ CallGraph(stack) /\ KindInv /\ stack \in Seq(Activation)
    BY DEF SessionInv, ControlInv, Types
<1>1. ASSUME UNCHANGED <<cmdbuf, connVars>>, NEW f, NEW g, IsLast(f), g.own = f.own
      PROVE  connUp' => sent' # <<>> /\ sent'[Len(sent')] = g.own
    BY <1>1 DEF IsLast, connVars
<1>2. ASSUME NEW p, At(p), p \notin StepPcs, NEW res, Return(res) PROVE OwnLast'
    <2>1. Returns(stack, stack') /\ Top.pc \notin StepPcs /\ Below
        BY <1>0, <1>2, ReturnStack, ReturnBelow, TopTyped
    <2>2. QED BY <1>0, <2>1, OwnReturns
<1>3. ASSUME NEW p, At(p), NEW pc \in {"startfail", "enqueue", "start"}, Goto(pc) PROVE OwnLast'
    <2>1. GoesOn(stack, stack', pc) /\ Below
        BY <1>0, <1>3, GotoStack, GotoBelow DEF Pcs
    <2>2. QED BY <1>0, <2>1, OwnGoesOn
<1>4. ASSUME NEW p, At(p), NEW pc \in Pcs \ {"finish", "fetched"}, Call(Fatal, pc) PROVE OwnLast'
    <2>1. Calls(stack, stack', pc, Fatal) /\ Fatal.pc = "fatal" /\ Below
        BY <1>0, <1>4, CallStack, CallBelow, FramesTyped
    <2>2. QED BY <1>0, <2>1, OwnCalls
<1>5. ASSUME NEW p, At(p), NEW kind \in {"drain", "flush"}, NEW pc \in {"start", "drained"}, Call(Exec(kind), pc)
      PROVE  OwnLast'
    <2>1. Exec(kind) \in Activation /\ Exec(kind).pc = "start" /\ pc \in Pcs
        BY FramesTyped DEF Kinds, Pcs
    <2>2. Calls(stack, stack', pc, Exec(kind)) /\ Below
        BY <1>0, <1>5, <2>1, CallStack, CallBelow
    <2>3. QED BY <1>0, <1>5, <2>1, <2>2, OwnCalls
<1>6. ASSUME NEW p, At(p), Goto("wait"), Top.kind \in Alone => IsLast(Top), UNCHANGED <<cmdbuf, connVars>> PROVE OwnLast'
    <2>1. GoesOn(stack, stack', "wait") /\ Below /\ Top'.own = Top.own
        BY <1>0, <1>6, GotoStack, GotoBelow DEF Pcs
    <2>2. Top.kind \in Alone => IsLast(Top)'
        BY <1>1, <1>6, <2>1 DEF IsLast
    <2>3. QED BY <1>0, <2>1, <2>2, OwnGoesOn
<1>7. CASE SingleDrain
    BY <1>3, <1>5, <1>7 DEF SingleDrain
<1>8. CASE CmdStart
    <2>1. At("start")
        BY <1>8 DEF CmdStart
    <2>2. CASE fatal
        BY <1>4, <1>8, <2>1, <2>2 DEF CmdStart, Pcs
    <2>3. CASE ~fatal /\ Top.kind \notin HasCmd
        <3>1. GoesOn(stack, stack', "send") /\ Below
            BY <1>0, <1>8, <2>1, <2>3, GotoStack, GotoBelow DEF CmdStart, Pcs
        <3>2. Top.kind \notin Alone
            BY <2>3 DEF HasCmd, Alone, Kinds
        <3>3. QED BY <1>0, <3>1, <3>2, OwnGoesOn
    <2>4. CASE ~fatal /\ Top.kind \in HasCmd /\ Full
        <3>1. \E kind \in {"drain", "flush"} : Call(Exec(kind), "drained")
            BY <1>8, <2>4 DEF CmdStart
        <3>2. QED BY <1>5, <2>1, <3>1
    <2>5. CASE ~fatal /\ Top.kind \in HasCmd /\ ~Full
        BY <1>3, <1>8, <2>1, <2>5 DEF CmdStart
    <2>6. QED BY <2>2, <2>3, <2>4, <2>5
<1>9. CASE Drained \/ StillFull \/ SendNothing \/ SendFails
    <2>1. \E p : At(p)
        BY <1>9 DEF Drained, StillFull, SendNothing, SendFails
    <2>2. \E pc \in {"startfail", "enqueue"} : Goto(pc)
        BY <1>9 DEF Drained, StillFull, SendNothing, SendFails
    <2>3. QED BY <1>3, <2>1, <2>2
<1>10. CASE Enqueue
    <2>1. At("enqueue") /\ "enqueue" \notin StepPcs
        BY <1>10 DEF Enqueue, StepPcs
    <2>2. CASE Top.kind = "queue"
        BY <1>2, <1>10, <2>1, <2>2 DEF Enqueue
    <2>3. CASE Top.kind # "queue"
        <3>1. PICK f : f = [Top EXCEPT !.pc = "send", !.own = seqno]
            OBVIOUS
        <3>2. f \in Activation /\ f.kind = Top.kind /\ f.pc = "send" /\ f.own = seqno /\ seqno \in Tag
            <4>1. Top \in Activation /\ seqno \in Tag
                BY <1>0, <2>1, TopTyped DEF RingInv, RingTypeOK
            <4>2. QED BY <3>1, <4>1 DEF Activation, Pcs
        <3>3. stack' = With(f) /\ cmdbuf' = Append(cmdbuf, seqno)
            BY <1>10, <2>3, <3>1 DEF Enqueue
        <3>4. GoesOn(stack, stack', "send") /\ Below /\ Top' = f
            BY <1>0, <2>1, <3>2, <3>3, WithStack, WithBelow
        <3>5. cmdbuf' # <<>> /\ cmdbuf'[Len(cmdbuf')] = seqno
            <4>1. cmdbuf \in Seq(Tag \cup {DONE})
                BY <1>0 DEF Types
            <4>2. QED BY <3>2, <3>3, <4>1
        <3>6. QED BY <1>0, <3>2, <3>4, <3>5, OwnGoesOn
    <2>4. QED BY <2>2, <2>3
<1>11. CASE Send
    <2>1. At("send") /\ "send" \notin StepPcs
        BY <1>11 DEF Send, StepPcs
    <2>2. CASE Top.kind = "start"
        BY <1>2, <1>11, <2>1, <2>2 DEF Send
    <2>3. CASE Top.kind # "start"
        <3> DEFINE q == IF Top.kind \in Polls THEN "poll" ELSE "wait"
        <3> DEFINE r == IF Top.kind \in {"flush", "drain"} THEN "batch" ELSE Top.fate
        <3> DEFINE f == [Top EXCEPT !.pc = q, !.fate = r]
        <3>1. stack' = With(f)
            BY <1>11, <2>3 DEF Send
        <3>2. f \in Activation /\ f.kind = Top.kind /\ f.pc \in {"poll", "wait"} /\ f.own = Top.own
            <4>1. q \in {"poll", "wait"} /\ q \in Pcs /\ r \in Fates /\ Top \in Activation
                BY <1>0, <2>1, TopTyped DEF Activation, Fates, Pcs
            <4> HIDE DEF q, r
            <4>2. QED BY <4>1 DEF Activation
        <3> HIDE DEF f
        <3>3. PICK pc : GoesOn(stack, stack', pc) /\ pc \in {"poll", "wait"} /\ Below /\ Top' = f
            BY <1>0, <2>1, <3>1, <3>2, WithStack, WithBelow
        <3>4. Top.kind \in Alone => IsLast(Top)'
            <4>1. SUFFICES ASSUME Top.kind \in Alone PROVE sent' # <<>> /\ sent'[Len(sent')] = Top'.own
                BY DEF IsLast
            <4>2. /\ cmdbuf # <<>> /\ Top.own \in Tag /\ cmdbuf[Len(cmdbuf)] = Top.own
                  /\ cmdbuf \in Seq(Tag \cup {DONE}) /\ sent \in Seq(Tag)
                BY <1>0, <2>1, <4>1 DEF OwnLast, Types
            <4>3. /\ Delivered \in Seq(Tag) /\ Delivered # <<>>
                  /\ Delivered[Len(Delivered)] = Top.own
                BY <4>2, DeliveredIs, LastDelivered
            <4>4. sent' = sent \o Delivered
                BY <1>11 DEF Send
            <4>5. QED BY <3>2, <3>3, <4>2, <4>3, <4>4, LastOfConcat
        <3>5. QED BY <1>0, <3>3, <3>4, OwnGoesOn
    <2>4. QED BY <2>2, <2>3
<1>12. CASE StartFail
    <2>1. At("startfail") /\ "startfail" \notin StepPcs /\ "retfatal" \in Pcs \ {"finish", "fetched"}
        BY <1>12 DEF StartFail, StepPcs, Pcs
    <2>2. CASE Top.kind = "start"
        BY <1>2, <1>12, <2>1, <2>2 DEF StartFail
    <2>3. CASE Top.kind = "loop"
        <3>1. Goto("wait") /\ Top.kind \notin Alone /\ UNCHANGED <<cmdbuf, connVars>>
            BY <1>12, <2>1, <2>3 DEF StartFail, Alone
        <3>2. QED BY <1>6, <2>1, <3>1
    <2>4. CASE Top.kind \notin {"start", "loop"}
        <3>1. Call(Fatal, "retfatal")
            BY <1>12, <2>4 DEF StartFail
        <3>2. QED BY <1>4, <2>1, <3>1
    <2>5. QED BY <2>2, <2>3, <2>4
<1>13. CASE RetFatal
    <2>1. \E p : At(p) /\ p \notin StepPcs
        BY <1>13 DEF RetFatal, StepPcs
    <2>2. QED BY <1>2, <1>13, <2>1 DEF RetFatal
<1>14. CASE PollReady
    <2>1. At("poll") /\ Goto("wait") /\ UNCHANGED <<cmdbuf, connVars>>
        BY <1>14 DEF PollReady
    <2>2. Top.kind \in Alone => IsLast(Top)
        BY <2>1 DEF OwnLast
    <2>3. QED BY <1>6, <2>1, <2>2
<1>15. CASE PollTimeout
    BY <1>4, <1>15 DEF PollTimeout, Pcs
<1>16. CASE Wait
    <2>1. At("wait") /\ Call(Step, "stepped") /\ UNCHANGED <<cmdbuf, connVars>>
        BY <1>16 DEF Wait
    <2>2. Calls(stack, stack', "stepped", Step) /\ Step.pc = "read" /\ Below /\ Caller'.own = Top.own
        BY <1>0, <2>1, CallStack, CallBelow, FramesTyped DEF Pcs
    <2>3. Top.kind \in Alone => IsLast(Caller)'
        BY <1>1, <2>1, <2>2 DEF OwnLast, IsLast
    <2>4. QED BY <1>0, <2>2, <2>3, OwnCalls
<1>17. CASE Stepped
    <2>1. At("stepped") /\ "stepped" \notin StepPcs
        BY <1>17 DEF Stepped, StepPcs
    <2>2. CASE WaitAgain(Top.kind)
        <3>1. Goto("wait") /\ ret.res = "CONTINUE" /\ UNCHANGED <<cmdbuf, connVars>>
            BY <1>17, <2>2 DEF Stepped, WaitAgain
        <3>2. Top.kind \in Alone => IsLast(Top)
            BY <2>1, <3>1 DEF OwnLast
        <3>3. QED BY <1>6, <2>1, <3>1, <3>2
    <2>3. CASE ~WaitAgain(Top.kind)
        <3>1. \E res : Return(res)
            BY <1>17, <2>3 DEF Stepped
        <3>2. QED BY <1>2, <2>1, <3>1
    <2>4. QED BY <2>2, <2>3
<1>18. QED
    BY <1>7, <1>8, <1>9, <1>10, <1>11, <1>12, <1>13, <1>14, <1>15, <1>16, <1>17 DEF ExecStep

\* While a command runs on that was sent later, the one that was sent last is
\* not answered yet.
LEMMA LastStays ==
    ASSUME SessionInv, Owed', inOrder, NEW k \in 1 .. Slots, NEW r \in Results, ReadTagged(k, r),
           Running(sent[k]) # {}, AnswerDue, NEW f, IsLast(f)
    PROVE  /\ sent' # <<>> /\ sent'[Len(sent')] = f.own
           /\ f.own # sent[k]
<1>0. /\ connUp /\ connUp' /\ sent \in Seq(Tag) /\ k = 1 /\ k \in DOMAIN sent /\ sent' = Without(sent, k)
      /\ sent # <<>> /\ sent[Len(sent)] = f.own /\ Once(sent, DONE) /\ DONE \notin Tag
    BY SessionAssumption DEF SessionInv, ControlInv, Types, ReadTagged, Owed, IsLast
<1>1. sent' # <<>>
    <2>1. AnswerDue'
        BY TaggedDue
    <2>2. QED BY <1>0, <2>1 DEF AnswerDue, ServerOwesLine
<1>2. PICK n \in Nat : n = Len(sent) /\ n # 0 /\ DOMAIN sent = 1 .. n
    BY <1>0
<1>3. /\ sent' \in Seq(Tag) /\ Len(sent') = n - 1
      /\ \A i \in 1 .. n - 1 : sent'[i] = IF i < k THEN sent[i] ELSE sent[i+1]
    BY <1>0, <1>2, WithoutIs
<1>4. n - 1 # 0
    BY <1>1, <1>2, <1>3
<1>5. n - 1 \in 1 .. n - 1 /\ ~(n - 1 < k) /\ (n - 1) + 1 = n /\ n \in 1 .. n /\ n # k
    BY <1>0, <1>2, <1>4
<1>6. sent'[n - 1] = sent[n]
    BY <1>3, <1>5
<1>7. sent[n] # sent[k]
    <2>1. sent[n] # DONE
        BY <1>0, <1>2, <1>5
    <2>2. QED BY <1>0, <1>2, <1>5, <2>1 DEF Once
<1>8. QED BY <1>0, <1>1, <1>2, <1>3, <1>6, <1>7

\* When no command runs on, it is the one sent last that was answered.
LEMMA LastAnswered ==
    ASSUME SessionInv, Owed', NEW k \in 1 .. Slots, NEW r \in Results, ReadTagged(k, r),
           Running(sent[k]) = {}, AnswerDue, NEW f, IsLast(f)
    PROVE  f.own = sent[k]
<1>0. /\ connUp /\ connUp' /\ sent \in Seq(Tag) /\ k \in DOMAIN sent /\ sent' = Without(sent, k)
      /\ sent[Len(sent)] = f.own /\ cmdbuf = <<>> /\ cmdbuf' = cmdbuf /\ Complete(sent[k], r) /\ RingInv
      /\ r \in Result
    BY SessionAssumption DEF SessionInv, ControlInv, Types, ReadTagged, IsLast, AnswerDue
<1>1. NewTags' = {}
    BY <1>0, LastCompleted
<1>2. Elements(sent') = {}
    BY <1>0, <1>1 DEF Owed
<1>3. PICK n \in Nat : n = Len(sent) /\ DOMAIN sent = 1 .. n
    BY <1>0
<1>4. sent' \in Seq(Tag) /\ Len(sent') = n - 1
    BY <1>0, <1>3, WithoutIs
<1>5. sent' = <<>>
    BY <1>2, <1>4, NoElements
<1>6. n - 1 = 0
    BY <1>4, <1>5
<1>7. k = n
    <2>1. k \in 1 .. n
        BY <1>0, <1>3
    <2>2. n \in Nat
        BY <1>3
    <2>3. n = 1
        BY <1>6, <2>2
    <2>4. \A i \in 1 .. 1 : i = 1
        OBVIOUS
    <2>5. QED BY <2>1, <2>3, <2>4
<1>8. QED BY <1>0, <1>3, <1>7

\* imap_cmd_step(): a line that leaves commands running is not the answer
\* waited for, and one that leaves none is.
LEMMA OwnRead ==
    ASSUME SessionInv, Owed', inOrder, OwnLast, ReadStep
    PROVE  OwnLast'
<1>0. /\ Types /\ RingInv /\ CallGraph(stack) /\ DueInv /\ stack \in Seq(Activation) /\ Owed
    BY DEF SessionInv, ControlInv, Types
<1>1. ASSUME At("read"), Len(stack) > 1, Caller.pc = "stepped", Caller.kind \in Alone
      PROVE  AnswerDue /\ IsLast(Caller)
    BY <1>0, <1>1 DEF DueInv, Within, OwnLast, Alone
<1>2. CASE StepFatal \/ ReadError
    <2>1. At("read") /\ Call(Fatal, "bad") /\ "bad" \in Pcs
        BY <1>2 DEF StepFatal, ReadError, Pcs
    <2>2. Calls(stack, stack', "bad", Fatal) /\ Fatal.pc = "fatal" /\ Below
        BY <1>0, <2>1, CallStack, CallBelow, FramesTyped
    <2>3. QED BY <1>0, <2>2, OwnCalls
<1>3. CASE ReadContinuation
    <2>1. At("read") /\ Return("RESPOND")
        BY <1>3 DEF ReadContinuation
    <2>2. Returns(stack, stack') /\ ret'.res = "RESPOND" /\ Below
        BY <1>0, <2>1, ReturnStack, ReturnBelow
    <2>3. QED BY <1>0, <2>2, OwnReturns
<1>4. CASE ReadUntagged
    <2>1. At("read") /\ Top \in Activation /\ UNCHANGED <<cmdbuf, connVars>> /\ Scan({i \in Scanned : IsNew(i)}, "OK") /\ connUp
        BY <1>0, <1>4, TopTyped DEF ReadUntagged
    <2>2. CASE {i \in Scanned : IsNew(i)} # {}
        <3>1. Return("CONTINUE")
            BY <2>1, <2>2 DEF Scan
        <3>2. Returns(stack, stack') /\ ret'.res = "CONTINUE" /\ Below /\ (Len(stack) > 1 => Top' = Caller)
            BY <1>0, <2>1, <3>1, ReturnStack, ReturnBelow
        <3>3. ASSUME Len(stack) > 1, IsLast(Caller) PROVE IsLast(Top)'
            BY <2>1, <3>2, <3>3 DEF IsLast, connVars
        <3>4. QED BY <1>0, <1>1, <2>1, <3>2, <3>3, OwnReturns
    <2>3. CASE {i \in Scanned : IsNew(i)} = {}
        <3>1. PICK f : f = [Top EXCEPT !.pc = "finish", !.rc = "OK"]
            OBVIOUS
        <3>2. f \in Activation /\ f.kind = Top.kind /\ f.pc = "finish"
            BY <2>1, <3>1 DEF Activation, Pcs
        <3>3. stack' = With(f)
            BY <2>1, <2>3, <3>1 DEF Scan
        <3>4. GoesOn(stack, stack', "finish") /\ Below
            BY <1>0, <2>1, <3>2, <3>3, WithStack, WithBelow
        <3>5. ~(Len(stack) > 1 /\ Caller.pc = "stepped" /\ Caller.kind \in Alone)
            <4>1. SUFFICES ASSUME AnswerDue PROVE FALSE
                BY <1>1, <2>1
            <4>2. sent # <<>> /\ sent \in Seq(Tag)
                BY <1>0, <2>1, <4>1 DEF AnswerDue, ServerOwesLine, Types
            <4>3. Elements(sent) # {}
                BY <4>2, NoElements
            <4>4. NewTags # {}
                BY <1>0, <2>1, <4>3 DEF Owed
            <4>5. QED BY <1>0, <2>3, <4>4, NothingNew
        <3>6. QED BY <1>0, <3>4, <3>5, OwnGoesOn
    <2>4. QED BY <2>2, <2>3
<1>5. ASSUME NEW k \in 1 .. Slots, NEW r \in Results, ReadTagged(k, r)
      PROVE  OwnLast'
    <2>1. At("read") /\ stack # <<>> /\ sent[k] \in Tag /\ Len(stack) \in Nat /\ DOMAIN stack = 1 .. Len(stack)
        BY <1>0, <1>5 DEF ReadTagged, At, Types
    <2>2. PICK marked : marked = Mark(stack, sent[k], r)
        OBVIOUS
    <2>3. Noted(stack, marked)
        BY <1>0, <2>2, MarkNoted
    <2>4. /\ marked # <<>> /\ marked \in Seq(Activation) /\ Len(marked) = Len(stack)
          /\ \A u, pc : GoesOn(marked, u, pc) => GoesOn(stack, u, pc)
          /\ \A u : Returns(marked, u) => Returns(stack, u)
        BY <1>0, <2>1, <2>3, NotedSteps
    <2>5. \A i \in 1 .. Len(stack) :
              /\ marked[i].rc = stack[i].rc /\ (Answered(stack[i]) => Answered(marked[i]))
              /\ stack[i].own = sent[k] => marked[i].own = Nil /\ marked[i].fate = r
              /\ stack[i].own # sent[k] => marked[i].own = stack[i].own
        BY <1>0, <2>1, <2>2, MarkKeeps
    <2>6. /\ \A i \in 1 .. Len(stack) - 1 : i \in 1 .. Len(stack)
          /\ Len(stack) > 1 => Len(stack) - 1 \in 1 .. Len(stack) - 1
        BY <2>1
    <2>7. CASE Running(sent[k]) # {}
        <3>1. stack' = SubSeq(marked, 1, Len(stack) - 1) /\ ret' = [kind |-> "none", res |-> "CONTINUE", fate |-> "none"]
            BY <1>5, <2>2, <2>7 DEF ReadTagged
        <3>2. Returns(stack, stack')
            BY <2>4, <3>1, TopReturns
        <3>3. Len(stack') = Len(stack) - 1 /\ \A i \in 1 .. Len(stack) - 1 : stack'[i] = marked[i]
            BY <2>4, <3>1, ButLast
        <3>4. Below
            BY <2>5, <2>6, <3>3 DEF Below
        <3>5. ASSUME Len(stack) > 1, Caller.pc = "stepped", Caller.kind \in Alone PROVE IsLast(Top)'
            <4>1. Top' = marked[Len(stack) - 1] /\ Caller = stack[Len(stack) - 1]
                BY <2>6, <3>3, <3>5 DEF Top, Caller
            <4>2. AnswerDue /\ IsLast(Caller)
                BY <1>1, <2>1, <3>5
            <4>3. /\ sent' # <<>> /\ sent'[Len(sent')] = Caller.own /\ Caller.own # sent[k]
                BY <1>5, <2>7, <4>2, LastStays
            <4>4. Top'.own = Caller.own
                BY <2>5, <2>6, <3>5, <4>1, <4>3
            <4>5. QED BY <4>3, <4>4 DEF IsLast
        <3>6. ret'.res = "CONTINUE"
            BY <3>1
        <3>7. QED BY <1>0, <3>2, <3>4, <3>5, <3>6, OwnReturns
    <2>8. CASE Running(sent[k]) = {}
        <3>1. stack' = [marked EXCEPT ![Len(stack)].pc = "finish", ![Len(stack)].rc = r]
            BY <1>5, <2>2, <2>8 DEF ReadTagged
        <3>2. GoesOn(marked, [marked EXCEPT ![Len(marked)].pc = "finish", ![Len(marked)].rc = r], "finish")
            BY <2>4, TopAt DEF Pcs
        <3>3. GoesOn(stack, stack', "finish")
            BY <2>4, <3>1, <3>2
        <3>4. PICK h : h = [marked[Len(stack)] EXCEPT !.pc = "finish", !.rc = r]
            OBVIOUS
        <3>5. h.rc = r /\ h \in Activation
            <4>1. marked[Len(stack)] \in Activation /\ "finish" \in Pcs
                BY <2>1, <2>4 DEF Pcs
            <4>2. QED BY <3>4, <4>1 DEF Activation
        <3>6. /\ Len(stack') = Len(stack) /\ stack'[Len(stack)] = h
              /\ \A i \in 1 .. Len(stack) - 1 : stack'[i] = marked[i]
            <4>1. stack' = [marked EXCEPT ![Len(stack)] = h]
                BY <2>1, <2>4, <3>1, <3>4
            <4>2. PICK n \in Nat : n = Len(stack)
                BY <2>1
            <4>3. Len(marked) = n /\ n # 0
                <5>1. marked # <<>> /\ marked \in Seq(Activation) /\ Len(marked) = n
                    BY <2>4, <4>2
                <5>2. QED BY <5>1
            <4>4. PICK w : w = [marked EXCEPT ![n] = h]
                OBVIOUS
            <4>5. Len(w) = n /\ w[n] = h /\ \A i \in 1 .. n - 1 : w[i] = marked[i]
                BY <2>4, <3>5, <4>3, <4>4
            <4>6. QED BY <4>1, <4>2, <4>3, <4>4, <4>5
        <3>7. Below
            BY <2>5, <2>6, <3>6 DEF Below
        <3>8. ASSUME Top'.rc = "OK", Len(stack) > 1, Caller.pc = "stepped", Caller.kind \in Alone
              PROVE  Answered(Caller')
            <4>1. Caller' = marked[Len(stack) - 1] /\ Caller = stack[Len(stack) - 1] /\ Top' = h
                BY <2>6, <3>6, <3>8 DEF Top, Caller
            <4>2. AnswerDue /\ IsLast(Caller)
                BY <1>1, <2>1, <3>8
            <4>3. Caller.own = sent[k]
                BY <1>5, <2>8, <4>2, LastAnswered
            <4>4. r = "OK"
                BY <3>5, <3>8, <4>1
            <4>5. QED BY <2>5, <2>6, <3>8, <4>1, <4>3, <4>4 DEF Answered
        <3>9. QED BY <1>0, <3>3, <3>7, <3>8, OwnGoesOn
    <2>9. QED BY <2>7, <2>8
<1>6. QED BY <1>2, <1>3, <1>4, <1>5 DEF ReadStep

\* imap_cmd_finish() returns the result it was given; cmd_handle_fatal() ends
\* no command with OK.
LEMMA OwnFinish ==
    ASSUME SessionInv, OwnLast, FinishStep \/ FatalStep
    PROVE  OwnLast'
<1>0. /\ Types /\ CallGraph(stack) /\ KindInv /\ stack \in Seq(Activation) /\ Len(stack) \in Nat
    BY DEF SessionInv, ControlInv, Types
<1>1. ASSUME NEW p, At(p), NEW res, Return(res), p \notin StepPcs \/ res = "BAD" PROVE OwnLast'
    <2>1. Returns(stack, stack') /\ ret'.res = res /\ Below /\ Top.pc = p
        BY <1>0, <1>1, ReturnStack, ReturnBelow, TopTyped
    <2>2. QED BY <1>0, <1>1, <2>1, OwnReturns
<1>2. CASE FinishFetch
    <2>1. At("finish") /\ Call(Exec("loop"), "fetched") /\ "fetched" \in Pcs /\ Top.pc = "finish"
        BY <1>2 DEF FinishFetch, Pcs, At
    <2>2. Exec("loop") \in Activation /\ Exec("loop").pc = "start" /\ Exec("loop").kind \in HasCmd
        BY FramesTyped DEF Kinds, HasCmd
    <2>3. Calls(stack, stack', "fetched", Exec("loop")) /\ Below /\ stack'[Len(stack)].rc = Top.rc
        BY <1>0, <2>1, <2>2, CallStack, CallBelow
    <2>4. QED BY <1>0, <2>1, <2>2, <2>3, OwnCalls
<1>3. CASE Finish \/ Fetched
    <2>1. PICK p \in {"finish", "fetched"} : At(p) /\ Return(Top.rc)
        BY <1>3 DEF Finish, Fetched
    <2>2. /\ Top.pc = p /\ Top = stack[Len(stack)] /\ Top.rc # "CONTINUE"
          /\ Returns(stack, stack') /\ ret'.res = Top.rc /\ Below /\ (Len(stack) > 1 => Top' = Caller)
        <3>1. Top \in Activation /\ Top.pc = p /\ Top = stack[Len(stack)]
            BY <1>0, <2>1, TopTyped
        <3>2. Top.rc \in Results \cup {"OK"}
            BY <3>1 DEF Activation
        <3>3. Top.rc # "CONTINUE"
            BY <3>2, SessionAssumption DEF Result
        <3>4. QED BY <1>0, <2>1, <3>1, <3>3, ReturnStack, ReturnBelow
    <2>3. ASSUME Len(stack) > 1, Caller.pc = "stepped", Caller.kind \in Alone, Top.rc = "OK"
          PROVE  Answered(Top')
        <3>1. Len(stack) \in 2 .. Len(stack)
            BY <1>0, <2>3
        <3>2. StepAnswers(Len(stack))
            BY <3>1 DEF OwnLast
        <3>3. Answered(Caller)
            BY <2>1, <2>2, <2>3, <3>2 DEF StepAnswers, Caller
        <3>4. QED BY <2>2, <2>3, <3>3
    <2>4. QED BY <1>0, <2>2, <2>3, OwnReturns
<1>4. CASE StepBad \/ HandleFatalNoMailbox \/ Recovered
    <2>1. \E p, res : At(p) /\ Return(res) /\ (p \notin StepPcs \/ res = "BAD")
        BY <1>4 DEF StepBad, HandleFatalNoMailbox, Recovered, StepPcs
    <2>2. QED BY <1>1, <2>1
<1>5. CASE HandleFatal
    <2>1. At("fatal") /\ stack # <<>> /\ Top.pc = "fatal" /\ DOMAIN stack = 1 .. Len(stack)
        BY <1>0, <1>5 DEF HandleFatal, At
    <2>2. PICK stk : stk = Lost(stack)
        OBVIOUS
    <2>3. Noted(stack, stk)
        BY <1>0, <2>2, LostNoted
    <2>4. /\ stk # <<>> /\ stk \in Seq(Activation) /\ Len(stk) = Len(stack)
          /\ \A u, pc, f : Calls(stk, u, pc, f) => Calls(stack, u, pc, f)
          /\ \A u : Returns(stk, u) => Returns(stack, u)
        BY <1>0, <2>1, <2>3, NotedSteps
    <2>5. \A i \in 1 .. Len(stack) - 1 : stk[i].rc = stack[i].rc /\ (Answered(stack[i]) => Answered(stk[i]))
        <3>1. \A i \in 1 .. Len(stack) - 1 : i \in DOMAIN stack
            BY <1>0, <2>1
        <3>2. QED BY <1>0, <2>2, <3>1, LostKeeps
    <2>6. CASE MayLogin
        <3>1. stack' = Append([stk EXCEPT ![Len(stk)].pc = "recovered"], Login)
            BY <1>5, <2>2, <2>6 DEF HandleFatal
        <3>2. "recovered" \in Pcs /\ "OK" \in Results \cup {"OK"} /\ Login \in Activation /\ Login.pc = "login"
            BY FramesTyped DEF Pcs
        <3>3. Calls(stk, stack', "recovered", Login)
            BY <2>4, <3>1, <3>2, TopAt
        <3>4. Calls(stack, stack', "recovered", Login)
            BY <2>4, <3>3
        <3>5. PICK h : h = [stk[Len(stk)] EXCEPT !.pc = "recovered"]
            OBVIOUS
        <3>6. PICK w : w = [stk EXCEPT ![Len(stk)] = h]
            OBVIOUS
        <3>7. [stk EXCEPT ![Len(stk)].pc = "recovered"] = w
            BY <2>4, <3>5, <3>6
        <3>8. h \in Activation
            <4>1. stk[Len(stk)] \in Activation
                BY <2>4
            <4>2. QED BY <3>2, <3>5, <4>1 DEF Activation
        <3>9. w \in Seq(Activation) /\ Len(w) = Len(stk) /\ \A i \in 1 .. Len(stk) - 1 : w[i] = stk[i]
            BY <2>4, <3>6, <3>8
        <3>10. \A i \in 1 .. Len(stk) - 1 : stack'[i] = stk[i]
            BY <3>1, <3>7, <3>9
        <3>11. Below
            BY <2>4, <2>5, <3>10 DEF Below
        <3>12. QED BY <1>0, <3>2, <3>4, <3>11, OwnCalls
    <2>7. CASE ~MayLogin
        <3>1. stack' = SubSeq(stk, 1, Len(stk) - 1)
            BY <1>5, <2>2, <2>7 DEF HandleFatal
        <3>2. Returns(stack, stack')
            BY <2>4, <3>1, TopReturns
        <3>3. \A i \in 1 .. Len(stk) - 1 : stack'[i] = stk[i]
            BY <2>4, <3>1, ButLast
        <3>4. Below /\ Top.pc \notin StepPcs
            BY <2>1, <2>4, <2>5, <3>3 DEF Below, StepPcs
        <3>5. QED BY <1>0, <3>2, <3>4, OwnReturns
    <2>8. QED BY <2>6, <2>7
<1>6. QED BY <1>2, <1>3, <1>4, <1>5 DEF FinishStep, FatalStep

\* imap_login() waits for no command itself.
LEMMA OwnLogin ==
    ASSUME SessionInv, OwnLast, LoginStep
    PROVE  OwnLast'
<1>0. /\ Types /\ CallGraph(stack) /\ stack \in Seq(Activation)
    BY DEF SessionInv, ControlInv, Types
<1>1. ASSUME NEW p, At(p), NEW res, Return(res), p \notin StepPcs PROVE OwnLast'
    <2>1. Returns(stack, stack') /\ Top.pc \notin StepPcs /\ Below
        BY <1>0, <1>1, ReturnStack, ReturnBelow, TopTyped
    <2>2. QED BY <1>0, <2>1, OwnReturns
<1>2. ASSUME NEW p, At(p), NEW pc \in LoginPcs, Goto(pc) PROVE OwnLast'
    <2>1. /\ GoesOn(stack, stack', pc) /\ Below
          /\ pc \notin {"read", "stepped", "poll", "wait", "send", "finish", "fetched"}
        BY <1>0, <1>2, GotoStack, GotoBelow DEF Pcs, LoginPcs
    <2>2. QED BY <1>0, <2>1, OwnGoesOn
<1>3. ASSUME NEW p, At(p), NEW kind \in {"sync", "single", "queue", "start", "flush"}, NEW pc \in LoginPcs,
             Call(Exec(kind), pc)
      PROVE  OwnLast'
    <2>1. Exec(kind) \in Activation /\ Exec(kind).pc \in {"single", "start"}
        BY FramesTyped DEF Kinds
    <2>2. Calls(stack, stack', pc, Exec(kind)) /\ Below /\ pc \notin {"finish", "fetched"}
        BY <1>0, <1>3, <2>1, CallStack, CallBelow DEF Pcs, LoginPcs
    <2>3. QED BY <1>0, <2>1, <2>2, OwnCalls
<1>4. CASE OpenConnection
    <2>1. At("login") /\ Call(Step, "greeted") /\ "greeted" \in Pcs
        BY <1>4 DEF OpenConnection, Pcs
    <2>2. Calls(stack, stack', "greeted", Step) /\ Step.pc = "read" /\ Below
        BY <1>0, <2>1, CallStack, CallBelow, FramesTyped
    <2>3. QED BY <1>0, <2>2, OwnCalls
<1>5. CASE OpenFails \/ Capable \/ Secured \/ Authenticated
    <2>1. \E p, pc : At(p) /\ pc \in LoginPcs /\ Goto(pc)
        BY <1>5 DEF OpenFails, Capable, Secured, Authenticated, LoginPcs
    <2>2. QED BY <1>2, <2>1
<1>6. CASE Bail
    <2>1. Goto("auth") /\ "auth" \in LoginPcs /\ \E p : At(p)
        BY <1>6 DEF Bail, LoginPcs
    <2>2. QED BY <1>2, <2>1
<1>7. CASE Greeted \/ Preauth \/ StartTls \/ TlsDone
    <2>1. \E p, pc : /\ At(p) /\ pc \in LoginPcs
                     /\ Goto(pc) \/ \E kind \in {"sync", "single", "queue", "start", "flush"} : Call(Exec(kind), pc)
        BY <1>7 DEF Greeted, Preauth, StartTls, TlsDone, LoginPcs
    <2>2. QED BY <1>2, <1>3, <2>1
<1>8. CASE Authenticate \/ PostLogin \/ Compress \/ Enable \/ List \/ Flush \/ Select
    <2>1. \E p, pc : /\ At(p) /\ pc \in LoginPcs
                     /\ Goto(pc) \/ \E kind \in {"sync", "single", "queue", "start", "flush"} : Call(Exec(kind), pc)
        BY <1>8 DEF Authenticate, PostLogin, Compress, Enable, List, Flush, Select, LoginPcs
    <2>2. QED BY <1>2, <1>3, <2>1
<1>9. CASE LoginDone
    <2>1. At("done") /\ "done" \notin StepPcs /\ \E res : Return(res)
        BY <1>9 DEF LoginDone, StepPcs
    <2>2. QED BY <1>1, <2>1
<1>10. QED BY <1>4, <1>5, <1>6, <1>7, <1>8, <1>9 DEF LoginStep

\* Neither do the callers.
LEMMA OwnCaller ==
    ASSUME SessionInv, OwnLast, MailboxStep \/ UserStep
    PROVE  OwnLast'
<1>0. /\ Types /\ CallGraph(stack) /\ stack \in Seq(Activation)
    BY DEF SessionInv, ControlInv, Types
<1>1. ASSUME NEW p, At(p), NEW pc \in MailPcs, Goto(pc) PROVE OwnLast'
    <2>1. /\ GoesOn(stack, stack', pc) /\ Below
          /\ pc \notin {"read", "stepped", "poll", "wait", "send", "finish", "fetched"}
        BY <1>0, <1>1, GotoStack, GotoBelow DEF Pcs, MailPcs
    <2>2. QED BY <1>0, <2>1, OwnGoesOn
<1>2. ASSUME NEW p, At(p), NEW f \in Activation, f.pc \in {"start", "login"}, NEW pc \in MailPcs, Call(f, pc)
      PROVE  OwnLast'
    <2>1. Calls(stack, stack', pc, f) /\ Below /\ pc \notin {"finish", "fetched"}
        BY <1>0, <1>2, CallStack, CallBelow DEF Pcs, MailPcs
    <2>2. QED BY <1>0, <1>2, <2>1, OwnCalls
<1>3. ASSUME NEW f, Begin(f), f.pc \in {"start", "read", "finish", "open", "close"}
      PROVE  OwnLast'
    <2>1. stack' = <<f>>
        BY <1>3 DEF Begin
    <2>2. Len(stack') = 1 /\ Top' = f
        BY <2>1 DEF Top
    <2>3. QED BY <1>3, <2>2 DEF OwnLast, At, Within
<1>4. CASE OpenQueue \/ OpenSelect \/ CloseCommand \/ AccountFreed
    <2>1. /\ \A kind \in {"queue", "loop", "sync"} : Exec(kind) \in Activation /\ Exec(kind).pc = "start"
          /\ Login \in Activation /\ Login.pc = "login"
        BY FramesTyped DEF Kinds
    <2>2. PICK p, pc : /\ At(p) /\ pc \in MailPcs
                       /\ \/ Goto(pc) \/ Call(Login, pc)
                          \/ \E kind \in {"queue", "loop", "sync"} : Call(Exec(kind), pc)
        BY <1>4 DEF OpenQueue, OpenSelect, CloseCommand, AccountFreed, MailPcs
    <2>3. QED BY <1>1, <1>2, <2>1, <2>2
<1>5. CASE AccountAdded \/ Opened \/ CloseFatal \/ Closed
    <2>1. PICK p \in MailPcs : At(p) /\ Return("none")
        BY <1>5 DEF AccountAdded, Opened, CloseFatal, Closed, MailPcs
    <2>2. Returns(stack, stack') /\ Below /\ Top.pc \notin StepPcs
        BY <1>0, <2>1, ReturnStack, ReturnBelow, TopTyped DEF MailPcs, StepPcs
    <2>3. QED BY <1>0, <2>2, OwnReturns
<1>6. ASSUME NEW kind \in Ops, UserExec(kind) PROVE OwnLast'
    <2>1. kind \in Kinds \ {"single"}
        BY SessionAssumption DEF Kinds
    <2>2. Begin(Exec(kind)) /\ Exec(kind).pc = "start"
        BY <1>6, <2>1, FramesTyped DEF UserExec
    <2>3. QED BY <1>3, <2>2
<1>7. CASE CheckIdle \/ CheckRead \/ CheckFinish \/ OpenMailbox \/ CloseMailbox
    <2>1. PICK f : Begin(f) /\ f.pc \in {"start", "read", "finish", "open", "close"}
        BY <1>7, FramesTyped DEF CheckIdle, CheckRead, CheckFinish, OpenMailbox, CloseMailbox, Frame, Kinds
    <2>2. QED BY <1>3, <2>1
<1>8. QED BY <1>4, <1>5, <1>6, <1>7 DEF MailboxStep, UserStep

\* The order in which a server answers is its own.
LEMMA SameOrder == [Next]_vars => inOrder' = inOrder
<1>1. ExecStep => inOrder' = inOrder
    BY DEF ExecStep, SingleDrain, CmdStart, Drained, Enqueue, StillFull, SendNothing, Send, SendFails,
       StartFail, RetFatal, PollReady, PollTimeout, Wait, Stepped, Disconnect, connVars
<1>2. ReadStep => inOrder' = inOrder
    BY DEF ReadStep, StepFatal, ReadError, ReadContinuation, ReadUntagged, ReadTagged, Disconnect, connVars
<1>3. FinishStep \/ FatalStep => inOrder' = inOrder
    BY DEF FinishStep, FinishFetch, Finish, Fetched, StepBad, FatalStep, HandleFatalNoMailbox, HandleFatal,
       Recovered, CloseConnection, Disconnect, connVars
<1>4. LoginStep => inOrder' = inOrder
    BY DEF LoginStep, OpenConnection, OpenFails, Bail, Greeted, Preauth, Capable, StartTls, TlsDone, Secured,
       Authenticate, Authenticated, PostLogin, Compress, Enable, List, Flush, Select, LoginDone,
       CloseConnection, Disconnect, connVars
<1>5. MailboxStep \/ UserStep => inOrder' = inOrder
    BY DEF MailboxStep, AccountAdded, AccountFreed, OpenQueue, OpenSelect, Opened, CloseCommand, CloseFatal,
       Closed, UserStep, UserExec, CheckIdle, CheckRead, CheckFinish, OpenMailbox, CloseMailbox,
       CloseConnection, Disconnect, connVars
<1>6. UNCHANGED vars => inOrder' = inOrder
    BY DEF vars, connVars
<1>7. QED BY <1>1, <1>2, <1>3, <1>4, <1>5, <1>6 DEF Next, ClientStep

\* What imap_exec() returns is the result of its loop.
LEMMA Reported ==
    ASSUME SessionInv, OwnInv, [Next]_vars, SuccessIsAnswered
    PROVE  SuccessIsAnswered'
<1>0. Types /\ NoRet.kind = "none" /\ "none" \notin Alone /\ Alone = {"sync", "poll", "single"}
    BY DEF SessionInv, ControlInv, NoRet, Alone
<1>1. SUFFICES ASSUME inOrder, ret'.kind \in Alone, ret'.res = "SUCCESS" PROVE ret'.fate = "OK"
    BY <1>0, SameOrder DEF SuccessIsAnswered
<1>2. CASE UNCHANGED vars
    BY <1>0, <1>1, <1>2 DEF vars, SuccessIsAnswered
<1>3. ASSUME NEW p, At(p), NEW res, Return(res), res # "SUCCESS" PROVE FALSE
    BY <1>0, <1>1, <1>3, ReturnStack
<1>4. ret' # NoRet
    BY <1>0, <1>1
<1>5. CASE ExecStep
    <2>1. CASE SingleDrain \/ CmdStart \/ Drained \/ StillFull \/ SendNothing \/ SendFails \/ PollReady \/ PollTimeout \/ Wait
        BY <1>4, <2>1 DEF SingleDrain, CmdStart, Drained, StillFull, SendNothing, SendFails, PollReady,
            PollTimeout, Wait, Goto, Call
    <2>2. CASE Enqueue
        <3>1. CASE Top.kind = "queue"
            <4>1. ret'.kind = "queue"
                BY <1>0, <2>2, <3>1, ReturnStack DEF Enqueue
            <4>2. QED BY <1>0, <1>1, <4>1
        <3>2. CASE Top.kind # "queue"
            BY <1>4, <2>2, <3>2 DEF Enqueue
        <3>3. QED BY <3>1, <3>2
    <2>3. CASE Send
        <3>1. Top.kind = "start" => At("send") /\ Return("OK")
            BY <2>3 DEF Send
        <3>2. Top.kind # "start" => ret' = NoRet
            BY <2>3 DEF Send
        <3>3. QED BY <1>3, <1>4, <3>1, <3>2
    <2>4. CASE StartFail
        <3>1. At("startfail") /\ (Return("BAD") \/ ret' = NoRet)
            BY <2>4 DEF StartFail, Goto, Call
        <3>2. QED BY <1>3, <1>4, <3>1
    <2>5. CASE RetFatal
        BY <1>3, <2>5 DEF RetFatal
    <2>6. CASE Stepped
        <3>1. At("stepped") /\ ~WaitAgain(Top.kind)
            BY <1>4, <2>6 DEF Stepped, Goto
        <3>2. PICK res : Return(res) /\ (Top.kind \notin {"loop", "idle"} => res = ExecResult(ret.res))
            BY <2>6, <3>1 DEF Stepped
        <3>3. ret'.res = res /\ ret'.kind = Top.kind /\ ret'.fate = Top.fate
            BY <1>0, <3>1, <3>2, ReturnStack
        <3>4. Top.kind \in Alone /\ ExecResult(ret.res) = "SUCCESS"
            BY <1>0, <1>1, <3>2, <3>3
        <3>5. ret.res = "OK"
            BY <3>4 DEF ExecResult
        <3>6. Answered(Top)
            BY <1>1, <3>1, <3>4, <3>5 DEF OwnInv, OwnLast
        <3>7. QED BY <3>3, <3>6 DEF Answered
    <2>7. QED BY <1>5, <2>1, <2>2, <2>3, <2>4, <2>5, <2>6 DEF ExecStep
<1>6. CASE ReadStep
    <2>1. CASE StepFatal \/ ReadError
        BY <1>4, <2>1 DEF StepFatal, ReadError, Call
    <2>2. CASE ReadContinuation
        BY <1>3, <2>2 DEF ReadContinuation
    <2>3. CASE ReadUntagged
        <3>1. At("read") /\ (Return("CONTINUE") \/ ret' = NoRet)
            BY <2>3 DEF ReadUntagged, Scan
        <3>2. QED BY <1>3, <1>4, <3>1
    <2>4. ASSUME NEW k \in 1 .. Slots, NEW r \in Results, ReadTagged(k, r) PROVE FALSE
        <3>1. ret' = [kind |-> "none", res |-> "CONTINUE", fate |-> "none"]
            BY <1>4, <2>4 DEF ReadTagged
        <3>2. QED BY <1>1, <3>1
    <2>5. QED BY <1>6, <2>1, <2>2, <2>3, <2>4 DEF ReadStep
<1>7. CASE FinishStep \/ FatalStep
    <2>1. CASE FinishFetch \/ HandleFatal
        BY <1>4, <2>1 DEF FinishFetch, HandleFatal, Call
    <2>2. CASE Finish \/ Fetched
        <3>1. PICK p : At(p) /\ Return(Top.rc)
            BY <2>2 DEF Finish, Fetched
        <3>2. Top \in Activation
            BY <1>0, <3>1, TopTyped
        <3>3. Top.rc # "SUCCESS"
            BY <3>2, SessionAssumption DEF Activation, Result
        <3>4. QED BY <1>3, <3>1, <3>3
    <2>3. CASE StepBad \/ HandleFatalNoMailbox \/ Recovered
        BY <1>3, <2>3 DEF StepBad, HandleFatalNoMailbox, Recovered
    <2>4. QED BY <1>7, <2>1, <2>2, <2>3 DEF FinishStep, FatalStep
<1>8. CASE LoginStep
    <2>1. CASE LoginDone
        <3>1. PICK res : At("done") /\ Return(res) /\ res \in {"OK", "BAD"}
            BY <2>1 DEF LoginDone
        <3>2. QED BY <1>3, <3>1
    <2>2. CASE ~LoginDone
        BY <1>4, <1>8, <2>2 DEF LoginStep, OpenConnection, OpenFails, Bail, Greeted, Preauth, Capable, StartTls,
            TlsDone, Secured, Authenticate, Authenticated, PostLogin, Compress, Enable, List, Flush, Select,
            Goto, Call
    <2>3. QED BY <2>1, <2>2
<1>9. CASE MailboxStep \/ UserStep
    <2>1. CASE AccountAdded \/ Opened \/ CloseFatal \/ Closed
        BY <1>3, <2>1 DEF AccountAdded, Opened, CloseFatal, Closed
    <2>2. CASE AccountFreed \/ OpenQueue \/ OpenSelect \/ CloseCommand
        BY <1>4, <2>2 DEF AccountFreed, OpenQueue, OpenSelect, CloseCommand, Goto, Call
    <2>3. CASE UserStep
        BY <1>4, <2>3 DEF UserStep, UserExec, CheckIdle, CheckRead, CheckFinish, OpenMailbox, CloseMailbox, Begin
    <2>4. QED BY <1>9, <2>1, <2>2, <2>3 DEF MailboxStep
<1>10. QED BY <1>2, <1>5, <1>6, <1>7, <1>8, <1>9 DEF Next, ClientStep

\* A command that imap_exec() reports successful was answered with OK, itself
\* and on the connection it was sent on, when the server answers in order: for
\* every mix of commands, pipeline depth and failure, and although the code
\* looks only at the result of the last completion it has read.
THEOREM SuccessAnswered == Spec => []SuccessIsAnswered
<1>1. Init => OwnInv /\ SuccessIsAnswered
    <2> SUFFICES ASSUME Init PROVE OwnLast /\ SuccessIsAnswered
        BY DEF OwnInv
    <2>1. stack = <<Frame("added", "none"), Login>> /\ ret = NoRet
        BY DEF Init, NewAccount
    <2>2. Len(stack) = 2 /\ Top.pc = "login" /\ stack[2].pc = "login"
        BY <2>1 DEF Top, Frame, Login
    <2>3. OwnLast
        BY <2>2 DEF OwnLast, At, Within, StepAnswers
    <2>4. SuccessIsAnswered
        BY <2>1 DEF SuccessIsAnswered, NoRet
    <2>5. QED BY <2>3, <2>4
<1>2. SessionInv /\ SessionInv' /\ OwnInv /\ SuccessIsAnswered /\ [Next]_vars => (OwnInv /\ SuccessIsAnswered)'
    <2> SUFFICES ASSUME SessionInv, SessionInv', OwnInv, SuccessIsAnswered, [Next]_vars
                 PROVE  (OwnInv /\ SuccessIsAnswered)'
        OBVIOUS
    <2>1. SuccessIsAnswered'
        BY Reported
    <2>2. ASSUME inOrder PROVE OwnLast'
        <3>1. OwnLast /\ Owed'
            BY <2>2 DEF OwnInv, SessionInv
        <3>2. CASE Next
            BY <2>2, <3>1, <3>2, OwnExec, OwnRead, OwnFinish, OwnLogin, OwnCaller DEF Next, ClientStep
        <3>3. CASE UNCHANGED vars
            BY <3>1, <3>3 DEF OwnLast, StepAnswers, IsLast, Answered, At, Top, Within, Caller, vars, connVars
        <3>4. QED BY <3>2, <3>3
    <2>3. QED BY <2>1, <2>2, SameOrder DEF OwnInv
<1>3. QED BY <1>1, <1>2, SessionAlways, PTL DEF Spec
=============================================================================
