----------------------------- MODULE ImapSession -----------------------------
(***************************************************************************)
(* The control flow of one IMAP account: imap_exec(), cmd_start(),         *)
(* imap_cmd_step(), cmd_handle_fatal() and imap_login() call each other,   *)
(* and every wait for the server can end in a reconnection that runs the   *)
(* same functions again further up the stack.  The C stack is the variable *)
(* stack; a frame is an activation of one of these functions and its pc    *)
(* says what it does next.  The other party is the server: it owes an      *)
(* answer to every command in sent.                                        *)
(*                                                                         *)
(* The ring of commands is ImapRing.  One mailbox at a time is selected    *)
(* (prev_mailbox is NULL), and whether a mailbox may be closed on a lost   *)
(* connection (IMAP_REOPEN_ALLOW and the open count) is left open.         *)
(***************************************************************************)
EXTENDS ImapRing, Lists

CONSTANTS
    Ops,        \* kinds of imap_exec() and imap_cmd_start() the user issues
    Results,    \* completions the server gives, a subset of Result
    Orders,     \* the servers there are, by the value of inOrder
    DONE,       \* the line that ends IDLE
    Nil

ASSUME SessionAssumption ==
    /\ Results \subseteq Result
    /\ Orders \subseteq BOOLEAN
    /\ Ops \subseteq {"sync", "poll", "queue", "flush", "loop"}
    /\ Nil \notin Tag /\ DONE \notin Tag

VARIABLES
    state,      \* adata->state
    fatal,      \* adata->status = IMAP_FATAL
    recovering, \* adata->recovering
    mailbox,    \* adata->mailbox is set
    cmdbuf,     \* adata->cmdbuf: the tags, and DONE
    connUp,     \* the socket is open and the server is at the other end
    inOrder,    \* server: it answers commands in the order it got them
    sent,       \* server: tags of the commands it has received, not answered
    idle,       \* server: tag of the IDLE command it has not been told to end
    idling,     \* server: it has sent the continuation for that command
    stack,      \* activations, innermost last
    ret         \* what the activation that ended last returned

connVars == <<connUp, inOrder, sent, idle, idling>>
acctVars == <<state, fatal, recovering, mailbox>>
vars     == <<ringVars, acctVars, cmdbuf, connVars, stack, ret>>

States == <<"DISCONNECTED", "CONNECTED", "AUTHENTICATED", "SELECTED", "IDLE">>
Reached(s) == \E i, j \in DOMAIN States : States[i] = state /\ States[j] = s /\ i >= j

(***************************************************************************)
(* kind of an activation of imap_exec() and its likes:                     *)
(*   sync, poll   a command, without and with IMAP_CMD_POLL                *)
(*   queue        a command with IMAP_CMD_QUEUE                            *)
(*   flush, drain no command, without and with IMAP_CMD_POLL               *)
(*   single       a command with IMAP_CMD_SINGLE                           *)
(*   start        imap_cmd_start() alone                                   *)
(*   loop         imap_cmd_start(), then imap_cmd_step() until it ends     *)
(*   idle         imap_cmd_idle()                                          *)
(* own is the tag of the activation's command while its answer is due, and *)
(* fate is history: the answer to that command, or "lost" with the         *)
(* connection; for flush and drain, which answer the worst in the batch.   *)
(***************************************************************************)
Kinds  == {"sync", "poll", "queue", "flush", "drain", "single", "start", "loop", "idle", "none"}
HasCmd == Kinds \ {"flush", "drain", "none"}
Polls  == {"poll", "drain", "idle"}
Fates  == Results \cup {"none", "batch", "lost"}

Frame(pc, kind) == [pc |-> pc, kind |-> kind, own |-> Nil, fate |-> "none", rc |-> "OK"]
Exec(kind)      == Frame(IF kind = "single" THEN "single" ELSE "start", kind)
Step            == Frame("read", "none")
Fatal           == Frame("fatal", "none")
Login           == Frame("login", "none")

NoRet == [kind |-> "none", res |-> "none", fate |-> "none"]

Top     == stack[Len(stack)]
Caller  == stack[Len(stack) - 1]
At(pc)  == stack # <<>> /\ Top.pc = pc
With(f) == [stack EXCEPT ![Len(stack)] = f]

Goto(pc) ==
    /\ stack' = With([Top EXCEPT !.pc = pc])
    /\ ret' = NoRet
Call(f, pc) ==             \* call f, go on at pc when it has returned
    /\ stack' = Append(With([Top EXCEPT !.pc = pc]), f)
    /\ ret' = NoRet
Return(res) ==
    /\ stack' = SubSeq(stack, 1, Len(stack) - 1)
    /\ ret' = [kind |-> Top.kind, res |-> res, fate |-> Top.fate]

-----------------------------------------------------------------------------
(* imap_exec(), imap_cmd_start(), imap_cmd_idle() *)

SingleDrain ==             \* IMAP_CMD_SINGLE: "Process any existing commands"
    /\ At("single")
    /\ IF nextcmd # lastcmd THEN Call(Exec("drain"), "start") ELSE Goto("start")
    /\ UNCHANGED <<ringVars, acctVars, cmdbuf, connVars>>

CmdStart ==                \* cmd_start(), up to cmd_queue()
    /\ At("start")
    /\ IF fatal THEN Call(Fatal, "startfail")
       ELSE IF Top.kind \notin HasCmd THEN Goto("send")
       ELSE IF Full
            THEN Call(Exec(IF Top.kind \in Polls THEN "drain" ELSE "flush"), "drained")
            ELSE Goto("enqueue")
    /\ UNCHANGED <<ringVars, acctVars, cmdbuf, connVars>>

Drained ==                 \* cmd_queue() goes on unless the drain was an error
    /\ At("drained")
    /\ Goto(IF ret.res = "ERROR" THEN "startfail" ELSE "enqueue")
    /\ UNCHANGED <<ringVars, acctVars, cmdbuf, connVars>>

Enqueue ==                 \* cmd_queue(): cmd_new(), append to cmdbuf
    /\ At("enqueue") /\ ~Full
    /\ NewCommand
    /\ cmdbuf' = Append(cmdbuf, seqno)
    /\ IF Top.kind = "queue"
       THEN Return("SUCCESS")
       ELSE /\ stack' = With([Top EXCEPT !.pc = "send", !.own = seqno])
            /\ ret' = NoRet
    /\ UNCHANGED <<acctVars, connVars>>

StillFull ==               \* cmd_new() finds no slot
    /\ At("enqueue") /\ Full
    /\ Goto("startfail")
    /\ UNCHANGED <<ringVars, acctVars, cmdbuf, connVars>>

SendNothing ==
    /\ At("send") /\ cmdbuf = <<>>
    /\ Goto("startfail")
    /\ UNCHANGED <<ringVars, acctVars, cmdbuf, connVars>>

Disconnect ==
    /\ connUp' = FALSE /\ sent' = <<>> /\ idle' = Nil /\ idling' = FALSE
    /\ UNCHANGED inOrder

Unidle == state' = IF state = "IDLE" THEN "SELECTED" ELSE state

Delivered == AtPlaces(cmdbuf, {i \in DOMAIN cmdbuf : cmdbuf[i] # DONE})
Done      == \E i \in DOMAIN cmdbuf : cmdbuf[i] = DONE

\* The whole of cmdbuf goes out.  DONE ends the IDLE the server is in; a new
\* IDLE is the last command of the buffer.
Send ==
    /\ At("send") /\ cmdbuf # <<>> /\ connUp
    /\ sent' = sent \o Delivered
    /\ idle' = IF Top.kind = "idle" THEN Top.own ELSE IF Done THEN Nil ELSE idle
    /\ idling' = (idling /\ ~Done)
    /\ cmdbuf' = <<>>
    /\ Unidle
    /\ IF Top.kind = "start" THEN Return("OK")
       ELSE /\ stack' = With([Top EXCEPT
                            !.pc = IF Top.kind \in Polls THEN "poll" ELSE "wait",
                            !.fate = IF Top.kind \in {"flush", "drain"} THEN "batch" ELSE @])
            /\ ret' = NoRet
    /\ UNCHANGED <<ringVars, fatal, recovering, mailbox, connUp, inOrder>>

SendFails ==               \* the write fails and closes the socket
    /\ At("send") /\ cmdbuf # <<>>
    /\ Disconnect
    /\ cmdbuf' = <<>>
    /\ Unidle
    /\ Goto("startfail")
    /\ UNCHANGED <<ringVars, fatal, recovering, mailbox>>

\* Mutation: imap_exec() too ignores that its command was not sent.
StartFailIgnored ==
    /\ At("startfail")
    /\ IF Top.kind = "start" THEN Return("BAD") ELSE Goto("wait")
    /\ UNCHANGED <<ringVars, acctVars, cmdbuf, connVars>>

StartFail ==               \* callers of imap_cmd_start() ignore its result
    /\ At("startfail")
    /\ CASE Top.kind = "start" -> Return("BAD")
         [] Top.kind = "loop"  -> Goto("wait")
         [] OTHER              -> Call(Fatal, "retfatal")
    /\ UNCHANGED <<ringVars, acctVars, cmdbuf, connVars>>

RetFatal ==
    /\ At("retfatal") \/ At("timedout")
    /\ Return("FATAL")
    /\ UNCHANGED <<ringVars, acctVars, cmdbuf, connVars>>

PollReady ==
    /\ At("poll")
    /\ Goto("wait")
    /\ UNCHANGED <<ringVars, acctVars, cmdbuf, connVars>>

PollTimeout ==             \* no byte within $imap_poll_timeout
    /\ At("poll") /\ connUp
    /\ Call(Fatal, "timedout")
    /\ UNCHANGED <<ringVars, acctVars, cmdbuf, connVars>>

Wait ==
    /\ At("wait")
    /\ Call(Step, "stepped")
    /\ UNCHANGED <<ringVars, acctVars, cmdbuf, connVars>>

\* Mutation: the loop ends on success only.
WaitUntilOk(kind) == ret.res # "OK"

WaitAgain(kind) == ret.res = "CONTINUE" /\ ~(kind = "single" /\ nextcmd = lastcmd)

\* Mutation: only a fatal status makes a failed step a failure.
ExecResultOnlyFatal(rc) ==
    CASE rc = "NO"               -> "ERROR"
      [] rc \notin {"OK", "NO"} /\ fatal -> "FATAL"
      [] OTHER                   -> "SUCCESS"

ExecResult(rc) ==
    CASE rc = "OK"              -> "SUCCESS"
      [] rc # "OK" /\ rc # "NO" /\ fatal -> "FATAL"
      [] OTHER                  -> "ERROR"

Stepped ==                 \* imap_cmd_step() has returned to its loop
    /\ At("stepped")
    /\ IF WaitAgain(Top.kind) THEN Goto("wait")
       ELSE Return(CASE Top.kind = "loop" -> ret.res
                     [] Top.kind = "idle" -> IF ret.res \in {"OK", "RESPOND"} THEN "OK" ELSE "BAD"
                     [] OTHER -> ExecResult(ret.res))
    /\ IF Top.kind = "idle" /\ ret.res = "RESPOND"
       THEN state' = "IDLE" /\ cmdbuf' = Append(cmdbuf, DONE)
       ELSE UNCHANGED <<state, cmdbuf>>
    /\ UNCHANGED <<ringVars, fatal, recovering, mailbox, connVars>>

-----------------------------------------------------------------------------
(* imap_cmd_step() and imap_cmd_finish() *)

StepFatal ==
    /\ At("read") /\ fatal
    /\ Call(Fatal, "bad")
    /\ UNCHANGED <<ringVars, acctVars, cmdbuf, connVars>>

ReadError ==               \* end of file or read error closes the socket;
    /\ At("read") /\ ~fatal \* an untagged BYE announces that and ends alike
    /\ Disconnect
    /\ Call(Fatal, "bad")
    /\ UNCHANGED <<ringVars, acctVars, cmdbuf>>

ReadContinuation ==        \* "+": the server is ready to idle
    /\ At("read") /\ ~fatal /\ connUp
    /\ idle # Nil /\ ~idling
    /\ inOrder => Head(sent) = idle
    /\ idling' = TRUE
    /\ Return("RESPOND")
    /\ UNCHANGED <<ringVars, acctVars, cmdbuf, connUp, inOrder, sent, idle>>

\* The end of the scan for a line that completes no command, or with rc one.
Scan(running, rc) ==
    IF running # {} THEN Return("CONTINUE")
    ELSE /\ stack' = With([Top EXCEPT !.pc = "finish", !.rc = rc])
         /\ ret' = NoRet

ReadUntagged ==            \* server data; the greeting is such a line too
    /\ At("read") /\ ~fatal /\ connUp
    /\ Scan({i \in Scanned : IsNew(i)}, "OK")
    /\ UNCHANGED <<ringVars, acctVars, cmdbuf, connVars>>

\* history: the activations whose command is answered, or was in the batch
Mark(stk, t, r) ==
    [i \in DOMAIN stk |->
        IF stk[i].own = t THEN [stk[i] EXCEPT !.own = Nil, !.fate = r]
        ELSE IF stk[i].fate = "batch" /\ r # "OK" THEN [stk[i] EXCEPT !.fate = r]
        ELSE stk[i]]

Without(s, k) == SubSeq(s, 1, k - 1) \o SubSeq(s, k + 1, Len(s))

\* The server completes the k-th command it owes.  It refuses an IDLE that is
\* not ended by DONE but by the next command.
ReadTagged(k, r) ==
    /\ At("read") /\ ~fatal /\ connUp
    /\ k \in DOMAIN sent /\ (inOrder => k = 1)
    /\ IF idling THEN sent[k] = idle /\ Len(sent) > 1 /\ r # "OK"
       ELSE sent[k] = idle => r # "OK"
    /\ Complete(sent[k], r)
    /\ sent' = Without(sent, k)
    /\ idle' = IF idle = sent[k] THEN Nil ELSE idle
    /\ LET marked == Mark(stack, sent[k], r)
       IN  IF Running(sent[k]) # {}
           THEN /\ stack' = SubSeq(marked, 1, Len(stack) - 1)
                /\ ret' = [kind |-> "none", res |-> "CONTINUE", fate |-> "none"]
           ELSE /\ stack' = [marked EXCEPT ![Len(stack)].pc = "finish",
                                           ![Len(stack)].rc = r]
                /\ ret' = NoRet
    /\ idling' = FALSE
    /\ UNCHANGED <<acctVars, cmdbuf, connUp, inOrder>>

Fetching == \E i \in DOMAIN stack : stack[i].pc = "fetched"

\* imap_cmd_finish() is only called when the status is not fatal: its branch
\* for IMAP_FATAL is never taken.
FinishFetch ==             \* new mail pending: imap_read_headers()
    /\ At("finish") /\ ~fatal
    /\ Reached("SELECTED") /\ mailbox /\ ~Fetching
    /\ Call(Exec("loop"), "fetched")
    /\ UNCHANGED <<ringVars, acctVars, cmdbuf, connVars>>

Finish ==
    /\ At("finish") /\ ~fatal
    /\ Return(Top.rc)
    /\ UNCHANGED <<ringVars, acctVars, cmdbuf, connVars>>

Fetched ==                 \* adata->status = 0
    /\ At("fetched")
    /\ fatal' = FALSE
    /\ Return(Top.rc)
    /\ UNCHANGED <<ringVars, state, recovering, mailbox, cmdbuf, connVars>>

StepBad ==
    /\ At("bad")
    /\ Return("BAD")
    /\ UNCHANGED <<ringVars, acctVars, cmdbuf, connVars>>

-----------------------------------------------------------------------------
(* cmd_handle_fatal(), imap_close_connection() *)

Lost(stk) == [i \in DOMAIN stk |-> IF stk[i].own # Nil \/ stk[i].fate = "batch"
                                   THEN [stk[i] EXCEPT !.own = Nil, !.fate = "lost"]
                                   ELSE stk[i]]

CloseConnection ==         \* cmdbuf is not touched
    /\ ResetRing
    /\ state' = "DISCONNECTED" /\ fatal' = FALSE
    /\ Disconnect

HandleFatalNoMailbox ==    \* nothing to recover: the status stays fatal
    /\ At("fatal") /\ ~mailbox
    /\ fatal' = TRUE
    /\ Return("none")
    /\ UNCHANGED <<ringVars, state, recovering, mailbox, cmdbuf, connVars>>

\* Mutation: adata->recovering is not tested.
AlwaysLogin == TRUE

MayLogin == ~recovering

HandleFatal ==             \* close, and log in again unless that is under way
    /\ At("fatal") /\ mailbox
    /\ mailbox' \in IF Reached("SELECTED") THEN BOOLEAN ELSE {TRUE}
    /\ CloseConnection
    /\ recovering' = TRUE
    /\ ret' = NoRet
    /\ LET stk == Lost(stack)
       IN  stack' = IF MayLogin
                    THEN Append([stk EXCEPT ![Len(stk)].pc = "recovered"], Login)
                    ELSE SubSeq(stk, 1, Len(stk) - 1)
    /\ UNCHANGED cmdbuf

Recovered ==
    /\ At("recovered")
    /\ recovering' = FALSE
    /\ Return("none")
    /\ UNCHANGED <<ringVars, state, fatal, mailbox, cmdbuf, connVars>>

-----------------------------------------------------------------------------
(* imap_login(), imap_open_connection(); imap_login() is only called when   *)
(* the state is DISCONNECTED                                               *)

\* Mutation: imap_login() keeps what was queued.
NoPurge == cmdbuf' = cmdbuf

Purge == cmdbuf' = <<>>    \* "purge outstanding queued commands"

OpenConnection ==          \* the socket is open: read the greeting
    /\ At("login") /\ state = "DISCONNECTED"
    /\ Purge
    /\ connUp' = TRUE
    /\ state' = "CONNECTED"
    /\ Call(Step, "greeted")
    /\ UNCHANGED <<ringVars, fatal, recovering, mailbox, inOrder, sent, idle, idling>>

OpenFails ==
    /\ At("login") /\ state = "DISCONNECTED"
    /\ Purge
    /\ Goto("auth")
    /\ UNCHANGED <<ringVars, acctVars, connVars>>

Bail ==                    \* goto bail; refused STARTTLS may be fatal to us
    /\ \/ At("greeted")
       \/ At("capable") /\ ret.res # "SUCCESS"
       \/ At("tls")
       \/ At("tlsdone")
       \/ At("secured") /\ ret.res # "SUCCESS"
    /\ CloseConnection
    /\ Goto("auth")
    /\ UNCHANGED <<recovering, mailbox, cmdbuf>>

Greeted ==                 \* "* OK", with or without the capabilities
    /\ At("greeted") /\ ret.res = "OK"
    /\ Call(Exec("sync"), "capable") \/ Goto("tls")
    /\ UNCHANGED <<ringVars, acctVars, cmdbuf, connVars>>

Preauth ==                 \* "* PREAUTH"
    /\ At("greeted") /\ ret.res = "OK"
    /\ state' = "AUTHENTICATED"
    /\ Call(Exec("sync"), "secured") \/ Goto("auth")
    /\ UNCHANGED <<ringVars, fatal, recovering, mailbox, cmdbuf, connVars>>

Capable ==
    /\ At("capable") /\ ret.res = "SUCCESS"
    /\ Goto("tls")
    /\ UNCHANGED <<ringVars, acctVars, cmdbuf, connVars>>

StartTls ==                \* STARTTLS is not mandatory
    /\ At("tls")
    /\ Call(Exec("single"), "tlsdone") \/ Goto("auth")
    /\ UNCHANGED <<ringVars, acctVars, cmdbuf, connVars>>

TlsDone ==                 \* mutt_socket_empty() drops what has arrived
    /\ At("tlsdone") /\ ret.res # "FATAL"
    /\ \E k \in 0 .. Len(sent) : sent' = SubSeq(sent, k + 1, Len(sent))
    /\ IF ret.res = "SUCCESS" THEN Call(Exec("sync"), "secured") ELSE Goto("auth")
    /\ UNCHANGED <<ringVars, acctVars, cmdbuf, connUp, inOrder, idle, idling>>

Secured ==                 \* the CAPABILITY after TLS, or after PREAUTH
    /\ At("secured") /\ ret.res = "SUCCESS"
    /\ Goto("auth")
    /\ UNCHANGED <<ringVars, acctVars, cmdbuf, connVars>>

Authenticate ==            \* one method: LOGIN
    /\ At("auth")
    /\ IF state = "CONNECTED" THEN Call(Exec("sync"), "authdone") ELSE Goto("post")
    /\ UNCHANGED <<ringVars, acctVars, cmdbuf, connVars>>

Authenticated ==
    /\ At("authdone")
    /\ state' = IF ret.res = "SUCCESS" THEN "AUTHENTICATED" ELSE state
    /\ Goto("post")
    /\ UNCHANGED <<ringVars, fatal, recovering, mailbox, cmdbuf, connVars>>

PostLogin ==               \* CAPABILITY, whatever comes of it
    /\ At("post")
    /\ IF state = "AUTHENTICATED" THEN Call(Exec("sync"), "compress") ELSE Goto("done")
    /\ UNCHANGED <<ringVars, acctVars, cmdbuf, connVars>>

Compress ==
    /\ At("compress")
    /\ Call(Exec("sync"), "enable") \/ Goto("enable")
    /\ UNCHANGED <<ringVars, acctVars, cmdbuf, connVars>>

Enable ==                  \* ID, ENABLE UTF8, ENABLE QRESYNC: at most one here
    /\ At("enable")
    /\ Call(Exec("queue"), "list") \/ Goto("list")
    /\ UNCHANGED <<ringVars, acctVars, cmdbuf, connVars>>

List ==
    /\ At("list")
    /\ Call(Exec("queue"), "flush")
    /\ UNCHANGED <<ringVars, acctVars, cmdbuf, connVars>>

Flush ==
    /\ At("flush")
    /\ Call(Exec("flush"), "select")
    /\ UNCHANGED <<ringVars, acctVars, cmdbuf, connVars>>

Select ==                  \* imap_mbox_select(): the answer is not awaited
    /\ At("select")
    /\ IF mailbox
       THEN state' = "SELECTED" /\ Call(Exec("start"), "done")
       ELSE state' = state /\ Goto("done")
    /\ UNCHANGED <<ringVars, fatal, recovering, mailbox, cmdbuf, connVars>>

LoginDone ==
    /\ At("done")
    /\ Return(IF Reached("AUTHENTICATED") THEN "OK" ELSE "BAD")
    /\ UNCHANGED <<ringVars, acctVars, cmdbuf, connVars>>

-----------------------------------------------------------------------------
(* The callers: mailbox operations *)

NewAccount ==
    /\ RingInit
    /\ state = "DISCONNECTED" /\ fatal = FALSE /\ recovering = FALSE /\ mailbox = FALSE
    /\ cmdbuf = <<>>
    /\ inOrder \in Orders
    /\ connUp = FALSE /\ sent = <<>> /\ idle = Nil /\ idling = FALSE
    /\ ret = NoRet

Init ==                    \* imap_ac_add()
    /\ NewAccount
    /\ stack = <<Frame("added", "none"), Login>>

AccountAdded ==
    /\ At("added") /\ ret.res = "OK"
    /\ Return("none")
    /\ UNCHANGED <<ringVars, acctVars, cmdbuf, connVars>>

AccountFreed ==            \* the login failed: imap_adata_free(), try again
    /\ At("added") /\ ret.res # "OK"
    /\ CloseConnection /\ Purge
    /\ Call(Login, "added")
    /\ UNCHANGED <<recovering, mailbox>>

Begin(f) ==
    /\ stack = <<>>
    /\ stack' = <<f>>
    /\ ret' = NoRet

UserExec(kind) ==          \* flushes follow queued commands
    /\ kind = "flush" => Delivered # <<>>
    /\ Begin(Exec(kind))
    /\ UNCHANGED <<ringVars, acctVars, cmdbuf, connVars>>

CheckIdle ==               \* imap_check_mailbox(): enter IDLE, or renew it
    /\ mailbox
    /\ Begin(Exec("idle"))
    /\ UNCHANGED <<ringVars, acctVars, cmdbuf, connVars>>

CheckRead ==               \* imap_check_mailbox(): IDLE, and data has arrived
    /\ mailbox /\ state = "IDLE"
    /\ Begin(Step)
    /\ UNCHANGED <<ringVars, acctVars, cmdbuf, connVars>>

CheckFinish ==             \* imap_check_mailbox(): the call of imap_cmd_finish()
    /\ mailbox
    /\ Begin(Frame("finish", "none"))
    /\ UNCHANGED <<ringVars, acctVars, cmdbuf, connVars>>

OpenMailbox ==             \* imap_mbox_open()
    /\ ~mailbox
    /\ Begin(Frame("open", "none"))
    /\ mailbox' = TRUE /\ fatal' = FALSE
    /\ UNCHANGED <<ringVars, state, recovering, cmdbuf, connVars>>

OpenQueue ==               \* MYRIGHTS, STATUS, LSUB: at most one here
    /\ At("open")
    /\ Call(Exec("queue"), "opensel") \/ Goto("opensel")
    /\ UNCHANGED <<ringVars, acctVars, cmdbuf, connVars>>

OpenSelect ==              \* imap_mbox_select(), imap_cmd_step() till the end
    /\ At("opensel")
    /\ state' = "SELECTED"
    /\ Call(Exec("loop"), "opened")
    /\ UNCHANGED <<ringVars, fatal, recovering, mailbox, cmdbuf, connVars>>

Opened ==                  \* on failure mx_mbox_open() closes it again
    /\ At("opened")
    /\ \/ ret.res = "OK" /\ UNCHANGED <<state, mailbox>>
       \/ /\ state' = IF state = "SELECTED" THEN "AUTHENTICATED" ELSE state
          /\ mailbox' = FALSE
    /\ Return("none")
    /\ UNCHANGED <<ringVars, fatal, recovering, cmdbuf, connVars>>

CloseMailbox ==            \* imap_mbox_close()
    /\ mailbox
    /\ Begin(Frame("close", "none"))
    /\ UNCHANGED <<ringVars, acctVars, cmdbuf, connVars>>

CloseCommand ==            \* CLOSE, when nothing is marked deleted
    /\ At("close") /\ ~fatal /\ Reached("SELECTED")
    /\ Call(Exec("sync"), "closed") \/ Goto("closed")
    /\ UNCHANGED <<ringVars, acctVars, cmdbuf, connVars>>

CloseFatal ==
    /\ At("close") /\ (fatal \/ ~Reached("SELECTED"))
    /\ mailbox' = FALSE
    /\ Return("none")
    /\ UNCHANGED <<ringVars, state, fatal, recovering, cmdbuf, connVars>>

Closed ==
    /\ At("closed")
    /\ state' = "AUTHENTICATED" /\ mailbox' = FALSE
    /\ Return("none")
    /\ UNCHANGED <<ringVars, fatal, recovering, cmdbuf, connVars>>

-----------------------------------------------------------------------------

ExecStep ==
    \/ SingleDrain \/ CmdStart \/ Drained \/ Enqueue \/ StillFull \/ SendNothing
    \/ Send \/ SendFails \/ StartFail \/ RetFatal \/ PollReady \/ PollTimeout
    \/ Wait \/ Stepped

ReadStep ==
    \/ StepFatal \/ ReadError \/ ReadContinuation \/ ReadUntagged
    \/ \E k \in 1 .. Slots, r \in Results : ReadTagged(k, r)

FinishStep == FinishFetch \/ Finish \/ Fetched \/ StepBad

FatalStep == HandleFatalNoMailbox \/ HandleFatal \/ Recovered

LoginStep ==
    \/ OpenConnection \/ OpenFails \/ Bail \/ Greeted \/ Preauth
    \/ Capable \/ StartTls \/ TlsDone \/ Secured \/ Authenticate \/ Authenticated
    \/ PostLogin \/ Compress \/ Enable \/ List \/ Flush \/ Select \/ LoginDone

MailboxStep ==
    \/ AccountAdded \/ AccountFreed \/ OpenQueue \/ OpenSelect \/ Opened
    \/ CloseCommand \/ CloseFatal \/ Closed

UserStep ==
    \/ \E kind \in Ops : UserExec(kind)
    \/ CheckIdle \/ CheckRead \/ CheckFinish \/ OpenMailbox \/ CloseMailbox

ClientStep == ExecStep \/ FinishStep \/ FatalStep \/ LoginStep \/ MailboxStep

Next == ClientStep \/ ReadStep \/ UserStep

Spec == Init /\ [][Next]_vars

\* The server's side of a wait: the answers it owes, the greeting, and the line
\* that CheckRead has seen arrive.
Answer ==
    \/ \E k \in 1 .. Slots, r \in Results : ReadTagged(k, r)
    \/ ReadContinuation
    \/ ReadUntagged /\ (Len(stack) > 1 => Caller.pc = "greeted")

\* The client runs, a read of a closed socket fails at once, and the server
\* answers in the end, whatever it says before.
Fairness ==
    /\ WF_vars(ClientStep \/ StepFatal \/ (ReadError /\ ~connUp))
    /\ SF_vars(Answer)

LiveSpec == Spec /\ Fairness

-----------------------------------------------------------------------------
(* Properties *)

Pcs == {"single", "start", "drained", "enqueue", "send", "startfail", "retfatal",
        "timedout", "poll", "wait", "stepped", "read", "bad", "finish", "fetched",
        "fatal", "recovered", "login", "greeted", "capable", "tls",
        "tlsdone", "secured", "auth", "authdone", "post", "compress", "enable",
        "list", "flush", "select", "done", "added", "open", "opensel", "opened",
        "close", "closed"}

Elements(s) == {s[i] : i \in DOMAIN s}

\* Every value has its type; IDLE belongs to an unanswered command.
TypeOK ==
    /\ RingTypeOK
    /\ state \in Elements(States)
    /\ {fatal, recovering, mailbox, connUp, inOrder, idling} \subseteq BOOLEAN
    /\ cmdbuf \in Seq(Tag \cup {DONE})
    /\ sent \in Seq(Tag)
    /\ idle \in {Nil} \cup Elements(sent)
    /\ stack \in Seq([pc : Pcs, kind : Kinds, own : Tag \cup {Nil}, fate : Fates, rc : Results \cup {"OK"}])
    /\ ret \in [kind : Kinds, fate : Fates, res : {"none", "SUCCESS", "ERROR", "FATAL",
                  "OK", "NO", "BAD", "CONTINUE", "RESPOND"}]

\* While the connection is up, the commands whose answer the client awaits are
\* those the server has not answered and those still in cmdbuf, each once: no
\* command of an earlier connection is sent or waited for after a reconnection.
AwaitedAreOwed ==
    connUp => /\ NewTags = Elements(Delivered) \cup Elements(sent)
              /\ Cardinality(NewTags) = Len(Delivered) + Len(sent)

\* The server has something to say without hearing from the client first.
ServerOwesLine == sent # <<>> /\ (idling => Len(sent) > 1)

Reading(kinds) == At("read") /\ ~fatal /\ connUp /\ Len(stack) > 1 /\ Caller.kind \in kinds

\* imap_exec() and imap_cmd_idle() only wait while the server owes an answer:
\* no drained ring, cleared buffer or unended IDLE leaves them waiting forever.
ExecWaitsForAnswer ==
    Reading(Kinds \ {"none", "loop"}) => ServerOwesLine

\* The same for the functions that call imap_cmd_start() and then
\* imap_cmd_step() until it ends ("Given an IMAP command, send it to the
\* server", imap_cmd_start() in command.c).
LoopWaitsForAnswer == Reading({"loop"}) => ServerOwesLine

\* A command run by imap_exec() is reported successful only if the server
\* answered this command with OK, on the connection it was sent on.  The code
\* depends on the order of the answers: rc is that of the last line read.
SuccessIsAnswered ==
    inOrder /\ ret.kind \in {"sync", "poll", "single"} /\ ret.res = "SUCCESS" => ret.fate = "OK"

\* Every operation ends: no order of answers, timeouts and lost connections
\* leaves imap_exec(), imap_cmd_idle() or a recovery running for ever, as long
\* as the server answers what it is sent.
OperationsEnd == stack # <<>> ~> (stack = <<>> \/ At("added"))

\* Recovery does not recur: cmd_handle_fatal() logs in only when no login is
\* under way below it, so the depth of the calls is bounded.
OneRecovery ==
    /\ Cardinality({i \in DOMAIN stack : stack[i].pc = "recovered"}) <= 1
    /\ recovering = (\E i \in DOMAIN stack : stack[i].pc = "recovered")
=============================================================================
