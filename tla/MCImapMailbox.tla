---------------------------- MODULE MCImapMailbox ----------------------------
(* Instances of ImapMailbox. *)
EXTENDS ImapMailbox

World(user, others, push, idle, range, refuse) ==
    [user |-> user, others |-> others, push |-> push, idle |-> idle, range |-> range,
     refuse |-> refuse]

(***************************************************************************)
(* A user whose mailbox others only deliver to, polling and in IDLE; one   *)
(* who reads while others remove messages; one who only looks on while     *)
(* others do everything; and one whose changes the server may refuse.      *)
(***************************************************************************)
Scens == {
    World({"delete", "purge", "keep"}, {"deliver"}, "EXPUNGE", FALSE, "sent", FALSE),
    World({"flag", "keep"}, {"deliver"}, "EXPUNGE", TRUE, "start", FALSE),
    World({"read"}, {"deliver", "expunge"}, "VANISHED", FALSE, "sent", FALSE),
    World({}, {"deliver", "expunge"}, "EXPUNGE", TRUE, "bad", FALSE),
    World({}, {"deliver", "expunge", "flag"}, "EXPUNGE", FALSE, "sent", FALSE),
    World({"flag", "keep"}, {}, "EXPUNGE", FALSE, "bad", TRUE)}

\* Environments in which a property fails, see README.md.
Refusing == {World({"delete", "flag", "purge"}, {}, "EXPUNGE", FALSE, "sent", TRUE)}
Flagging == {World({"flag"}, {"flag"}, "EXPUNGE", FALSE, "sent", FALSE)}
Opening  == {World({"read"}, {"expunge"}, "EXPUNGE", FALSE, "sent", FALSE)}
Vanished == {World({}, {"deliver", "expunge"}, "VANISHED", TRUE, "sent", FALSE)}
Skipping == {World({}, {"deliver", "expunge"}, "EXPUNGE", FALSE, "start", FALSE)}
=============================================================================
