------------------------------- MODULE MCMbox -------------------------------
(* Lengths of messages and environments for instances of Mbox. *)
EXTENDS Mbox, TLC

\* All messages are alike.
OneBlock  == [m \in Message |-> 1]
TwoBlocks == [m \in Message |-> 2]

Env(messages, saveEmpty, rewrite, fails) ==
    [messages |-> messages, saveEmpty |-> saveEmpty, rewrite |-> rewrite,
     lockMayFail |-> fails, failAgain |-> rewrite]

\* Three messages in a mailbox of one client, and two in one that is shared
\* and removed when empty.
Both    == {Env(3, TRUE, FALSE, TRUE), Env(2, FALSE, TRUE, TRUE)}
Saved   == {Env(2, TRUE, FALSE, FALSE)}
Removed == {Env(2, FALSE, FALSE, FALSE)}

Symmetry == Permutations(Message)
=============================================================================
