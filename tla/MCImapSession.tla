---------------------------- MODULE MCImapSession ----------------------------
(* Instances of ImapSession. *)
EXTENDS ImapSession
=============================================================================
