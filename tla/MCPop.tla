-------------------------------- MODULE MCPop --------------------------------
(* Instances of Pop. *)
EXTENDS Pop, TLC

World(user, removes, refuses, letters) ==
    [user |-> user, removes |-> removes, refuses |-> refuses, letters |-> letters]

(***************************************************************************)
(* A user who deletes, changes his mind and fetches, and others who remove *)
(* messages as well; one who reads and has every lost connection restored; *)
(* servers that refuse to delete or to end the session, next to a user who *)
(* does not change his mind, and to log in or to list, next to one who     *)
(* deletes nothing.                                                        *)
(***************************************************************************)
Worlds == {
    World({"delete", "undelete"}, TRUE, {}, 3),
    World({"read", "delete", "insist"}, FALSE, {}, 3),
    World({"fetch"}, TRUE, {"DELE", "QUIT"}, 3),
    World({"delete"}, FALSE, {"DELE", "QUIT"}, 2),
    World({}, FALSE, {"LOGIN", "STAT", "UIDL"}, 2)}

\* Environments in which a property fails, see README.md.
Sharing  == {World({"read"}, TRUE, {}, 3)}
Doubting == {World({"delete", "undelete"}, FALSE, {"DELE"}, 2)}
Unlisted == {World({"delete"}, FALSE, {"UIDL"}, 2)}
Unsized  == {World({"delete"}, FALSE, {"STAT"}, 3)}

Symmetry == Permutations(Letter)
=============================================================================
