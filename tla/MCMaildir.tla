----------------------------- MODULE MCMaildir -----------------------------
(* Instances of Maildir. *)
EXTENDS Maildir, TLC

World(moves, refiles, midway, edits, letters) ==
    [moves |-> moves, refiles |-> refiles, midway |-> midway, edits |-> edits,
     letters |-> letters]

(***************************************************************************)
(* Other clients that mark and remove messages, that move them from new to *)
(* cur, and that only deliver: while NeoMutt reads, and in some worlds     *)
(* while it saves.  Two letters where nobody else touches them.            *)
(***************************************************************************)
Worlds == {
    World(FALSE, TRUE,  TRUE,  FALSE, 1),
    World(TRUE,  FALSE, TRUE,  FALSE, 1),
    World(FALSE, FALSE, TRUE,  TRUE,  1),
    World(FALSE, FALSE, TRUE,  FALSE, 2),
    World(FALSE, FALSE, FALSE, FALSE, 2),
    World(FALSE, TRUE,  FALSE, FALSE, 1)}

Moving   == {World(TRUE, FALSE, FALSE, FALSE, 1)}
Trashing == {World(FALSE, TRUE, FALSE, FALSE, 1)}

Symmetry == Permutations(Letter)
=============================================================================
