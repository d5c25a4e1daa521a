-------------------------------- MODULE MCMh --------------------------------
(* Instances of Mh. *)
EXTENDS Mh, TLC

World(saver, others, letters) ==
    [saver |-> saver, letters |-> letters,
     removes |-> "removes" \in others, reads |-> "reads" \in others,
     midway |-> "midway" \in others, dies |-> "dies" \in others,
     deletes |-> "deletes" \in others, edits |-> "edits" \in others]

(***************************************************************************)
(* One NeoMutt that files, edits, deletes and is killed; with other        *)
(* programs that read, remove, or file while it reads; and with others     *)
(* that file, by each rule, while it saves.                                *)
(***************************************************************************)
Worlds == {
    World("self",  {"deletes", "dies"}, 2),
    World("self",  {"edits", "dies"}, 2),
    World("self",  {"deletes", "edits", "dies"}, 1),
    World("self",  {"reads", "edits"}, 2),
    World("inc",   {"reads"}, 2),
    World("inc",   {"removes", "reads", "deletes", "edits"}, 1),
    World("other", {"midway", "reads", "edits", "dies"}, 2),
    World("gap",   {"midway", "edits"}, 2)}

\* Environments in which a property fails, see README.md.
Removing  == {World("inc", {"removes"}, 1)}
Repeating == {World("self", {"deletes", "reads"}, 2)}

Symmetry == Permutations(Letter)
=============================================================================
