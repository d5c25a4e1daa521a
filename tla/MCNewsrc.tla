------------------------------ MODULE MCNewsrc ------------------------------
(* Instances of Newsrc. *)
EXTENDS Newsrc

World(user, others, server) == [user |-> user, others |-> others, server |-> server]

(***************************************************************************)
(* Newsreaders that respect each other's locks, on a server that posts,    *)
(* cancels and expires articles; and NeoMutt alone with a server that      *)
(* fails.                                                                  *)
(***************************************************************************)
Worlds == {
    World({"read", "unread", "nowrite"}, {"read", "unread"}, {"post", "cancel"}),
    World({"read", "catchup"}, {"read"}, {"expire"}),
    World({"subscribe", "uncatchup"}, {"read", "subscribe"}, {"post"}),
    World({"read", "unread", "nowrite", "uncatchup"}, {}, {"post", "cancel", "fail"})}

\* Environments in which a property fails, see README.md.
Two       == {World({"read"}, {"read", "neomutt"}, {"post"})}
Renaming  == {World({"read"}, {"read", "rename"}, {"post"})}
Hasty     == {World({"read"}, {"read", "hasty"}, {"post"})}
Failing   == {World({"read"}, {"read"}, {"post", "fail"})}
Catching  == {World({"catchup"}, {"read"}, {"post"})}
Abandoned == {World({"catchup", "nowrite"}, {}, {})}
Expiring  == {World({"read"}, {"read"}, {"post", "expire"})}
=============================================================================
