----------------------------- MODULE MCThreads -----------------------------
(* Instances of Threads. *)
EXTENDS Threads

Mail(id, irt, refs, subject, reply) ==
    [id |-> id, irt |-> irt, refs |-> refs, subject |-> subject, reply |-> reply]

World(headers, user, duplicates, strict) ==
    [headers |-> headers, user |-> user, duplicates |-> duplicates, strict |-> strict]

Three == 1 .. 3

\* Three messages that refer to each other and to a fourth in any way.
Lists == {<<>>} \cup {<<i>> : i \in 1 .. 4} \cup {l \in (1 .. 4) \X (1 .. 4) : l[1] # l[2]}
Arbitrary ==
    {World([e \in Three |-> Mail(e, <<>>, refs[e], 1, FALSE)], {}, FALSE, TRUE) :
        refs \in {f \in [Three -> Lists] : (\A e \in Three : e \notin ToSet(f[e]))
                                        /\ Len(f[1]) < 2}}

\* Two subjects, replies and others, and at most one reference.
Short == {<<>>, <<1>>, <<2>>, <<4>>}
Subjects ==
    {World([e \in Three |-> Mail(e, refs[e], <<>>, IF e = other THEN 2 ELSE 1, reply[e])],
           {}, FALSE, FALSE) :
        refs \in {f \in [Three -> Short] : f[1] # <<2>> /\ \A e \in Three : e \notin ToSet(f[e])},
        reply \in [Three -> BOOLEAN], other \in {0, 2}}

\* The second and third message have the same id.
Doubles ==
    {World([e \in Three |-> Mail(IF e = 3 THEN 2 ELSE e, refs[e], <<>>, 1, TRUE)],
           {}, duplicates, strict) :
        refs \in [Three -> {<<>>, <<1>>, <<2>>, <<3>>}], duplicates \in BOOLEAN, strict \in BOOLEAN}

\* A conversation: 2 replies to 1, 3 and 4 to 2.
Talk(last, third, user) ==
    LET mail == <<Mail(1, <<>>, <<>>, 1, FALSE), Mail(2, <<1>>, <<1>>, 1, TRUE),
                  Mail(3, <<third>>, (IF third = 2 THEN <<>> ELSE <<third>>) \o <<2, 1>>, 1, TRUE),
                  Mail(4, <<2>>, <<2, 1>>, 1, TRUE)>>
    IN  World(SubSeq(mail, 1, last), user, FALSE, TRUE)

Talks == {Talk(4, 2, {"delete", "break"}), Talk(3, 2, {"rebuild", "delete", "break", "link"})}

All == Arbitrary \cup Subjects \cup Doubles \cup Talks

\* 3 replies to a message that is missing, which replied to 2.
Gap == {Talk(4, 5, {"delete", "break"})}

\* 3 and 4 reply to a message that is missing, and do not name the same parent of it.
Split == {World(<<Mail(1, <<>>, <<>>, 1, FALSE), Mail(2, <<1>>, <<1>>, 1, TRUE),
                  Mail(3, <<5>>, <<5, 2, 1>>, 1, TRUE), Mail(4, <<5>>, <<5, 1>>, 1, TRUE)>>,
                {"break"}, FALSE, TRUE)}
=============================================================================
