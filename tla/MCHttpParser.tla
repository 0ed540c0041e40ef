---------------------------- MODULE MCHttpParser ----------------------------
(* HttpParser with requests of every shape: a good or a bad start line, up *)
(* to two headers of every kind, the end of the head or none, and a body   *)
(* that is missing, short, exact or long.                                  *)
EXTENDS HttpParser

MCNumber == [length0 |-> 0, length1 |-> 1, length2 |-> 2]

LineOf(text) == <<text, "cr", "nl">>

MCStarts == {LineOf("start"), LineOf("other"), EmptyLine, <<"start", "nl">>}
MCHeaders == {LineOf(t) : t \in {"head", "wrong", "other"} \cup DOMAIN MCNumber} \cup {<<"nl">>}
MCHeads == {<<>>} \cup MCHeaders \cup {h \o g : h, g \in MCHeaders}
MCBodies == {<<>>, <<"b">>, <<"b", "nl">>, <<"b", "nl", "b">>}
MCStreams == {s \o h \o e \o b : s \in MCStarts, h \in MCHeads,
                                 e \in {EmptyLine, <<>>}, b \in MCBodies}

=============================================================================
