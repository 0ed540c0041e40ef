----------------------------- MODULE MCServices -----------------------------
(* The services with values for their constants.                           *)
EXTENDS Services, Sequences

MCNames == {<<"a">>, <<"a", "b", "a">>}
MCPaths == {<<>>, <<"a">>, <<"a", "a">>, <<"a", "b">>, <<"b", "a">>, <<"a", "b", "a">>,
            <<"b", "a", "b">>, <<"s">>}
MCBases == {<<>>, <<"b">>}
MCStatus == <<"s">>

(* Migrations 1 and 4 are the application's, and so is 2, which stores the *)
(* version itself; 3 is the library's.                                     *)
MCVersionOf == <<1, 2, 2, 3>>
MCMovesTo == <<0, 2, 0, 0>>

MCPackOf == [m1 |-> "p", m2 |-> "p", m3 |-> "none"]
MCHandlerOf == [r1 |-> "email", r2 |-> "email", r3 |-> "memory"]

(* A mail whose dots are all doubled, one with dots that are not, and one  *)
(* to nobody.                                                              *)
Mail(to, cc, bcc, body) == [to |-> to, cc |-> cc, bcc |-> bcc, body |-> body]
MCMails == {Mail(<<"A <a>", "b">>, <<>>, <<"c">>, <<"text", "dot", "text">>),
            Mail(<<"b">>, <<"A <a>">>, <<>>, <<"dot", "dot", "text", "dot">>),
            Mail(<<>>, <<>>, <<>>, <<"dotted">>)}
MCToUser == [x \in {"A <a>", "b", "c"} |-> IF x = "A <a>" THEN "a" ELSE x]

=============================================================================
