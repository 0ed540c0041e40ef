------------------------------ MODULE SmtpClient ------------------------------
(***************************************************************************)
(* SmtpClient::sendTextMail (smtpclient.cpp): the conversation one thread *)
(* of the pool holds with a mail server, reply by reply.  A reply is a    *)
(* chunk with the number its first three characters spell (0 when they    *)
(* spell none) and whether STARTTLS occurs in it; TCP may cut a reply in  *)
(* two chunks, and readAll() takes any number of the chunks that came.    *)
(* A line of the body is "text", "dot" (a lone dot) or "dotted" (a dot    *)
(* and more).  The setters may run while a mail is being sent.            *)
(***************************************************************************)
EXTENDS Naturals, Sequences, SequencesExt

CONSTANTS Mails,    \* the mails that may be sent: [to, cc, bcc, body]
          UserNames, Passwords,
          ToUser    \* addresses as written -> the bare address

VARIABLES settings,   \* SmtpClientPrivate: userName, password, connectionType
          session,    \* the locals of sendTextMail, "idle" before it runs
          toServer, toClient,   \* what is on its way: commands, chunks
          server      \* the mail server: offers STARTTLS, envelope, mails

vars == <<settings, session, toServer, toClient, server>>

Kinds == {"Plain", "Ssl", "StartTls"}

Logins == UserNames \X Passwords

Init == /\ settings = [userName |-> CHOOSE u \in UserNames : TRUE,
                       password |-> CHOOSE p \in Passwords : TRUE,
                       connectionType |-> "Plain"]
        /\ session = [state |-> "idle"]
        /\ toServer = <<>> /\ toClient = <<>>
        /\ server \in [offers : BOOLEAN, login : {<<>>}, rcpts : {<<>>},
                       mails : {<<>>}]

(* The setters: any thread, at any time. *)
SetUserName(u) == /\ settings.userName /= u
                  /\ settings' = [settings EXCEPT !.userName = u]
                  /\ UNCHANGED <<session, toServer, toClient, server>>

SetPassword(p) == /\ settings.password /= p
                  /\ settings' = [settings EXCEPT !.password = p]
                  /\ UNCHANGED <<session, toServer, toClient, server>>

SetConnectionType(k) ==
    /\ settings.connectionType /= k
    /\ settings' = [settings EXCEPT !.connectionType = k]
    /\ session' = IF session.state = "idle" THEN session
                  ELSE [session EXCEPT !.changed = TRUE]
    /\ UNCHANGED <<toServer, toClient, server>>

(* The envelope takes the bare address of everybody named in the header. *)
Recipients(mail) == [i \in 1..Len(mail.to \o mail.cc \o mail.bcc) |->
                        ToUser[(mail.to \o mail.cc \o mail.bcc)[i]]]

(* message.replace("\r\n.\r\n", "\r\n..\r\n"): the match takes the line   *)
(* end with it, so the dot after a doubled one is not seen, nor is a dot  *)
(* that ends the message.                                                  *)
Doubled(body) ==
    LET d[i \in 0..Len(body)] ==
            i > 0 /\ body[i] = "dot" /\ i < Len(body) /\ ~d[i - 1]
    IN  d

Content(body) == [i \in 1..Len(body) |->
                     IF Doubled(body)[i] THEN "doubled" ELSE body[i]]

(* sendTextMail: copies what it needs (the two setters of the login run in *)
(* any order, so that reading both at once meets every pair) and makes a   *)
(* socket of the type of the connection, ...                               *)
SendTextMail(mail) ==
    /\ session.state = "idle"
    /\ session' = [state |-> "Opening", mail |-> mail,
                   login |-> <<settings.userName, settings.password>>,
                   socket |-> settings.connectionType,
                   todo |-> Recipients(mail), open |-> TRUE,
                   result |-> FALSE, changed |-> FALSE, badCast |-> FALSE]
    /\ UNCHANGED <<settings, toServer, toClient, server>>

(* ... which it reads again to connect: a QTcpSocket cast to a QSslSocket  *)
(* is greeted by nobody.                                                   *)
Connect ==
    /\ session.state = "Opening"
    /\ session' = [session EXCEPT !.state = "Init",
                       !.badCast = /\ session.socket = "Plain"
                                   /\ settings.connectionType = "Ssl"]
    /\ toClient' = IF session'.badCast THEN <<>>
                   ELSE <<[code |-> 220, starttls |-> FALSE]>>
    /\ UNCHANGED <<settings, toServer, server>>

-----------------------------------------------------------------------------
(* readyReadCallback *)
Running == session.state \notin {"idle", "Opening"} /\ session.open

(* Reads n of the chunks; the branch is chosen by the state and the code. *)
Reads(n, state, code) == /\ Running
                         /\ n \in 1..Len(toClient)
                         /\ session.state = state /\ toClient[1].code = code
                         /\ toClient' = SubSeq(toClient, n + 1, Len(toClient))
                         /\ UNCHANGED <<settings, server>>

Says(command, next) == /\ toServer' = Append(toServer, command)
                       /\ session' = [session EXCEPT !.state = next]

Says1(name, next) == Says([name |-> name], next)

Greeted(n) == Reads(n, "Init", 220) /\ Says1("EHLO", "Auth")

Welcomed(n) ==
    /\ Reads(n, "Auth", 250)
    /\ IF /\ \E i \in 1..n : toClient[i].starttls
          /\ settings.connectionType = "StartTls"
       THEN Says1("STARTTLS", "Tls") ELSE Says1("AUTH", "User")

(* static_cast<QSslSocket *> of what may be a QTcpSocket. *)
StartClientEncryption(n) ==
    /\ Reads(n, "Tls", 220)
    /\ session' = [session EXCEPT !.state = "Encrypting",
                       !.badCast = session.socket = "Plain"]
    /\ UNCHANGED toServer

(* encrypted(): awaited only while the type is StartTls. *)
Encrypted == /\ Running /\ session.state = "Encrypting"
             /\ settings.connectionType = "StartTls" /\ ~session.badCast
             /\ Says1("EHLO", "Auth")
             /\ UNCHANGED <<settings, toClient, server>>

LogIn(n) ==
    \/ Reads(n, "User", 334) /\ Says1("USER", "Pass")
    \/ /\ Reads(n, "Pass", 334)
       /\ Says([name |-> "PASS", login |-> session.login], "Mail")
    \/ Reads(n, "Mail", 235) /\ Says1("MAIL", "Rcpt")

(* One recipient per reply; the last one moves on to Data. *)
Envelope(n) ==
    \/ /\ Reads(n, "Rcpt", 250) /\ session.todo /= <<>>
       /\ toServer' = Append(toServer, [name |-> "RCPT", to |-> session.todo[1]])
       /\ session' = [session EXCEPT !.todo = Tail(@),
                          !.state = IF Tail(session.todo) = <<>> THEN "Data"
                                    ELSE "Rcpt"]
    \/ Reads(n, "Rcpt", 250) /\ session.todo = <<>> /\ Says1("DATA", "Body")
    \/ Reads(n, "Data", 250) /\ Says1("DATA", "Body")

Body(n) ==
    \/ /\ Reads(n, "Body", 354)
       /\ Says([name |-> "CONTENT",
                lines |-> Content(session.mail.body) \o <<"dot">>], "Quit")
    \/ Reads(n, "Quit", 250) /\ Says1("QUIT", "Close")

(* Whatever comes after QUIT is taken as success. *)
Success(n) == /\ Running /\ session.state = "Close" /\ n \in 1..Len(toClient)
              /\ session' = [session EXCEPT !.result = TRUE, !.open = FALSE]
              /\ toClient' = SubSeq(toClient, n + 1, Len(toClient))
              /\ UNCHANGED <<settings, toServer, server>>

Expected == {<<"Init", 220>>, <<"Auth", 250>>, <<"Tls", 220>>, <<"User", 334>>,
             <<"Pass", 334>>, <<"Mail", 235>>, <<"Rcpt", 250>>, <<"Data", 250>>,
             <<"Body", 354>>, <<"Quit", 250>>}

(* The end of the switch is taken for success. *)
MutUnknown == /\ Running /\ toClient /= <<>>
              /\ <<session.state, toClient[1].code>> \notin Expected
              /\ session' = [session EXCEPT !.result = TRUE, !.open = FALSE]
              /\ UNCHANGED <<settings, toServer, toClient, server>>

Unknown == /\ Running /\ toClient /= <<>> /\ session.state /= "Close"
           /\ session.state = "Encrypting" => toClient[1].code /= 220
           /\ <<session.state, toClient[1].code>> \notin Expected
           /\ session' = [session EXCEPT !.state = "Close", !.open = FALSE]
           /\ UNCHANGED <<settings, toServer, toClient, server>>

(* errorCallback: the connection broke or the server closed it. *)
Error == /\ Running
         /\ session' = [session EXCEPT !.open = FALSE]
         /\ UNCHANGED <<settings, toServer, toClient, server>>

-----------------------------------------------------------------------------
(* The mail server (external): answers one command at a time, refuses what *)
(* it likes, and may have its reply cut in two.                            *)
CodeFor == [EHLO |-> 250, STARTTLS |-> 220, AUTH |-> 334, USER |-> 334,
            PASS |-> 235, MAIL |-> 250, RCPT |-> 250, DATA |-> 354,
            CONTENT |-> 250, QUIT |-> 221]

(* The rest of a long EHLO reply begins with 250 again; another rest with  *)
(* no number.                                                              *)
Replies(name) ==
    LET offer == name = "EHLO" /\ server.offers
        whole == [code |-> CodeFor[name], starttls |-> offer]
        head == [code |-> CodeFor[name], starttls |-> FALSE]
        rest == [code |-> IF name = "EHLO" THEN 250 ELSE 0, starttls |-> offer]
    IN  {<<whole>>, <<head, rest>>}

Unstuffed(line) == CASE line = "doubled" -> "dot"
                     [] line = "dotted" -> "text"
                     [] OTHER -> line

(* The mail ends at the first lone dot; lines after it are bad commands. *)
Taken(command) ==
    LET last == CHOOSE i \in 1..Len(command.lines) :
                    /\ command.lines[i] = "dot"
                    /\ \A j \in 1..(i - 1) : command.lines[j] /= "dot"
    IN  [rcpts |-> server.rcpts, login |-> server.login,
         body |-> [i \in 1..(last - 1) |-> Unstuffed(command.lines[i])]]

ServerAccepts ==
    LET command == Head(toServer) IN
    /\ Running /\ toServer /= <<>>
    /\ command.name = "DATA" => server.rcpts /= <<>>
    /\ toServer' = Tail(toServer)
    /\ \E reply \in Replies(command.name) : toClient' = toClient \o reply
    /\ server' = CASE command.name = "RCPT" ->
                          [server EXCEPT !.rcpts = Append(@, command.to)]
                   [] command.name = "PASS" ->
                          [server EXCEPT !.login = command.login]
                   [] command.name = "CONTENT" ->
                          [server EXCEPT !.mails = Append(@, Taken(command))]
                   [] OTHER -> server
    /\ UNCHANGED <<settings, session>>

ServerRefuses == /\ Running /\ toServer /= <<>>
                 /\ toServer' = Tail(toServer)
                 /\ toClient' = Append(toClient, [code |-> 500, starttls |-> FALSE])
                 /\ UNCHANGED <<settings, session, server>>

-----------------------------------------------------------------------------
ReadyRead == \/ \E n \in 1..Len(toClient) :
                    \/ Greeted(n) \/ Welcomed(n) \/ StartClientEncryption(n)
                    \/ LogIn(n) \/ Envelope(n) \/ Body(n) \/ Success(n)
             \/ Unknown

Next == \/ \E u \in UserNames : SetUserName(u)
        \/ \E p \in Passwords : SetPassword(p)
        \/ \E k \in Kinds : SetConnectionType(k)
        \/ \E mail \in Mails : SendTextMail(mail)
        \/ Connect
        \/ ReadyRead \/ Encrypted \/ Error
        \/ ServerAccepts \/ ServerRefuses

Spec == Init /\ [][Next]_vars
-----------------------------------------------------------------------------
(* Bodies the doubling of dots protects: no dotted line, no lone dot right *)
(* after another one, none at the end.                                     *)
Protected(body) == /\ \A i \in 1..Len(body) : body[i] /= "dotted"
                   /\ \A i \in 1..Len(body) :
                          body[i] = "dot" => /\ i < Len(body)
                                             /\ body[i + 1] /= "dot"

(* A mail the server took is the one that was asked for: sent under the    *)
(* login set when it began, to every recipient of To, Cc and Bcc in order, *)
(* once, with its body intact unless a dot escapes the doubling.           *)
TakenAsAsked ==
    session.state /= "idle" =>
        /\ Len(server.mails) <= 1
        /\ \A i \in 1..Len(server.mails) :
               /\ server.mails[i].rcpts = Recipients(session.mail)
               /\ server.mails[i].login = session.login
               /\ Protected(session.mail.body) =>
                      server.mails[i].body = session.mail.body

(* sendTextMail returns true only for a mail the server took, however the  *)
(* replies were cut; and the socket is cast to a QSslSocket it is not only *)
(* when the type of the connection was changed while the mail was sent.    *)
SuccessIsReal ==
    session.state /= "idle" => /\ session.result => server.mails /= <<>>
                               /\ session.badCast => session.changed
=============================================================================
