---------------------------- MODULE RestExchange ----------------------------
(***************************************************************************)
(* A request from a RestClient (restclient.cpp) to a method of an          *)
(* AbstractRestServer (abstractrestserver.cpp): the URL and the headers    *)
(* the client builds from its settings, the server's walk down its tree of *)
(* methods, the check of the credentials, and the answers it gives.        *)
(* RestServer models the threads and sockets this happens on.              *)
(*                                                                         *)
(* A path is the sequence of its parts, in lower case: the code ignores    *)
(* case.  The value of an Authorization header is a credential, "Other"    *)
(* (not two words, or of another scheme) or "Malformed" (with more than    *)
(* one colon: no credential is).                                           *)
(***************************************************************************)
EXTENDS Naturals, FiniteSets, SequencesExt

CONSTANTS
    Credentials,   \* user name and password, as base64 has them
    Names,         \* paths that methods of the server may have
    Paths,         \* paths requested, below the client's postfix
    Bases,      \* path prefixes of the server, postfixes of the client
    Status         \* the built-in method system/status

VARIABLES
    methods,   \* methodsTreeRoot: tags of the methods, by path
    server,    \* authType, userName with password, pathPrefix
    sender,    \* authType, userName with password, postfix, a custom header
    exchange   \* the last request: its path, headers, method and answers

exchangeVars == <<methods, server, sender, exchange>>

Tags == {"NO_AUTH_REQUIRED", ""}
NoHeader == <<>>
CustomHeaders ==
    {NoHeader} \cup ({"Authorization", "Authorization-Longer"}
                        \X (Credentials \cup {"Malformed"}))
NoMethod == "none"
Idle == [path |-> <<>>, headers |-> <<>>, method |-> NoMethod, codes |-> <<>>]

NoMethods == [p \in {} |-> ""]
ACredential == CHOOSE c \in Credentials : TRUE

(* A server that does not listen yet, and a client.                        *)
Init ==
    /\ methods = NoMethods
    /\ server = [auth |-> "NoAuth", cred |-> ACredential, prefix |-> <<>>]
    /\ sender = [auth |-> "NoAuth", cred |-> ACredential, postfix |-> <<>>,
                 custom |-> NoHeader]
    /\ exchange = Idle

(* fillMethods registers the slots whose names start with rest_.  Those of *)
(* AbstractRestServer itself are always there and need no credentials.     *)
FillMethods(S, f) ==
    [p \in S \cup {Status} |-> IF p = Status THEN "NO_AUTH_REQUIRED" ELSE f[p]]

StartListen ==
    /\ methods = NoMethods
    /\ \E S \in SUBSET Names : \E f \in [S -> Tags] : methods' = FillMethods(S, f)
    /\ UNCHANGED <<server, sender, exchange>>

SetPathPrefix ==
    /\ \E p \in Bases : server' = [server EXCEPT !.prefix = p]
    /\ exchange' = Idle
    /\ UNCHANGED <<methods, sender>>

(* The server's user name or its password.                                 *)
SetServerUserName ==
    /\ \E c \in Credentials : server' = [server EXCEPT !.cred = c]
    /\ exchange' = Idle
    /\ UNCHANGED <<methods, sender>>

SetServerAuthType ==
    /\ \E a \in {"NoAuth", "Basic"} : server' = [server EXCEPT !.auth = a]
    /\ exchange' = Idle
    /\ UNCHANGED <<methods, sender>>

SetAuthType ==
    /\ \E a \in {"NoAuth", "Basic", "BearerToken", "Wsse"} :
          sender' = [sender EXCEPT !.auth = a]
    /\ exchange' = Idle
    /\ UNCHANGED <<methods, server>>

(* The user name or the password.                                          *)
SetUserName ==
    /\ \E c \in Credentials : sender' = [sender EXCEPT !.cred = c]
    /\ exchange' = Idle
    /\ UNCHANGED <<methods, server>>

SetCustomHeader ==
    /\ \E h \in CustomHeaders : sender' = [sender EXCEPT !.custom = h]
    /\ exchange' = Idle
    /\ UNCHANGED <<methods, server>>

(* What the client's host is set to, in parts: a scheme, the host, a path. *)
Hosts == {scheme \o <<"host">> \o p : scheme \in {<<>>, <<"https:">>}, p \in Bases}

(* The path, behind the host, which is behind the scheme if there is one.  *)
ParseHost(parts) == SubSeq(parts, IF parts[1] = "https:" THEN 3 ELSE 2, Len(parts))

(* setHost sets the postfix too, to nothing when there is no path.         *)
SetHost ==
    /\ \E h \in Hosts : sender' = [sender EXCEPT !.postfix = ParseHost(h)]
    /\ exchange' = Idle
    /\ UNCHANGED <<methods, server>>

CreateUrl(path) == sender.postfix \o path

(* The headers whose name starts with Authorization, in the order they are *)
(* sent: the one of the auth type takes the place of a custom one of the   *)
(* same name, and comes after one with a longer name.                      *)
AuthorizationHeaders(value) ==
    LET kept == IF sender.custom = NoHeader \/ (sender.auth # "NoAuth"
                      /\ sender.custom[1] = "Authorization")
                  THEN <<>> ELSE <<sender.custom[2]>>
    IN  IF sender.auth = "NoAuth" THEN kept ELSE Append(kept, value)

AuthorizationValues ==
    CASE sender.auth = "Basic" -> {sender.cred}
      [] sender.auth = "BearerToken" -> {"Other", "Malformed"}
      [] OTHER -> {"Other"}

-----------------------------------------------------------------------------
InPrefix(url) == IsPrefix(server.prefix, url)

IsNode(path) == \E p \in DOMAIN methods : IsPrefix(path, p)

(* The walk goes down as long as there is a node for the next part; what   *)
(* is left are the variable parts of the method.                           *)
Walk(name) ==
    LET depths == {i \in 0 .. Len(name) : IsNode(SubSeq(name, 1, i))}
    IN  SubSeq(name, 1, CHOOSE i \in depths : \A j \in depths : j <= i)

(* The path prefix is cut off unseen.                                      *)
MutFindMethod(url) ==
    LET name == SubSeq(url, Len(server.prefix) + 1, Len(url))
    IN  IF name # <<>> /\ Walk(name) \in DOMAIN methods THEN Walk(name) ELSE NoMethod

FindMethod(url) ==
    LET name == SubSeq(url, Len(server.prefix) + 1, Len(url))
    IN  IF InPrefix(url) /\ name # <<>> /\ Walk(name) \in DOMAIN methods
          THEN Walk(name) ELSE NoMethod

NotFound == <<404>>
NotAuthorized == <<401>>
InternalError == <<500>>

(* parseAuth answers a header it does not understand itself.               *)
ParseAuth(headers) ==
    IF headers = <<>> THEN <<>>
    ELSE CASE Head(headers) = "Malformed" -> InternalError
           [] Head(headers) = "Other" -> NotAuthorized
           [] OTHER -> <<>>

CheckBasicAuth(headers) == headers # <<>> /\ Head(headers) = server.cred

(* system/status answers when the health status is known or failed; the    *)
(* methods of an application answer once.                                  *)
MethodAnswers(m) == IF m = Status THEN {<<200>>, InternalError} ELSE {<<200>>}

TryToCallMethod(path) ==
    /\ exchange = Idle /\ methods # NoMethods
    /\ \E value \in AuthorizationValues :
          LET url == CreateUrl(path)
              m == FindMethod(url)
              hs == AuthorizationHeaders(value)
              checked == m # NoMethod /\ server.auth = "Basic"
                            /\ methods[m] # "NO_AUTH_REQUIRED"
          IN  \E answers \in
                    CASE m = NoMethod -> {NotFound}
                      [] checked /\ ~CheckBasicAuth(hs) -> {ParseAuth(hs) \o NotAuthorized}
                      [] OTHER -> MethodAnswers(m) :
                 exchange' = [path |-> url, headers |-> hs, codes |-> answers,
                              method |-> IF checked /\ ~CheckBasicAuth(hs)
                                           THEN NoMethod ELSE m]
    /\ UNCHANGED <<methods, server, sender>>

Next ==
    \/ StartListen \/ SetPathPrefix \/ SetServerUserName \/ SetServerAuthType
    \/ SetAuthType \/ SetUserName \/ SetCustomHeader \/ SetHost
    \/ \E p \in Paths : TryToCallMethod(p)

Spec == Init /\ [][Next]_exchangeVars

-----------------------------------------------------------------------------
Asked == exchange # Idle

(* The method a request should reach: below the server's prefix, the one   *)
(* with the longest name the request begins with.                          *)
Candidates ==
    {p \in DOMAIN methods : p # <<>> /\ IsPrefix(server.prefix \o p, exchange.path)}
Best == CHOOSE p \in Candidates : \A q \in Candidates : Len(q) <= Len(p)

(* A longer name of another method that the request follows further than   *)
(* Best, but not to its end, hides Best.                                   *)
Hidden ==
    \E q \in DOMAIN methods, n \in 1 .. Len(exchange.path) :
        /\ Len(Best) < n /\ n <= Len(q)
        /\ IsPrefix(server.prefix \o SubSeq(q, 1, n), exchange.path)

LetIn(m) ==
    \/ methods[m] = "NO_AUTH_REQUIRED" \/ server.auth = "NoAuth"
    \/ exchange.headers # <<>> /\ exchange.headers[1] = server.cred

(* A request reaches the method with the longest matching name, and only   *)
(* with the server's credentials where these are asked for, and no other   *)
(* method ever.  A method whose name goes on below that one, and that the  *)
(* request follows without reaching it, hides it; a header whose name only *)
(* begins with Authorization is taken for that header when it comes first. *)
RequestsReachTheirMethod ==
    Asked =>
        exchange.method = IF Candidates # {} /\ ~Hidden /\ LetIn(Best)
                            THEN Best ELSE NoMethod

(* Every request is answered exactly once; only a request whose            *)
(* Authorization header is not a Basic one gets a second answer, the 401   *)
(* that follows the answer of parseAuth.                                   *)
AnsweredOnce ==
    Asked =>
        \/ Len(exchange.codes) = 1
        \/ /\ exchange.headers # <<>> /\ exchange.headers[1] \in {"Other", "Malformed"}
           /\ exchange.codes \in {<<500, 401>>, <<401, 401>>}
=============================================================================
