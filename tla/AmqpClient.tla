------------------------------ MODULE AmqpClient ------------------------------
(***************************************************************************)
(* AbstractAmqpClient (abstractamqpclient.cpp): the connection a receiver *)
(* or a publisher lives on.  QAmqpClient is a library whose source is not *)
(* in the repository: what its signals may do is modelled from how they   *)
(* are used here.  Every action is a slot or a call on the thread of the  *)
(* client; calls of other threads are safeCall's (ProofCalls.tla).        *)
(***************************************************************************)
EXTENDS Naturals

VARIABLES link,           \* QAmqpClient: "down", "connecting", "up"
          autoReconnect,  \* the library tries again after an error
          tries,          \* autoReconnectionTries
          unreported,     \* errors not reported since tries was last set
          started,        \* tries has been set once
          leaving         \* disconnectFromHost waits in its event loop

connection == <<link, autoReconnect, tries, unreported, started, leaving>>

AUTO_RECONNECTION_TRIES == 3

InitConnection == /\ link = "down" /\ autoReconnect \in BOOLEAN
                  /\ tries = 0 /\ unreported = 0
                  /\ started = FALSE /\ leaving = FALSE

SetAutoReconnect == /\ autoReconnect' = ~autoReconnect
                    /\ UNCHANGED <<link, tries, unreported, started, leaving>>

ResetTries == /\ tries' = AUTO_RECONNECTION_TRIES
              /\ unreported' = 0 /\ started' = TRUE

(* The slot of error and of socketError: every fourth error in a row is   *)
(* reported while the library reconnects, each one otherwise.              *)
HandleError ==
    \/ /\ autoReconnect /\ tries > 0
       /\ tries' = tries - 1 /\ unreported' = unreported + 1
       /\ UNCHANGED started
    \/ autoReconnect /\ tries = 0 /\ ResetTries
    \/ ~autoReconnect /\ UNCHANGED <<tries, unreported, started>>

(* QAmqpClient::error; the library's disconnectFromHost, called when      *)
(* nothing will reconnect, only asks for a goodbye...                      *)
ClientError == /\ link /= "down" /\ HandleError
               /\ UNCHANGED <<link, autoReconnect, leaving>>

(* ...that comes later: QAmqpClient::disconnected, also of the server.     *)
Disconnected == /\ link /= "down" /\ link' = "down"
                /\ UNCHANGED <<autoReconnect, tries, unreported, started, leaving>>

(* QAmqpClient::socketError: the connection is gone. *)
SocketError == /\ link /= "down" /\ HandleError
               /\ link' = IF autoReconnect THEN "connecting" ELSE "down"
               /\ UNCHANGED <<autoReconnect, leaving>>

(* QAmqpClient::connected, before connected() of the subclass. *)
LinkUp == /\ link = "connecting" /\ link' = "up" /\ ResetTries
          /\ UNCHANGED <<autoReconnect, leaving>>

ConnectToHost == /\ link = "down" /\ link' = "connecting"
                 /\ UNCHANGED <<autoReconnect, tries, unreported, started, leaving>>

(* disconnectFromHost: five seconds of events, then the socket is aborted *)
(* whatever they did.                                                      *)
DisconnectFromHost == /\ ~leaving /\ link = "up" /\ leaving' = TRUE
                      /\ UNCHANGED <<link, autoReconnect, tries, unreported, started>>

Abort == /\ leaving \/ link /= "up"
         /\ leaving' = FALSE /\ link' = "down"
         /\ UNCHANGED <<autoReconnect, tries, unreported, started>>

(* Steps after which nothing that lived on the link is left. *)
LinkSteps == \/ SetAutoReconnect \/ ClientError \/ Disconnected \/ SocketError
             \/ ConnectToHost \/ DisconnectFromHost \/ Abort

(* Once the tries have been set by a connection or a report, exactly the  *)
(* errors that are missing from them were kept silent: never more than     *)
(* three in a row, and none of the three is forgotten by a reconnection.   *)
SilentErrorsAreCounted ==
    /\ unreported <= AUTO_RECONNECTION_TRIES
    /\ started => tries + unreported = AUTO_RECONNECTION_TRIES
=============================================================================
