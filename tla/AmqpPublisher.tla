---------------------------- MODULE AmqpPublisher ----------------------------
(***************************************************************************)
(* AmqpPublisher (amqppublisher.cpp): messages are numbered where they    *)
(* are published, on any thread, and given to the exchange on the thread  *)
(* of the object.  The exchange of the first connection is used from then *)
(* on, whatever the link does.                                             *)
(***************************************************************************)
EXTENDS AmqpClient, Sequences

CONSTANTS Exchanges,   \* names of exchanges
          NoExchange,  \* nullptr
          Callers,     \* threads that publish
          Owner,       \* the one of them the object lives on
          MaxPublish   \* bound: messages published

VARIABLES exchangeName, createExchange, exchange, exchangeState,
          knownExchanges, openExchanges,
          nextPublishId,
          numbered,    \* per caller: the number it has not passed on yet
          posted,      \* queued calls of publishMessageImpl
          outcomes,    \* per message: <<"published">>, <<"failed">>, ...
          publisherOf, \* per message: its caller
          reached      \* what the broker got

publisher == <<exchangeName, createExchange, exchange, exchangeState,
               knownExchanges, openExchanges, nextPublishId, numbered, posted,
               outcomes, publisherOf, reached>>

exchangeVars == <<exchangeName, createExchange, exchange, exchangeState,
                  knownExchanges, openExchanges>>
messageVars == <<nextPublishId, numbered, posted, outcomes, publisherOf,
                 reached>>

InitPublisher ==
    /\ InitConnection
    /\ exchangeName \in Exchanges /\ createExchange \in BOOLEAN
    /\ exchange = NoExchange /\ exchangeState = "Error"
    /\ knownExchanges = {} /\ openExchanges = {}
    /\ nextPublishId = 1 /\ numbered = [c \in Callers |-> 0] /\ posted = <<>>
    /\ outcomes = <<>> /\ publisherOf = <<>>
    /\ reached = <<>>

SetExchangeName(name) ==
    /\ exchangeName' = name
    /\ UNCHANGED <<connection, createExchange, exchange, exchangeState,
                   knownExchanges, openExchanges, messageVars>>

PublisherLink ==
    /\ LinkSteps
    /\ openExchanges' = IF link' = "up" THEN openExchanges ELSE {}
    /\ UNCHANGED <<exchangeName, createExchange, exchange, exchangeState,
                   knownExchanges, messageVars>>

PublisherConnected ==
    /\ LinkUp
    /\ exchangeState' = "Opening"
    /\ exchange' = exchangeName
    /\ knownExchanges' = knownExchanges \cup {exchangeName}
    /\ UNCHANGED <<exchangeName, createExchange, openExchanges, messageVars>>

ExchangeOpened(x) ==
    /\ link = "up" /\ x \in knownExchanges \ openExchanges
    /\ openExchanges' = openExchanges \cup {x}
    /\ exchangeState' = IF createExchange /\ exchangeState = "Opening"
                        THEN "Declared" ELSE exchangeState
    /\ UNCHANGED <<connection, exchangeName, createExchange, exchange,
                   knownExchanges, messageVars>>

ExchangeDeclared == /\ openExchanges /= {} /\ exchangeState' = "Declared"
                    /\ createExchange
                    /\ UNCHANGED <<connection, exchangeName, createExchange, exchange,
                                   knownExchanges, openExchanges, messageVars>>

(* PreconditionFailed of a declared exchange: it is opened as it is. *)
ExchangeError(precondition) ==
    /\ openExchanges /= {}
    /\ IF exchangeState = "Declared" /\ precondition /\ createExchange
       THEN /\ exchangeState' = "Reopening"
            /\ openExchanges' = openExchanges \ {exchange}
       ELSE UNCHANGED <<exchangeState, openExchanges>>
    /\ UNCHANGED <<connection, exchangeName, createExchange, exchange,
                   knownExchanges, messageVars>>

-----------------------------------------------------------------------------
(* publishMessage: the number is taken first (an atomic counter)... *)
TakeNumber(c) ==
    /\ numbered[c] = 0 /\ nextPublishId <= MaxPublish
    /\ numbered' = [numbered EXCEPT ![c] = nextPublishId]
    /\ nextPublishId' = nextPublishId + 1
    /\ outcomes' = Append(outcomes, <<>>)
    /\ publisherOf' = Append(publisherOf, c)
    /\ UNCHANGED <<connection, exchangeVars, posted, reached>>

(* publishMessageImpl on the owner's thread; what is published while the   *)
(* exchange is not open is announced all the same and reaches nobody.      *)
Impl(id) ==
    IF exchange = NoExchange
    THEN /\ outcomes' = [outcomes EXCEPT ![id] = Append(@, "failed")]
         /\ UNCHANGED reached
    ELSE /\ outcomes' = [outcomes EXCEPT ![id] = Append(@, "published")]
         /\ reached' = IF exchange \in openExchanges THEN Append(reached, id)
                       ELSE reached

(* ...then safeCall queues the rest, unless the caller is the owner. *)
PublishMessage(c) ==
    /\ numbered[c] /= 0
    /\ IF c = Owner THEN Impl(numbered[c]) /\ UNCHANGED posted
       ELSE /\ posted' = Append(posted, numbered[c])
            /\ UNCHANGED <<outcomes, reached>>
    /\ numbered' = [numbered EXCEPT ![c] = 0]
    /\ UNCHANGED <<connection, exchangeVars, nextPublishId, publisherOf>>

RunPosted == /\ posted /= <<>>
             /\ posted' = Tail(posted) /\ Impl(Head(posted))
             /\ UNCHANGED <<connection, exchangeVars, nextPublishId, numbered,
                            publisherOf>>

PublisherNext ==
    \/ \E name \in Exchanges : SetExchangeName(name)
    \/ PublisherLink \/ PublisherConnected
    \/ \E x \in Exchanges : ExchangeOpened(x)
    \/ ExchangeDeclared \/ \E p \in BOOLEAN : ExchangeError(p)
    \/ \E c \in Callers : TakeNumber(c) \/ PublishMessage(c)
    \/ RunPosted

PublisherSpec == InitPublisher /\ [][PublisherNext]_<<connection, publisher>>
-----------------------------------------------------------------------------
OnTheWay == {numbered[c] : c \in Callers} \cup {posted[i] : i \in 1..Len(posted)}

(* Every message is answered exactly once, unless it is still on its way, *)
(* and the messages of one caller reach the broker in the order of their   *)
(* numbers, whatever the callers' numbers interleave with.                 *)
MessagesAreAnsweredOnce ==
    /\ \A id \in 1..Len(outcomes) :
           Len(outcomes[id]) = IF id \in OnTheWay THEN 0 ELSE 1
    /\ \A i, j \in 1..Len(reached) :
           i < j /\ publisherOf[reached[i]] = publisherOf[reached[j]]
               => reached[i] < reached[j]
=============================================================================
