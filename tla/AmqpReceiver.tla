----------------------------- MODULE AmqpReceiver -----------------------------
(***************************************************************************)
(* AbstractAmqpReceiver and JsonAmqpClient (abstractamqpreceiver.cpp,     *)
(* jsonamqpclient.cpp): a queue is opened, perhaps declared, and consumed *)
(* on every connection; its messages are taken out one by one.            *)
(***************************************************************************)
EXTENDS AmqpClient, Sequences

CONSTANTS Queues,        \* names of queues
          NoQueue,       \* nullptr
          MaxMessages,   \* bound: messages that arrive
          MaxConsumers   \* bound: connections of one signal told apart

VARIABLES queueName, create,   \* createdQueueIfNotExists, set up beforehand
          queue,               \* name of the QAmqpQueue of this object
          queueState,
          known,               \* the queues the library has objects for
          hooked,              \* connections of opened, declared and error
          opened, declaring, consuming, declared,
          consumers,           \* connections of messageReceived, per queue
          waiting,             \* messages in the queue objects
          sent, handled,       \* what arrived and what was handled
          invalid              \* messages taken out of an empty queue

receiver == <<queueName, create, queue, queueState, known, hooked, opened, declaring,
              consuming, declared, consumers, waiting, sent, handled, invalid>>

InitReceiver ==
    /\ InitConnection
    /\ queueName \in Queues /\ create \in BOOLEAN
    /\ queue = NoQueue /\ queueState = "Error"
    /\ known = {} /\ opened = {} /\ declaring = {} /\ consuming = {}
    /\ declared = {}
    /\ consumers = [q \in Queues |-> 0] /\ hooked = consumers
    /\ waiting = [q \in Queues |-> <<>>]
    /\ sent = 0 /\ handled = <<>> /\ invalid = 0

SetQueueName(name) ==
    /\ queueName' = name
    /\ UNCHANGED <<connection, create, queue, queueState, known, hooked, opened, declaring,
                   consuming, declared, consumers, waiting, sent, handled, invalid>>

(* A link that goes takes the channels with it; the objects stay. *)
ReceiverLink ==
    /\ LinkSteps
    /\ IF link' = "up" THEN UNCHANGED <<opened, declaring, consuming>>
       ELSE opened' = {} /\ declaring' = {} /\ consuming' = {}
    /\ UNCHANGED <<queueName, create, queue, queueState, known, hooked, declared,
                   consumers, waiting, sent, handled, invalid>>

AtMost(n) == IF n > MaxConsumers THEN MaxConsumers ELSE n

(* connected(): createQueue returns the object it has for that name; a     *)
(* queue that takes the place of another one gets its handlers, again if   *)
(* it had them before.                                                     *)
ReceiverConnected ==
    /\ LinkUp
    /\ queueState' = "Opening"
    /\ queue' = queueName /\ known' = known \cup {queueName}
    /\ hooked' = IF queueName = queue THEN hooked
                 ELSE [hooked EXCEPT ![queueName] = AtMost(@ + 1)]
    /\ UNCHANGED <<queueName, create, opened, declaring, consuming, declared,
                   consumers, waiting, sent, handled, invalid>>

(* startConsuming, so many times: connects messageReceived, then consumes. *)
StartConsuming(open, times, state) ==
    /\ consumers' = [consumers EXCEPT ![queue] = AtMost(@ + times)]
    /\ IF times > 0 /\ queue \in open \ consuming
       THEN consuming' = consuming \cup {queue} /\ queueState' = "Consuming"
       ELSE queueState' = state /\ UNCHANGED consuming

(* QAmqpQueue::opened of any of the queues there are objects for; the      *)
(* handler that declares leaves the next one to consume.                   *)
Opened(q) ==
    /\ link = "up" /\ q \in known \ opened
    /\ opened' = opened \cup {q}
    /\ IF create /\ queueState = "Opening"
       THEN /\ declaring' = declaring \cup {queue}
            /\ StartConsuming(opened', hooked[q] - 1, "Declared")
       ELSE /\ StartConsuming(opened', hooked[q], queueState)
            /\ UNCHANGED declaring
    /\ UNCHANGED <<connection, queueName, create, queue, known, hooked, declared,
                   waiting, sent, handled, invalid>>

(* QAmqpQueue::declared, with the bindings to the routing keys. *)
Declared(q) ==
    /\ q \in declaring \cap opened
    /\ declaring' = declaring \ {q} /\ declared' = declared \cup {q}
    /\ StartConsuming(opened, hooked[q], "Declared")
    /\ UNCHANGED <<connection, queueName, create, queue, known, hooked, opened,
                   waiting, sent, handled, invalid>>

(* PreconditionFailed: the queue is there with other options. *)
QueueError(q, precondition) ==
    /\ q \in declaring \cap opened
    /\ declaring' = declaring \ {q}
    /\ IF queueState = "Declared" /\ precondition /\ create
       THEN /\ queueState' = "Reopening"
            /\ opened' = opened \ {queue} /\ consuming' = consuming \ {queue}
            /\ declared' = declared \cup {q}
       ELSE UNCHANGED <<queueState, opened, consuming, declared>>
    /\ UNCHANGED <<connection, queueName, create, queue, known, hooked, consumers,
                   waiting, sent, handled, invalid>>

(* Without isEmpty().                                                     *)
MutAmqpMessageReceived(contents, n) ==
    LET taken == IF n < Len(contents) THEN n ELSE Len(contents)
    IN  /\ handled' = handled \o SubSeq(contents, 1, taken)
        /\ waiting' = [waiting EXCEPT
                          ![queue] = SubSeq(contents, taken + 1, Len(contents))]
        /\ invalid' = invalid + (n - taken)

(* amqpMessageReceived, once per connection: n messages at most, and none *)
(* from an empty queue.                                                    *)
AmqpMessageReceived(contents, n) ==
    LET taken == IF n < Len(contents) THEN n ELSE Len(contents)
    IN  /\ handled' = handled \o SubSeq(contents, 1, taken)
        /\ waiting' = [waiting EXCEPT
                          ![queue] = SubSeq(contents, taken + 1, Len(contents))]
        /\ UNCHANGED invalid

MessageArrives(q) ==
    /\ q \in consuming /\ sent < MaxMessages
    /\ sent' = sent + 1
    /\ IF q = queue THEN AmqpMessageReceived(Append(waiting[q], sent + 1), consumers[q])
       ELSE /\ waiting' = [waiting EXCEPT ![q] = Append(@, sent + 1)]
            /\ UNCHANGED <<handled, invalid>>
    /\ UNCHANGED <<connection, queueName, create, queue, queueState, known, hooked, opened,
                   declaring, consuming, declared, consumers>>

(* The library may announce a message it does not have (jsonamqpclient.cpp *)
(* says so and works around it).                                           *)
NothingArrives(q) ==
    /\ q \in known /\ consumers[q] > 0
    /\ AmqpMessageReceived(waiting[queue], consumers[q])
    /\ UNCHANGED <<connection, queueName, create, queue, queueState, known, hooked, opened,
                   declaring, consuming, declared, consumers, sent>>

ReceiverNext ==
    \/ \E name \in Queues : SetQueueName(name)
    \/ ReceiverLink \/ ReceiverConnected
    \/ \E q \in Queues : \/ Opened(q) \/ Declared(q)
                         \/ \E p \in BOOLEAN : QueueError(q, p)
                         \/ MessageArrives(q) \/ NothingArrives(q)

ReceiverSpec == InitReceiver /\ [][ReceiverNext]_<<connection, receiver>>
-----------------------------------------------------------------------------
(* However often messageReceived was connected again by a reconnection,   *)
(* every message that arrived was handled once, in the order of arrival,  *)
(* at once, and no message is taken out of an empty queue.                 *)
MessagesAreHandledOnce == /\ handled = [i \in 1..sent |-> i]
                          /\ \A q \in Queues : waiting[q] = <<>>
                          /\ invalid = 0

(* Only the queue of the last connection is consumed, whatever names the  *)
(* object had before; and as long as it had but one, a queue it is to      *)
(* create is consumed only after the server knows it.                      *)
ConsumesItsQueue == /\ consuming \subseteq {queue}
                    /\ \A q \in Queues : create /\ known = {q} =>
                           consuming \subseteq declared
=============================================================================
