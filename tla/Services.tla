------------------------------- MODULE Services -------------------------------
(***************************************************************************)
(* The services around the core, none of which shares state with another:  *)
(* part says which one a behaviour is about, and the variables of all      *)
(* others stay "off".  MCServices gives the constants small values, and    *)
(* ServicesProofs and ExchangeProofs prove for every value what one run    *)
(* checks for those.                                                       *)
(***************************************************************************)
EXTENDS Entities, Integers, Sequences, FiniteSets

CONSTANTS
    (* RestClient *)
    Gets, IgnoreSsl, ReplyTimeouts, SlowTimeout, CheckTimeout, LastReplyTime,
    (* RestExchange *)
    Credentials, MethodNames, Paths, Bases, Status,
    (* Settings *)
    Keys, Values, Null,
    (* Application *)
    Migrations, VersionOf, OfApp, MovesTo, Releases, Initializers, Languages,
    (* ErrorNotifier *)
    Messages, Packs, NoPack, PackOf, Warnings, Registrars, HandlerOf, SamePackTimeout,
    KeepTime, LastNotice,
    (* SmtpClient *)
    Mails, UserNames, Passwords, ToUser,
    (* AmqpReceiver *)
    Queues, NoQueue, MaxMessages, MaxConsumers,
    (* AmqpPublisher *)
    Exchanges, NoExchange, Callers, Owner, MaxPublish,
    (* HttpDownloader *)
    Pieces,
    (* Logs *)
    LogNames, Archivers, LastDay, MaxLines,
    DottedNames, OtherNames, OtherArchivers, OtherLastDay, OtherMaxLines, NoName

ASSUME ClientAssumption == LastReplyTime \in Nat /\ CheckTimeout \in Int
ASSUME RequestAssumption ==
    /\ MethodNames \cup Paths \cup Bases \cup {Status} \subseteq Seq(STRING)
    /\ <<>> \notin MethodNames \cup {Status}
ASSUME SettingsAssumption == IsFiniteSet(Keys)
ASSUME AppAssumption ==
    /\ Migrations \subseteq Nat \ {0} /\ Releases \subseteq Nat /\ Languages # {}
    /\ \A m \in Migrations : VersionOf[m] \in Nat \ {0} /\ MovesTo[m] \in Nat
ASSUME NotifierAssumption ==
    /\ \A m \in Messages : PackOf[m] \in Packs \cup {NoPack}
    /\ NoPack \notin Packs /\ SamePackTimeout \in Nat /\ LastNotice \in Nat
ASSUME SmtpAssumption ==
    /\ UserNames # {} /\ Passwords # {}
    /\ \A m \in Mails : /\ m.to \in Seq(DOMAIN ToUser) /\ m.cc \in Seq(DOMAIN ToUser)
                        /\ m.bcc \in Seq(DOMAIN ToUser)
                        /\ m.body \in Seq({"text", "dot", "dotted"})
ASSUME AmqpAssumption ==
    NoQueue \notin Queues /\ MaxConsumers \in Nat \ {0} /\ Owner \in Callers
ASSUME DownloaderAssumption == Pieces \in Nat

VARIABLES
    part,
    clock, client, checking, reply, timeoutAt, startedAt, mailedAt, slowAt,
    methods, server, sender, exchange,
    settings,
    phase, target, stored, packed, last, applied, passed, inits, ran, language, crashFile,
    time, notified, posted, handlers, startBuffer, registering, missed, packTime, mails,
    reached, messages,
    smtpSettings, session, toServer, toClient, mailServer,
    link, autoReconnect, tries, unreported, started, leaving,
    queueName, create, queue, queueState, known, hooked, opened, declaring, consuming,
    declared, consumers, waiting, sent, handled, invalid,
    exchangeName, createExchange, usedExchange, exchangeState, knownExchanges,
    openExchanges, nextPublishId, numbered, postedCalls, outcomes, publisherOf, brokerGot,
    mode, stage, response, arrived, buffered, written, lost, promise, fills, queued, deleting,
    alive, missedEnd, touchedGone,
    today, messageHandler, nameBase, logFile, linked, fileDate, writing, timers, disk,
    archives, archiver, home, spoiled

clientVars == <<clock, client, checking, reply, timeoutAt, startedAt, mailedAt, slowAt>>
requestVars == <<methods, server, sender, exchange>>
appVars == <<phase, target, stored, packed, last, applied, passed, inits, ran, language,
             crashFile>>
notifierVars == <<time, notified, posted, handlers, startBuffer, registering, missed,
                  packTime, mails, reached, messages>>
smtpVars == <<smtpSettings, session, toServer, toClient, mailServer>>
linkVars == <<link, autoReconnect, tries, unreported, started, leaving>>
receiverVars == <<queueName, create, queue, queueState, known, hooked, opened, declaring,
                  consuming, declared, consumers, waiting, sent, handled, invalid>>
publisherVars == <<exchangeName, createExchange, usedExchange, exchangeState,
                   knownExchanges, openExchanges, nextPublishId, numbered, postedCalls,
                   outcomes, publisherOf, brokerGot>>
downloaderVars == <<mode, stage, response, arrived, buffered, written, lost, promise, fills,
                    queued, deleting, alive, missedEnd, touchedGone>>
logVars == <<today, messageHandler, nameBase, logFile, linked, fileDate, writing, timers,
             disk, archives, archiver, home, spoiled>>

-----------------------------------------------------------------------------
(* The instances: their constants and variables are those of the same name *)
(* here, where nothing else is said.                                       *)

Client == INSTANCE RestClient WITH LastTime <- LastReplyTime
Request == INSTANCE RestExchange WITH Names <- MethodNames
Groups == INSTANCE Settings
App == INSTANCE Application
Notifier == INSTANCE ErrorNotifier WITH LastTime <- LastNotice
Smtp == INSTANCE SmtpClient WITH settings <- smtpSettings, server <- mailServer
Receiver == INSTANCE AmqpReceiver
Publisher == INSTANCE AmqpPublisher WITH
    exchange <- usedExchange, posted <- postedCalls, reached <- brokerGot
Downloader == INSTANCE HttpDownloader WITH missed <- missedEnd

(* Names without a dot alone, and beside others that have one.             *)
AppLogs == INSTANCE Logs WITH
    stored <- timers, Names <- LogNames, Dotted <- DottedNames
DottedLogs == INSTANCE Logs WITH
    stored <- timers, Names <- OtherNames, Dotted <- DottedNames,
    Archivers <- OtherArchivers, LastDay <- OtherLastDay, MaxLines <- OtherMaxLines

-----------------------------------------------------------------------------
(* A service that the behaviour is not about.                              *)

Off(v) == v = "off"

ClientOff ==
    /\ Off(clock) /\ Off(client) /\ Off(checking) /\ Off(reply) /\ Off(timeoutAt)
    /\ Off(startedAt) /\ Off(mailedAt) /\ Off(slowAt)
RequestOff == Off(methods) /\ Off(server) /\ Off(sender) /\ Off(exchange)
SettingsOff == Off(settings)
AppOff ==
    /\ Off(phase) /\ Off(target) /\ Off(stored) /\ Off(packed) /\ Off(last) /\ Off(applied)
    /\ Off(passed) /\ Off(inits) /\ Off(ran) /\ Off(language) /\ Off(crashFile)
NotifierOff ==
    /\ Off(time) /\ Off(notified) /\ Off(posted) /\ Off(handlers) /\ Off(startBuffer)
    /\ Off(registering) /\ Off(missed) /\ Off(packTime) /\ Off(mails) /\ Off(reached)
    /\ Off(messages)
SmtpOff ==
    /\ Off(smtpSettings) /\ Off(session) /\ Off(toServer) /\ Off(toClient)
    /\ Off(mailServer)
LinkOff ==
    /\ Off(link) /\ Off(autoReconnect) /\ Off(tries) /\ Off(unreported) /\ Off(started)
    /\ Off(leaving)
ReceiverOff ==
    /\ Off(queueName) /\ Off(create) /\ Off(queue) /\ Off(queueState) /\ Off(known)
    /\ Off(hooked) /\ Off(opened) /\ Off(declaring) /\ Off(consuming) /\ Off(declared)
    /\ Off(consumers) /\ Off(waiting) /\ Off(sent) /\ Off(handled) /\ Off(invalid)
PublisherOff ==
    /\ Off(exchangeName) /\ Off(createExchange) /\ Off(usedExchange) /\ Off(exchangeState)
    /\ Off(knownExchanges) /\ Off(openExchanges) /\ Off(nextPublishId) /\ Off(numbered)
    /\ Off(postedCalls) /\ Off(outcomes) /\ Off(publisherOf) /\ Off(brokerGot)
DownloaderOff ==
    /\ Off(mode) /\ Off(stage) /\ Off(response) /\ Off(arrived) /\ Off(buffered)
    /\ Off(written) /\ Off(lost) /\ Off(promise) /\ Off(fills) /\ Off(queued) /\ Off(deleting)
    /\ Off(alive) /\ Off(missedEnd) /\ Off(touchedGone)
LogsOff ==
    /\ Off(today) /\ Off(messageHandler) /\ Off(nameBase) /\ Off(logFile) /\ Off(linked)
    /\ Off(fileDate) /\ Off(writing) /\ Off(timers) /\ Off(disk) /\ Off(archives)
    /\ Off(archiver) /\ Off(home) /\ Off(spoiled)

(* The refinement is a property of every behaviour, so that entities are   *)
(* there in each of them.                                                  *)
AnEntity == [f \in Fields |-> CHOOSE v \in Versions : TRUE]
EntitiesOff ==
    /\ pc = [t \in Threads |-> "idle"]
    /\ mine = [t \in Threads |-> CHOOSE e \in Entity : TRUE] /\ other = mine
    /\ copied = [t \in Threads |-> {}] /\ holder = [e \in Entity |-> NoThread]
    /\ content = [e \in Entity |-> AnEntity]
    /\ fetched = [e \in Entity |-> FALSE] /\ dirty = fetched

ServicesInit ==
    /\ part \in {"client", "request", "settings", "app", "notifier", "smtp", "receiver",
                 "publisher", "downloader", "logs", "dottedLogs", "entities"}
    /\ IF part = "client" THEN Client!Init ELSE ClientOff
    /\ IF part = "request" THEN Request!Init ELSE RequestOff
    /\ IF part = "settings" THEN Groups!Init ELSE SettingsOff
    /\ IF part = "app" THEN App!Init ELSE AppOff
    /\ IF part = "notifier" THEN Notifier!Init ELSE NotifierOff
    /\ IF part = "smtp" THEN Smtp!Init ELSE SmtpOff
    /\ IF part = "receiver" THEN Receiver!InitReceiver ELSE ReceiverOff
    /\ IF part = "publisher" THEN Publisher!InitPublisher ELSE PublisherOff
    /\ part \notin {"receiver", "publisher"} => LinkOff
    /\ IF part = "downloader" THEN Downloader!Init ELSE DownloaderOff
    /\ CASE part = "logs" -> AppLogs!Init
         [] part = "dottedLogs" -> DottedLogs!Init
         [] OTHER -> LogsOff
    /\ IF part = "entities" THEN EntitiesInit ELSE EntitiesOff

(* A step of the one service; the others keep still.                      *)
ServicesNext ==
    \/ /\ part = "client" /\ Client!Next
       /\ UNCHANGED <<part, requestVars, settings, appVars, notifierVars, smtpVars,
                    linkVars, receiverVars, publisherVars, downloaderVars, logVars,
                    entityVars>>
    \/ /\ part = "request" /\ Request!Next
       /\ UNCHANGED <<part, clientVars, settings, appVars, notifierVars, smtpVars,
                    linkVars, receiverVars, publisherVars, downloaderVars, logVars,
                    entityVars>>
    \/ /\ part = "settings" /\ Groups!Next
       /\ UNCHANGED <<part, clientVars, requestVars, appVars, notifierVars, smtpVars,
                    linkVars, receiverVars, publisherVars, downloaderVars, logVars,
                    entityVars>>
    \/ /\ part = "app" /\ App!Next
       /\ UNCHANGED <<part, clientVars, requestVars, settings, notifierVars, smtpVars,
                    linkVars, receiverVars, publisherVars, downloaderVars, logVars,
                    entityVars>>
    \/ /\ part = "notifier" /\ Notifier!Next
       /\ UNCHANGED <<part, clientVars, requestVars, settings, appVars, smtpVars,
                    linkVars, receiverVars, publisherVars, downloaderVars, logVars,
                    entityVars>>
    \/ /\ part = "smtp" /\ Smtp!Next
       /\ UNCHANGED <<part, clientVars, requestVars, settings, appVars, notifierVars,
                    linkVars, receiverVars, publisherVars, downloaderVars, logVars,
                    entityVars>>
    \/ /\ part = "receiver" /\ Receiver!ReceiverNext
       /\ UNCHANGED <<part, clientVars, requestVars, settings, appVars, notifierVars,
                    smtpVars, publisherVars, downloaderVars, logVars, entityVars>>
    \/ /\ part = "publisher" /\ Publisher!PublisherNext
       /\ UNCHANGED <<part, clientVars, requestVars, settings, appVars, notifierVars,
                    smtpVars, receiverVars, downloaderVars, logVars, entityVars>>
    \/ /\ part = "downloader" /\ Downloader!Next
       /\ UNCHANGED <<part, clientVars, requestVars, settings, appVars, notifierVars,
                    smtpVars, linkVars, receiverVars, publisherVars, logVars, entityVars>>
    \/ /\ part = "logs" /\ AppLogs!Next
       /\ UNCHANGED <<part, clientVars, requestVars, settings, appVars, notifierVars,
                    smtpVars, linkVars, receiverVars, publisherVars, downloaderVars,
                    entityVars>>
    \/ /\ part = "dottedLogs" /\ DottedLogs!Next
       /\ UNCHANGED <<part, clientVars, requestVars, settings, appVars, notifierVars,
                    smtpVars, linkVars, receiverVars, publisherVars, downloaderVars,
                    entityVars>>
    \/ /\ part = "entities" /\ EntitiesNext
       /\ UNCHANGED <<part, clientVars, requestVars, settings, appVars, notifierVars,
                    smtpVars, linkVars, receiverVars, publisherVars, downloaderVars,
                    logVars>>

servicesVars == <<part, clientVars, requestVars, settings, appVars, notifierVars, smtpVars,
                  linkVars, receiverVars, publisherVars, downloaderVars, logVars, entityVars>>

ServicesSpec == ServicesInit /\ [][ServicesNext]_servicesVars

-----------------------------------------------------------------------------
(* What each service keeps, whatever the order of its steps.               *)

(* restclient.cpp: exactly the replies that run have a timer, and each     *)
(* slow one is told by a mail unless one was sent shortly before.          *)
RepliesAreTimedAndTold ==
    part = "client" => Client!RepliesAreTimed /\ Client!SlowRepliesAreTold

(* abstractrestserver.cpp: a request reaches the one method its path names *)
(* and its credentials open, and is answered once, or twice by parseAuth.  *)
RequestsAreAnswered ==
    part = "request" => Request!RequestsReachTheirMethod /\ Request!AnsweredOnce

(* settingsgroup.cpp: the names a group lists are those of its values, and *)
(* the values are those in the file and those that were announced.         *)
SettingsAgree ==
    part = "settings" => Groups!NamesAreExact /\ Groups!AnnouncedValuesAreKept

(* coreapplication.cpp: a program that is up has no migration left to run, *)
(* and no initializer.                                                     *)
MigrationsAreRun == part = "app" => App!NoMigrationIsLost /\ App!ReadyWhenUp

(* errornotifier.cpp: messages kept before the first handler reach it, and *)
(* mails of a pack are neither lost nor sent too often.                    *)
ErrorsAreNotified ==
    part = "notifier" => Notifier!KeptForFirstHandler /\ Notifier!MailsFollowPacks

(* smtpclient.cpp: the server takes the mail that was sent, and success is *)
(* only reported for a mail it took.                                       *)
MailsAreSent == part = "smtp" => Smtp!TakenAsAsked /\ Smtp!SuccessIsReal

(* abstractamqpreceiver.cpp, amqppublisher.cpp: messages received are      *)
(* handled once, from the queue of this object; messages published are     *)
(* answered once; errors kept silent are counted.                          *)
MessagesAreExact ==
    /\ part = "receiver" => /\ Receiver!MessagesAreHandledOnce
                            /\ Receiver!ConsumesItsQueue
                            /\ Receiver!SilentErrorsAreCounted
    /\ part = "publisher" => /\ Publisher!MessagesAreAnsweredOnce
                             /\ Publisher!SilentErrorsAreCounted

(* httpdownloader.cpp: a download that succeeds is whole, and one whose    *)
(* reply ended is answered.                                                *)
DownloadsAreExact ==
    part = "downloader" => Downloader!DownloadIsExact /\ Downloader!EndedIsAnswered

(* logs.cpp: no line logged under a name without a dot is lost to an       *)
(* archiver, a midnight or a crash, even if other names have dots.         *)
LinesAreKept ==
    /\ part = "logs" => AppLogs!NoLineIsLost
    /\ part = "dottedLogs" => DottedLogs!NoLineIsLost

=============================================================================
