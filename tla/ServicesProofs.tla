---------------------------- MODULE ServicesProofs ----------------------------
(***************************************************************************)
(* Proofs about Services.tla, for any values of its constants: one         *)
(* inductive invariant per service, and the refinement of AtomicUpdates by *)
(* the entities.                                                           *)
(***************************************************************************)
EXTENDS Services, SequenceTheorems, TLAPS

(* Appending keeps the entries and adds one.                               *)
LEMMA AppendEntries ==
    ASSUME NEW S, NEW s \in Seq(S), NEW e \in S
    PROVE  /\ Append(s, e) \in Seq(S)
           /\ Len(Append(s, e)) = Len(s) + 1
           /\ \A j \in 1 .. Len(s) : Append(s, e)[j] = s[j]
           /\ Append(s, e)[Len(s) + 1] = e
  BY AppendProperties

(* Appended to the second of two sequences is appended to both.            *)
LEMMA AppendedBehind ==
    ASSUME NEW S, NEW s \in Seq(S), NEW t \in Seq(S), NEW e \in S
    PROVE  s \o Append(t, e) = Append(s \o t, e)
<1> DEFINE one == <<e>>
<1>1. one \in Seq(S) /\ s \o t \in Seq(S)
  BY ConcatProperties
<1>2. Append(t, e) = t \o one /\ Append(s \o t, e) = (s \o t) \o one
  BY <1>1, AppendIsConcat
<1> HIDE DEF one
<1>3. (s \o t) \o one = s \o (t \o one)
  BY <1>1, ConcatAssociative
<1> QED BY <1>2, <1>3

(* A step is one of the service a behaviour is about, or leaves it alone.  *)
LEMMA StepsOfServices ==
    ASSUME [ServicesNext]_servicesVars
    PROVE  /\ part' = part
           /\ part = "client" => [Client!Next]_clientVars
           /\ part = "request" => [Request!Next]_requestVars
           /\ part = "settings" => [Groups!Next]_settings
           /\ part = "app" => [App!Next]_appVars
           /\ part = "notifier" => [Notifier!Next]_notifierVars
           /\ part = "smtp" => [Smtp!Next]_smtpVars
           /\ part = "receiver" => [Receiver!ReceiverNext]_<<linkVars, receiverVars>>
           /\ part = "publisher" => [Publisher!PublisherNext]_<<linkVars, publisherVars>>
           /\ part = "downloader" => [Downloader!Next]_downloaderVars
           /\ part = "logs" => [AppLogs!Next]_logVars
           /\ part = "dottedLogs" => [DottedLogs!Next]_logVars
  BY DEF ServicesNext, servicesVars

Count(n) == [i \in 1 .. n |-> i]

(* The numbers up to n, and one more.                                       *)
LEMMA CountGrows ==
    ASSUME NEW n \in Nat
    PROVE  /\ Count(n) \in Seq(Nat) /\ Len(Count(n)) = n
           /\ Append(Count(n), n + 1) = Count(n + 1)
           /\ Count(n) \o <<n + 1>> = Count(n + 1)
<1>1. Count(n) \in Seq(Nat) /\ Len(Count(n)) = n /\ \A i \in 1 .. n : Count(n)[i] = i
  BY DEF Count
<1>2. /\ Count(n + 1) \in Seq(Nat) /\ Len(Count(n + 1)) = n + 1
      /\ \A i \in 1 .. n + 1 : Count(n + 1)[i] = i
  BY DEF Count
<1> HIDE DEF Count
<1> DEFINE t == Append(Count(n), n + 1)
<1>3. /\ t \in Seq(Nat) /\ Len(t) = n + 1
      /\ \A i \in 1 .. n : t[i] = i
      /\ t[n + 1] = n + 1
  BY <1>1, AppendProperties
<1>4. \A i \in 1 .. n + 1 : t[i] = Count(n + 1)[i]
  BY <1>2, <1>3
<1>5. t = Count(n + 1)
  <2> HIDE DEF t
  <2> QED BY <1>2, <1>3, <1>4, SeqEqual
<1>6. Count(n) \o <<n + 1>> = t
  BY <1>1, AppendIsConcat
<1> QED BY <1>1, <1>5, <1>6

-----------------------------------------------------------------------------
(* RestClient: the property is its own invariant.                          *)
ClientInv == Client!RepliesAreTimed /\ Client!SlowRepliesAreTold

(* Initially there is no reply.                                             *)
LEMMA ClientStarts == Client!Init => ClientInv
  BY ClientAssumption DEF Client!Init, ClientInv, Client!RepliesAreTimed, Client!TypeOK,
     Client!States, Client!SlowRepliesAreTold

(* What the end of a reply does to the timers and the mails.               *)
LEMMA ClientHandles ==
    ASSUME ClientInv, NEW g \in Gets, Client!Handle(g), UNCHANGED <<clock, client, checking>>,
           reply' \in [Gets -> Client!States],
           \A x \in Gets \ {g} : reply'[x] = reply[x], reply'[g] # "running"
    PROVE  ClientInv'
<1> USE DEF ClientInv, Client!RepliesAreTimed, Client!TypeOK
<1>1. CASE client = "alive"
  <2>1. /\ DOMAIN timeoutAt' = DOMAIN timeoutAt \ {g}
        /\ DOMAIN startedAt' = DOMAIN startedAt \ {g}
    BY <1>1 DEF Client!Handle, Client!Cleanup, Client!Without
  <2>2. /\ mailedAt' = IF Client!IsSlow(g) /\ Client!MailIsDue
                       THEN mailedAt \cup {clock} ELSE mailedAt
        /\ slowAt' = IF Client!IsSlow(g) THEN slowAt \cup {clock} ELSE slowAt
    BY <1>1 DEF Client!Handle, Client!Cleanup
  <2>3. Client!RepliesAreTimed'
    BY <1>1, <2>1, <2>2
  <2>4. Client!SlowRepliesAreTold'
    BY <2>2, ClientAssumption DEF Client!SlowRepliesAreTold, Client!MailIsDue
  <2> QED BY <2>3, <2>4
<1>2. CASE client # "alive"
  BY <1>2 DEF Client!Handle, Client!SlowRepliesAreTold
<1> QED BY <1>1, <1>2

(* Every step of the client keeps ClientInv.                                *)
LEMMA ClientSteps == ClientInv /\ [Client!Next]_clientVars => ClientInv'
<1> SUFFICES ASSUME ClientInv, [Client!Next]_clientVars PROVE ClientInv'
  OBVIOUS
<1> USE DEF ClientInv, Client!RepliesAreTimed, Client!TypeOK
<1>1. ASSUME NEW g \in Gets, Client!Request(g) PROVE ClientInv'
  BY <1>1 DEF Client!Request, Client!States, Client!SlowRepliesAreTold
<1>2. ASSUME NEW g \in Gets, Client!HandleReply(g) PROVE ClientInv'
  <2>1. /\ reply' = [reply EXCEPT ![g] = "running"] /\ client = "alive"
        /\ DOMAIN timeoutAt' = DOMAIN timeoutAt \cup {g}
        /\ DOMAIN startedAt' = DOMAIN startedAt \cup {g}
    BY <1>2 DEF Client!HandleReply
  <2>2. UNCHANGED <<clock, client, checking, mailedAt, slowAt>>
    BY <1>2 DEF Client!HandleReply
  <2> QED BY <2>1, <2>2 DEF Client!States, Client!SlowRepliesAreTold
<1>3. ASSUME NEW g \in Gets, Client!SslErrors(g) \/ Client!Error(g) \/ Client!Finished(g)
      PROVE  ClientInv'
  <2>1. /\ Client!Handle(g) /\ UNCHANGED <<clock, client, checking>>
        /\ \E s \in {"refused", "failed", "finished"} : reply' = [reply EXCEPT ![g] = s]
    BY <1>3 DEF Client!SslErrors, Client!Error, Client!Finished
  <2> QED BY <2>1, ClientHandles DEF Client!States
<1>4. ASSUME NEW g \in Gets, Client!Timeout(g) PROVE ClientInv'
  <2>1. /\ Client!Handle(g) /\ UNCHANGED <<clock, client, checking>>
        /\ reply' = [reply EXCEPT ![g] = IF reply[g] = "running" THEN "finished" ELSE reply[g]]
    BY <1>4 DEF Client!Timeout
  <2> QED BY <2>1, ClientHandles DEF Client!States
<1>5. CASE Client!CleanupAll
  BY <1>5 DEF Client!CleanupAll, Client!SlowRepliesAreTold
<1>6. CASE Client!Tick
  BY <1>6, ClientAssumption DEF Client!Tick, Client!SlowRepliesAreTold
<1>7. CASE UNCHANGED clientVars
  BY <1>7 DEF clientVars, Client!SlowRepliesAreTold
<1> QED BY <1>1, <1>2, <1>3, <1>4, <1>5, <1>6, <1>7 DEF Client!Next

(* restclient.cpp: exactly the replies that run have a timer, and each     *)
(* slow one is told by a mail unless one was sent shortly before.          *)
THEOREM RepliesAlwaysTimedAndTold == ServicesSpec => []RepliesAreTimedAndTold
<1> DEFINE Inv == part = "client" => ClientInv
<1>1. ServicesInit => Inv
  BY ClientStarts DEF ServicesInit
<1>2. Inv /\ [ServicesNext]_servicesVars => Inv'
  BY ClientSteps, StepsOfServices
<1>3. Inv => RepliesAreTimedAndTold
  BY DEF RepliesAreTimedAndTold, ClientInv
<1> QED BY <1>1, <1>2, <1>3, PTL DEF ServicesSpec

-----------------------------------------------------------------------------
(* CoreApplication.                                                        *)
Done == applied \cup passed

(* The versions in the settings are never ahead of what was run, and a     *)
(* round has run all behind its start up to the last one it ran.           *)
MigrationInv ==
    /\ App!UpTo(stored) \subseteq Done
    /\ phase = "migrating" =>
          /\ packed = stored
          /\ \A m \in App!Registered :
                VersionOf[m] > App!Lesser(packed) /\ m <= last => m \in Done

AppInv == MigrationInv /\ App!NoMigrationIsLost /\ App!ReadyWhenUp

(* The first start of the program.                                          *)
LEMMA AppStarts == App!Init => AppInv
<1> SUFFICES ASSUME App!Init PROVE AppInv
  OBVIOUS
<1> USE DEF App!Init, App!VersionPair
<1>1. language \in [current : Languages, translators : Languages]
      /\ language.translators = language.current
  BY AppAssumption
<1>2. App!UpTo(stored) = {}
  <2>1. stored.app = 0 /\ stored.proof = 0
    OBVIOUS
  <2>2. \A m \in Migrations : ~ (VersionOf[m] <= 0)
    BY AppAssumption
  <2> QED BY <2>1, <2>2 DEF App!UpTo
<1>3. MigrationInv /\ App!NoMigrationIsLost
  BY <1>2 DEF MigrationInv, App!NoMigrationIsLost
<1>4. [app |-> 0, proof |-> 0] \in [app : Nat, proof : Nat]
  OBVIOUS
<1>5. App!TypeOK
  BY <1>1, <1>4, Zenon DEF App!TypeOK
<1> QED BY <1>1, <1>3, <1>5, Zenon DEF AppInv, App!ReadyWhenUp

(* Versions are numbers that can be compared.                               *)
LEMMA VersionsAreNumbers ==
    ASSUME AppInv
    PROVE  /\ \A v \in {target, stored, packed} :
                 /\ v.app \in Nat /\ v.proof \in Nat /\ App!Lesser(v) \in Nat
                 /\ App!Lesser(v) <= v.app /\ App!Lesser(v) <= v.proof
           /\ last \in Nat
           /\ \A m \in Migrations : m \in Nat \ {0} /\ VersionOf[m] \in Nat \ {0}
  BY AppAssumption DEF AppInv, App!ReadyWhenUp, App!TypeOK, App!Lesser

(* A start begins a round of migrations.                                    *)
LEMMA StartsARound == AppInv /\ App!Start => AppInv'
<1> SUFFICES ASSUME AppInv, App!Start PROVE AppInv'
  OBVIOUS
<1>1. PICK a \in Releases, p \in Releases :
         /\ target' = App!VersionPair(a, p)
         /\ phase' = IF App!UpToDate(stored, App!VersionPair(a, p)) THEN "ready"
                     ELSE "migrating"
  BY DEF App!Start
<1>2. /\ packed' = stored /\ last' = 0 /\ ran' = {} /\ inits' \in SUBSET Initializers
      /\ UNCHANGED <<stored, applied, passed, language, crashFile>>
  BY DEF App!Start
<1>3. a \in Nat /\ p \in Nat /\ target' = [app |-> a, proof |-> p]
  BY <1>1, AppAssumption DEF App!VersionPair
<1>4. App!TypeOK' /\ App!ReadyWhenUp'
  BY <1>1, <1>2, <1>3 DEF AppInv, App!ReadyWhenUp, App!TypeOK
<1>5. MigrationInv'
  <2>1. \A m \in App!Registered' : ~ (m <= last')
    BY <1>2, VersionsAreNumbers DEF App!Registered, App!UpTo
  <2>2. App!UpTo(stored)' \subseteq Done'
    BY <1>2 DEF AppInv, MigrationInv, Done, App!UpTo
  <2> QED BY <1>2, <2>1, <2>2 DEF MigrationInv
<1>6. App!NoMigrationIsLost'
  <2> SUFFICES ASSUME phase' = "ready", NEW m \in App!Registered' PROVE m \in Done'
    BY <1>1 DEF App!NoMigrationIsLost, Done
  <2>1. stored.app >= a /\ stored.proof >= p
    BY <1>1, <1>3 DEF App!UpToDate, App!VersionPair
  <2>2. m \in App!UpTo(stored)
    BY <2>1, <1>3, VersionsAreNumbers DEF App!Registered, App!UpTo
  <2> QED BY <2>2, <1>2 DEF AppInv, MigrationInv, Done
<1> QED BY <1>4, <1>5, <1>6 DEF AppInv

(* The next migration of a round is run, and none between is left out.      *)
LEMMA RunsTheNextMigration == AppInv /\ App!RunMigration => AppInv'
<1> SUFFICES ASSUME AppInv, App!RunMigration PROVE AppInv'
  OBVIOUS
<1>1. /\ phase = "migrating" /\ packed = stored /\ packed' = stored'
      /\ UNCHANGED <<phase, target, inits, ran, language, crashFile>>
  BY DEF App!RunMigration, AppInv, MigrationInv
<1>2. PICK m \in App!ToRun :
         /\ \A x \in App!ToRun : m <= x
         /\ applied' = applied \cup {m}
         /\ stored' = IF MovesTo[m] = 0 THEN stored ELSE [stored EXCEPT !.app = MovesTo[m]]
         /\ last' = IF stored' = packed THEN m ELSE 0
         /\ passed' = IF stored' = packed THEN passed
                      ELSE passed \cup {x \in Migrations \cap OfApp : VersionOf[x] <= stored'.app}
  BY DEF App!RunMigration
<1>3. m \in Migrations /\ m \in Done' /\ Done \subseteq Done' /\ MovesTo[m] \in Nat
  BY <1>2, AppAssumption DEF App!ToRun, App!Registered, App!UpTo, Done
<1>4. stored' \in [app : Nat, proof : Nat] /\ stored'.proof = stored.proof
  BY <1>2, <1>3 DEF AppInv, App!ReadyWhenUp, App!TypeOK
<1>5. App!TypeOK'
  BY <1>1, <1>2, <1>3, <1>4 DEF AppInv, App!ReadyWhenUp, App!TypeOK
<1>6. App!ReadyWhenUp' /\ App!NoMigrationIsLost'
  BY <1>1, <1>5 DEF AppInv, App!ReadyWhenUp, App!NoMigrationIsLost
<1>7. CASE stored' = stored
  <2>1. App!Registered' = App!Registered /\ App!Lesser(packed)' = App!Lesser(packed)
    BY <1>1, <1>7 DEF App!Registered, App!UpTo, App!Lesser
  <2>2. ASSUME NEW x \in App!Registered, VersionOf[x] > App!Lesser(packed), x <= last'
        PROVE  x \in Done'
    <3>1. x <= m /\ x \in Nat /\ m \in Nat
      BY <1>1, <1>2, <1>3, <1>7, <2>2, VersionsAreNumbers DEF App!Registered, App!UpTo
    <3>2. CASE x <= last
      BY <1>1, <1>3, <2>2, <3>2 DEF AppInv, MigrationInv
    <3>3. CASE ~ (x <= last)
      <4>1. x \in App!ToRun
        BY <2>2, <3>1, <3>3, VersionsAreNumbers DEF App!ToRun
      <4>2. x = m
        BY <1>2, <3>1, <4>1
      <4> QED BY <1>3, <4>2
    <3> QED BY <3>2, <3>3
  <2>3. MigrationInv'
    BY <1>1, <1>3, <1>7, <2>1, <2>2 DEF AppInv, MigrationInv, App!UpTo
  <2> QED BY <1>6, <2>3 DEF AppInv
<1>8. CASE stored' # stored
  <2>1. /\ last' = 0
        /\ {x \in Migrations \cap OfApp : VersionOf[x] <= stored'.app} \subseteq Done'
    BY <1>1, <1>2, <1>8 DEF Done
  <2>2. App!UpTo(stored)' \subseteq Done'
    <3> SUFFICES ASSUME NEW x \in App!UpTo(stored)' PROVE x \in Done'
      OBVIOUS
    <3>1. CASE x \in OfApp
      BY <2>1, <3>1 DEF App!UpTo
    <3>2. CASE x \notin OfApp
      BY <1>3, <1>4, <3>2 DEF App!UpTo, AppInv, MigrationInv
    <3> QED BY <3>1, <3>2
  <2>3. \A x \in App!Registered' : ~ (x <= last')
    BY <2>1, VersionsAreNumbers DEF App!Registered, App!UpTo
  <2>4. MigrationInv'
    BY <1>1, <2>2, <2>3 DEF MigrationInv
  <2> QED BY <1>6, <2>4 DEF AppInv
<1> QED BY <1>7, <1>8

(* Every step of the program keeps AppInv.                                  *)
LEMMA AppSteps == AppInv /\ [App!Next]_appVars => AppInv'
<1> SUFFICES ASSUME AppInv, [App!Next]_appVars PROVE AppInv'
  OBVIOUS
<1> USE DEF App!ReadyWhenUp, App!TypeOK
<1>1. CASE App!StoreVersions
  <2>1. /\ phase = "migrating" /\ phase' = "ready" /\ App!ToRun = {} /\ stored' = target
        /\ UNCHANGED <<target, packed, last, applied, passed, inits, ran, language, crashFile>>
    BY <1>1 DEF App!StoreVersions
  <2>2. ASSUME NEW m \in App!Registered PROVE m \in Done
    <3>1. m \in Migrations
      BY DEF App!Registered, App!UpTo
    <3>2. CASE VersionOf[m] <= App!Lesser(packed)
      <4>1. packed = stored
        BY <2>1 DEF AppInv, MigrationInv
      <4>2. m \in App!UpTo(stored)
        BY <3>1, <3>2, <4>1, VersionsAreNumbers DEF App!UpTo
      <4> QED BY <4>2 DEF AppInv, MigrationInv
    <3>3. CASE ~ (VersionOf[m] <= App!Lesser(packed))
      <4>1. VersionOf[m] > App!Lesser(packed) /\ m <= last
        BY <2>1, <3>1, <3>3, VersionsAreNumbers DEF App!ToRun
      <4> QED BY <2>1, <4>1 DEF AppInv, MigrationInv
    <3> QED BY <3>2, <3>3
  <2>3. MigrationInv' /\ App!NoMigrationIsLost'
    BY <2>1, <2>2 DEF MigrationInv, App!NoMigrationIsLost, App!Registered, App!UpTo, Done
  <2>4. App!ReadyWhenUp'
    BY <2>1 DEF AppInv
  <2> QED BY <2>3, <2>4 DEF AppInv
<1>2. CASE ~ App!Start /\ ~ App!RunMigration /\ ~ App!StoreVersions
  <2>1. /\ UNCHANGED <<target, stored, packed, last, applied, passed>>
        /\ phase' = "migrating" => phase = "migrating"
        /\ phase' \in {"ready", "up"} => phase \in {"ready", "up"}
    BY <1>2 DEF App!Next, App!Complete, App!AddInitializer, App!SetLanguage, App!Quit,
       App!SignalHandler, App!Ended, appVars
  <2>2. MigrationInv' /\ App!NoMigrationIsLost'
    BY <2>1 DEF AppInv, MigrationInv, App!NoMigrationIsLost, App!Registered, App!UpTo,
       App!Lesser, Done
  <2>3. App!ReadyWhenUp'
    <3>1. CASE App!Complete
      BY <3>1 DEF AppInv, App!Complete, App!InitTranslator, App!PostInit
    <3>2. CASE App!AddInitializer
      BY <3>2 DEF AppInv, App!AddInitializer
    <3>3. CASE App!SetLanguage
      BY <3>3 DEF AppInv, App!SetLanguage
    <3>4. CASE App!Quit \/ App!SignalHandler
      BY <3>4 DEF AppInv, App!Quit, App!SignalHandler, App!Ended
    <3>5. CASE UNCHANGED appVars
      BY <3>5 DEF AppInv, appVars
    <3> QED BY <1>2, <3>1, <3>2, <3>3, <3>4, <3>5 DEF App!Next
  <2> QED BY <2>2, <2>3 DEF AppInv
<1> QED BY <1>1, <1>2, StartsARound, RunsTheNextMigration

(* coreapplication.cpp: a program that is up has run every migration up to *)
(* its version, but for those that a migration passed over, and every     *)
(* initializer.                                                            *)
THEOREM MigrationsAlwaysRun == ServicesSpec => []MigrationsAreRun
<1> DEFINE Inv == part = "app" => AppInv
<1>1. ServicesInit => Inv
  BY AppStarts DEF ServicesInit
<1>2. Inv /\ [ServicesNext]_servicesVars => Inv'
  BY AppSteps, StepsOfServices
<1>3. Inv => MigrationsAreRun
  BY DEF MigrationsAreRun, AppInv
<1> QED BY <1>1, <1>2, <1>3, PTL DEF ServicesSpec

-----------------------------------------------------------------------------
(* ErrorNotifier.                                                          *)
NotifierTypeOK ==
    /\ time \in 0 .. LastNotice
    /\ posted \in Seq(Messages) /\ startBuffer \in Seq(Messages)
    /\ registering \in [Registrars -> [at : {"idle", "looked", "replaced", "done"},
                                       fire : BOOLEAN]]

WillFire == \E r \in Registrars : registering[r].at = "replaced" /\ registering[r].fire

(* A kept message will be notified again by a registration that has no     *)
(* step left but the one that does it; or nobody has a handler, or has     *)
(* seen one.                                                               *)
KeptInv ==
    \A i \in 1 .. Len(startBuffer) :
        \/ startBuffer[i] \in missed \/ WillFire
        \/ handlers = {} /\ ~Notifier!Overlooked

NoMailYet == LastNotice + SamePackTimeout

(* The time kept for a pack is that of its last mail.                      *)
PackInv ==
    /\ mails \subseteq Messages \X Nat /\ reached \subseteq Messages \X Nat
    /\ packTime \in [Packs -> Nat]
    /\ \A p \in Packs : packTime[p] = NoMailYet \/ packTime[p] <= time
    /\ \A p \in Packs : packTime[p] # NoMailYet =>
          \E y \in mails : PackOf[y[1]] = p /\ y[2] = packTime[p]
    /\ \A y \in mails : PackOf[y[1]] # NoPack =>
          packTime[PackOf[y[1]]] <= time /\ y[2] <= packTime[PackOf[y[1]]]

NotifierInv == NotifierTypeOK /\ KeptInv /\ PackInv /\ Notifier!MailsFollowPacks

(* Initially nothing is kept and nobody notified.                           *)
LEMMA NotifierStarts == Notifier!Init => NotifierInv
<1> SUFFICES ASSUME Notifier!Init PROVE NotifierInv
  OBVIOUS
<1> USE DEF Notifier!Init
<1>1. <<>> \in Seq(Messages) /\ Len(startBuffer) = 0 /\ time \in 0 .. LastNotice
  BY EmptySeq, NotifierAssumption
<1>2. NotifierTypeOK
  BY <1>1, Zenon DEF NotifierTypeOK
<1>3. KeptInv
  BY <1>1 DEF KeptInv
<1>4. PackInv /\ Notifier!MailsFollowPacks
  BY NotifierAssumption DEF PackInv, NoMailYet, Notifier!MailsFollowPacks
<1> QED BY <1>2, <1>3, <1>4 DEF NotifierInv

(* The mail handler, and the messages kept while nobody had a handler.     *)
LEMMA MailsFollow ==
    ASSUME NotifierInv, NEW m \in Messages, Notifier!EmailNotify(m), time' = time
    PROVE  PackInv' /\ Notifier!MailsFollowPacks'
<1> DEFINE p == PackOf[m]
           z == <<m, time>>
           Sends == ~ (m \in Warnings \/ (p # NoPack /\ Notifier!Throttled(p)))
<1>1. /\ PackInv /\ Notifier!MailsFollowPacks /\ time \in Nat /\ time <= LastNotice
      /\ SamePackTimeout \in Nat /\ LastNotice \in Nat /\ p \in Packs \cup {NoPack}
      /\ NoPack \notin Packs /\ z \in Messages \X Nat /\ z[1] = m /\ z[2] = time
  BY NotifierAssumption DEF NotifierInv, NotifierTypeOK
<1>2. CASE "email" \notin handlers
  BY <1>1, <1>2 DEF Notifier!EmailNotify, PackInv, Notifier!MailsFollowPacks
<1>3. CASE "email" \in handlers /\ ~ Sends
  <2>1. /\ reached' = reached \cup {z} /\ UNCHANGED <<mails, packTime>>
        /\ m \in Warnings \/ (p # NoPack /\ Notifier!Throttled(p))
    BY <1>3 DEF Notifier!EmailNotify
  <2>2. PackInv'
    BY <1>1, <2>1 DEF PackInv
  <2>3. ASSUME m \notin Warnings
        PROVE  \E y \in mails : /\ PackOf[y[1]] = p /\ p # NoPack
                                /\ y[2] <= time /\ time - y[2] < SamePackTimeout
    <3>1. p \in Packs /\ packTime[p] <= time /\ time - packTime[p] < SamePackTimeout
          /\ packTime[p] \in Nat
      BY <1>1, <2>1, <2>3 DEF Notifier!Throttled, PackInv
    <3>2. packTime[p] # NoMailYet
      BY <1>1, <3>1 DEF NoMailYet
    <3>3. PICK y \in mails : PackOf[y[1]] = p /\ y[2] = packTime[p]
      BY <1>1, <3>1, <3>2 DEF PackInv
    <3> QED BY <1>1, <3>1, <3>3
  <2>4. Notifier!MailsFollowPacks'
    BY <1>1, <2>1, <2>3 DEF Notifier!MailsFollowPacks
  <2> QED BY <2>2, <2>4
<1>4. CASE "email" \in handlers /\ Sends
  <2>1. /\ reached' = reached \cup {z} /\ mails' = mails \cup {z}
        /\ packTime' = IF p = NoPack THEN packTime ELSE [packTime EXCEPT ![p] = time]
    BY <1>4 DEF Notifier!EmailNotify
  <2>2. packTime' \in [Packs -> Nat]
    BY <1>1, <2>1 DEF PackInv
  <2>3. ASSUME NEW q \in Packs
        PROVE  /\ packTime'[q] = NoMailYet \/ packTime'[q] <= time
               /\ packTime'[q] # NoMailYet =>
                     \E y \in mails' : PackOf[y[1]] = q /\ y[2] = packTime'[q]
    <3>1. CASE q = p
      BY <1>1, <2>1, <3>1 DEF PackInv
    <3>2. CASE q # p
      <4>1. packTime'[q] = packTime[q] /\ mails \subseteq mails'
        BY <1>1, <2>1, <3>2 DEF PackInv
      <4> QED BY <1>1, <4>1 DEF PackInv
    <3> QED BY <3>1, <3>2
  <2>4. ASSUME NEW y \in mails', PackOf[y[1]] # NoPack
        PROVE  packTime'[PackOf[y[1]]] <= time /\ y[2] <= packTime'[PackOf[y[1]]]
    <3>1. y[1] \in Messages /\ y[2] \in Nat /\ PackOf[y[1]] \in Packs
      BY <1>1, <2>1, <2>4, NotifierAssumption DEF PackInv
    <3>2. CASE y = z
      BY <1>1, <2>1, <2>4, <3>1, <3>2 DEF PackInv
    <3>3. CASE y # z
      <4>1. y \in mails /\ packTime[PackOf[y[1]]] <= time /\ y[2] <= packTime[PackOf[y[1]]]
            /\ packTime[PackOf[y[1]]] \in Nat
        BY <1>1, <2>1, <2>4, <3>1, <3>3 DEF PackInv
      <4>2. packTime'[PackOf[y[1]]] \in {packTime[PackOf[y[1]]], time}
        BY <1>1, <2>1, <3>1 DEF PackInv
      <4> QED BY <1>1, <3>1, <4>1, <4>2
    <3> QED BY <3>2, <3>3
  <2>5. mails' \subseteq Messages \X Nat /\ reached' \subseteq Messages \X Nat
    BY <1>1, <2>1 DEF PackInv
  <2>6. PackInv'
    BY <2>2, <2>3, <2>4, <2>5 DEF PackInv, NoMailYet
  <2>7. ASSUME NEW x \in mails, PackOf[x[1]] = p, p # NoPack
        PROVE  x[2] \in Nat /\ x[2] <= time /\ time - x[2] >= SamePackTimeout
    <3>1. /\ x[2] \in Nat /\ packTime[p] \in Nat
          /\ packTime[p] <= time /\ x[2] <= packTime[p]
      BY <1>1, <2>7 DEF PackInv
    <3>2. ~ (time - packTime[p] < SamePackTimeout)
      BY <1>4, <2>7, <3>1 DEF Notifier!Throttled
    <3> QED BY <1>1, <3>1, <3>2
  <2>8. ASSUME NEW x \in mails', NEW y \in mails', x # y, PackOf[x[1]] # NoPack,
               PackOf[x[1]] = PackOf[y[1]], x[2] <= y[2]
        PROVE  y[2] - x[2] >= SamePackTimeout
    <3>1. CASE x \in mails /\ y \in mails
      BY <1>1, <2>8, <3>1 DEF Notifier!MailsFollowPacks
    <3>2. CASE y = z
      BY <1>1, <2>1, <2>7, <2>8, <3>2
    <3>3. CASE x = z
      BY <1>1, <2>1, <2>7, <2>8, <3>3
    <3> QED BY <2>1, <3>1, <3>2, <3>3
  <2>9. Notifier!MailsFollowPacks'
    <3>1. \A x \in reached' : x[1] \notin Warnings =>
            \E y \in mails' : \/ y = x
                              \/ /\ PackOf[x[1]] # NoPack /\ PackOf[y[1]] = PackOf[x[1]]
                                 /\ y[2] <= x[2] /\ x[2] - y[2] < SamePackTimeout
      BY <1>1, <2>1 DEF Notifier!MailsFollowPacks
    <3> QED BY <2>8, <3>1 DEF Notifier!MailsFollowPacks
  <2> QED BY <2>6, <2>9
<1> QED BY <1>2, <1>3, <1>4

(* A message is given to the handlers, or kept for the first of them.       *)
LEMMA HandlesNotify ==
    ASSUME NotifierInv, NEW m \in Messages, Notifier!HandleNotify(m),
           posted' \in Seq(Messages)
    PROVE  NotifierInv'
<1>1. UNCHANGED <<time, handlers, registering>>
  BY DEF Notifier!HandleNotify
<1>2. /\ Notifier!Overlooked' = Notifier!Overlooked
      /\ WillFire' = WillFire
  BY <1>1 DEF Notifier!Overlooked, WillFire
<1>3. CASE handlers = {}
  <2>1. /\ startBuffer' = Append(startBuffer, m)
        /\ missed' = IF Notifier!Overlooked THEN missed \cup {m} ELSE missed
        /\ UNCHANGED <<packTime, mails, reached>>
    BY <1>3 DEF Notifier!HandleNotify
  <2>2. /\ startBuffer' \in Seq(Messages) /\ Len(startBuffer') = Len(startBuffer) + 1
        /\ Len(startBuffer) \in Nat
        /\ \A i \in 1 .. Len(startBuffer) : startBuffer'[i] = startBuffer[i]
        /\ startBuffer'[Len(startBuffer) + 1] = m
    BY <2>1, AppendProperties DEF NotifierInv, NotifierTypeOK
  <2>3. NotifierTypeOK'
    BY <1>1, <2>2 DEF NotifierInv, NotifierTypeOK
  <2>4. ASSUME NEW i \in 1 .. Len(startBuffer')
        PROVE  startBuffer'[i] \in missed' \/ WillFire' \/ (handlers = {} /\ ~Notifier!Overlooked)
    <3>1. i \in 1 .. Len(startBuffer) \/ i = Len(startBuffer) + 1
      BY <2>2
    <3>2. missed \subseteq missed' /\ (Notifier!Overlooked => m \in missed')
      BY <2>1
    <3> QED BY <1>2, <1>3, <2>2, <3>1, <3>2 DEF NotifierInv, KeptInv
  <2>5. KeptInv'
    BY <1>1, <1>2, <2>4 DEF KeptInv
  <2>6. PackInv' /\ Notifier!MailsFollowPacks'
    BY <1>1, <2>1 DEF NotifierInv, PackInv, Notifier!MailsFollowPacks
  <2> QED BY <2>3, <2>5, <2>6 DEF NotifierInv
<1>4. CASE handlers # {}
  <2>1. Notifier!EmailNotify(m) /\ UNCHANGED <<startBuffer, missed>>
    BY <1>4 DEF Notifier!HandleNotify
  <2>2. NotifierTypeOK' /\ KeptInv'
    BY <1>1, <1>2, <2>1 DEF NotifierInv, NotifierTypeOK, KeptInv
  <2> QED BY <1>1, <2>1, <2>2, MailsFollow DEF NotifierInv
<1> QED BY <1>3, <1>4

(* A handler that goes, or that another one replaces, takes its mails      *)
(* along.                                                                  *)
LEMMA HandlerForgets ==
    ASSUME NotifierInv, NEW id, time' = time,
           Notifier!Forget(id) \/ UNCHANGED <<packTime, mails, reached, messages>>
    PROVE  PackInv' /\ Notifier!MailsFollowPacks'
<1>1. CASE Notifier!Forget(id) /\ id = "email"
  BY <1>1, NotifierAssumption
  DEF Notifier!Forget, PackInv, NoMailYet, Notifier!MailsFollowPacks
<1>2. CASE UNCHANGED <<packTime, mails, reached>>
  BY <1>2 DEF NotifierInv, PackInv, Notifier!MailsFollowPacks
<1>3. Notifier!Forget(id) /\ id # "email" => UNCHANGED <<packTime, mails, reached>>
  BY DEF Notifier!Forget
<1> QED BY <1>1, <1>2, <1>3

LEMMA DeletesHandler ==
    ASSUME NotifierInv, NEW id, Notifier!Delete(id), time' = time
    PROVE  PackInv' /\ Notifier!MailsFollowPacks' /\ handlers' \subseteq handlers
  BY HandlerForgets DEF Notifier!Delete

(* Every step of the notifier keeps NotifierInv.                            *)
LEMMA NotifierSteps == NotifierInv /\ [Notifier!Next]_notifierVars => NotifierInv'
<1> SUFFICES ASSUME NotifierInv, [Notifier!Next]_notifierVars PROVE NotifierInv'
  OBVIOUS
<1>0. NotifierTypeOK /\ KeptInv /\ PackInv /\ Notifier!MailsFollowPacks
  BY DEF NotifierInv
<1>1. ASSUME NEW m \in Messages, Notifier!Notify(m) PROVE NotifierInv'
  <2>1. posted' \in Seq(Messages)
    BY <1>0, <1>1, AppendProperties DEF Notifier!Notify, NotifierTypeOK
  <2> QED BY <1>0, <1>1, <2>1 DEF Notifier!Notify, NotifierInv, NotifierTypeOK, KeptInv,
      PackInv, Notifier!MailsFollowPacks, WillFire, Notifier!Overlooked
<1>2. ASSUME NEW m \in Messages, Notifier!NotifyHere(m) PROVE NotifierInv'
  BY <1>0, <1>2, HandlesNotify DEF Notifier!NotifyHere, NotifierTypeOK
<1>3. CASE Notifier!RunNotify
  <2>1. Head(posted) \in Messages /\ posted' \in Seq(Messages)
    BY <1>0, <1>3, HeadTailProperties DEF Notifier!RunNotify, NotifierTypeOK
  <2> QED BY <1>3, <2>1, HandlesNotify DEF Notifier!RunNotify
<1>4. ASSUME NEW r \in Registrars, Notifier!RegisterLook(r) PROVE NotifierInv'
  <2>1. /\ registering[r].at = "idle"
        /\ registering' = [registering EXCEPT ![r] = [at |-> "looked", fire |-> handlers = {}]]
        /\ UNCHANGED <<time, posted, handlers, startBuffer, missed, packTime, mails, reached>>
    BY <1>4 DEF Notifier!RegisterLook
  <2>2. (handlers = {}) \in BOOLEAN
    OBVIOUS
  <2>3. NotifierTypeOK'
    BY <1>0, <2>1, <2>2 DEF NotifierTypeOK
  <2>4. \A x \in Registrars \ {r} : registering'[x] = registering[x]
    BY <1>0, <2>1 DEF NotifierTypeOK
  <2>5. registering'[r].at = "looked" /\ registering'[r].fire = (handlers = {})
    BY <1>0, <2>1 DEF NotifierTypeOK
  <2>6. /\ WillFire => WillFire'
        /\ handlers = {} /\ ~Notifier!Overlooked => ~Notifier!Overlooked'
    BY <2>1, <2>4, <2>5, Zenon DEF WillFire, Notifier!Overlooked
  <2>7. KeptInv'
    BY <1>0, <2>1, <2>6 DEF KeptInv
  <2> QED BY <1>0, <2>1, <2>3, <2>7 DEF NotifierInv, PackInv, Notifier!MailsFollowPacks
<1>5. ASSUME NEW r \in Registrars, Notifier!RegisterReplace(r) PROVE NotifierInv'
  <2>1. /\ registering[r].at = "looked"
        /\ registering' = [registering EXCEPT ![r].at = "replaced"]
        /\ UNCHANGED <<time, posted, startBuffer, missed>>
    BY <1>5 DEF Notifier!RegisterReplace
  <2>2. PackInv' /\ Notifier!MailsFollowPacks' /\ handlers' \subseteq handlers
    <3>1. CASE HandlerOf[r] \in handlers
      BY <1>5, <2>1, <3>1, DeletesHandler DEF Notifier!RegisterReplace
    <3>2. CASE HandlerOf[r] \notin handlers
      BY <1>0, <1>5, <2>1, <3>2
      DEF Notifier!RegisterReplace, PackInv, Notifier!MailsFollowPacks
    <3> QED BY <3>1, <3>2
  <2>3. NotifierTypeOK'
    BY <1>0, <2>1 DEF NotifierTypeOK
  <2>4. \A x \in Registrars \ {r} : registering'[x] = registering[x]
    BY <1>0, <2>1 DEF NotifierTypeOK
  <2>5. registering'[r].at = "replaced" /\ registering'[r].fire = registering[r].fire
    BY <1>0, <2>1 DEF NotifierTypeOK
  <2>6. /\ WillFire => WillFire'
        /\ ~Notifier!Overlooked => ~Notifier!Overlooked'
    BY <2>1, <2>4, <2>5 DEF WillFire, Notifier!Overlooked
  <2>7. KeptInv'
    <3>1. handlers = {} => handlers' = {}
      BY <2>2
    <3>2. UNCHANGED <<startBuffer, missed>>
      BY <2>1
    <3>3. ASSUME NEW i \in 1 .. Len(startBuffer)
          PROVE  \/ startBuffer[i] \in missed \/ WillFire'
                 \/ handlers' = {} /\ ~Notifier!Overlooked'
      BY <1>0, <2>6, <3>1 DEF KeptInv
    <3> QED BY <3>2, <3>3 DEF KeptInv
  <2> QED BY <2>2, <2>3, <2>7 DEF NotifierInv
<1>6. ASSUME NEW r \in Registrars, Notifier!RegisterInsert(r) PROVE NotifierInv'
  <2>1. /\ registering[r].at = "replaced"
        /\ registering' = [registering EXCEPT ![r].at = "done"]
        /\ Notifier!Insert(HandlerOf[r])
        /\ UNCHANGED <<time, missed>>
        /\ IF registering[r].fire
             THEN posted' = posted \o startBuffer /\ startBuffer' = <<>>
             ELSE UNCHANGED <<posted, startBuffer>>
    BY <1>6 DEF Notifier!RegisterInsert
  <2>2. posted' \in Seq(Messages) /\ startBuffer' \in Seq(Messages)
    <3>1. posted \o startBuffer \in Seq(Messages) /\ <<>> \in Seq(Messages)
      BY <1>0, ConcatProperties, EmptySeq DEF NotifierTypeOK
    <3> QED BY <1>0, <2>1, <3>1 DEF NotifierTypeOK
  <2>3. NotifierTypeOK'
    BY <1>0, <2>1, <2>2 DEF NotifierTypeOK
  <2>4. /\ \A x \in Registrars \ {r} : registering'[x] = registering[x]
        /\ registering[r].fire \in BOOLEAN
    BY <1>0, <2>1 DEF NotifierTypeOK
  <2>5. KeptInv'
    <3>1. CASE registering[r].fire
      <4>1. \A i \in 1 .. Len(startBuffer') : FALSE
        BY <2>1, <3>1, EmptySeq
      <4> QED BY <4>1 DEF KeptInv
    <3>2. CASE ~ registering[r].fire
      <4>1. Notifier!Overlooked /\ (WillFire => WillFire') /\ UNCHANGED startBuffer
        BY <2>1, <2>4, <3>2 DEF Notifier!Overlooked, WillFire
      <4> QED BY <1>0, <2>1, <4>1 DEF KeptInv
    <3> QED BY <3>1, <3>2
  <2>6. PackInv' /\ Notifier!MailsFollowPacks'
    BY <2>1, HandlerForgets DEF Notifier!Insert
  <2> QED BY <2>3, <2>5, <2>6 DEF NotifierInv
<1>7. ASSUME NEW id \in handlers, Notifier!Unregister(id) PROVE NotifierInv'
  <2>1. Notifier!Delete(id) /\ UNCHANGED <<time, posted, startBuffer, registering, missed>>
    BY <1>7 DEF Notifier!Unregister
  <2>2. PackInv' /\ Notifier!MailsFollowPacks' /\ handlers' \subseteq handlers
    BY <2>1, DeletesHandler
  <2>3. NotifierTypeOK' /\ KeptInv'
    BY <1>0, <2>1, <2>2 DEF NotifierTypeOK, KeptInv, WillFire, Notifier!Overlooked
  <2> QED BY <2>2, <2>3 DEF NotifierInv
<1>8. CASE Notifier!Tick
  <2>1. /\ time' = time + 1 /\ time < LastNotice
        /\ UNCHANGED <<posted, handlers, startBuffer, registering, missed, packTime, mails,
                       reached>>
    BY <1>8 DEF Notifier!Tick
  <2>2. NotifierTypeOK' /\ KeptInv'
    BY <1>0, <2>1, NotifierAssumption
    DEF NotifierTypeOK, KeptInv, WillFire, Notifier!Overlooked
  <2>3. PackInv' /\ Notifier!MailsFollowPacks'
    BY <1>0, <2>1, NotifierAssumption
    DEF PackInv, NoMailYet, NotifierTypeOK, Notifier!MailsFollowPacks
  <2> QED BY <2>2, <2>3 DEF NotifierInv
<1>9. CASE Notifier!CleanupTimer \/ UNCHANGED notifierVars
  <2>1. UNCHANGED <<time, posted, handlers, startBuffer, registering, missed, packTime, mails,
                    reached>>
    BY <1>9 DEF Notifier!CleanupTimer, notifierVars
  <2> QED BY <1>0, <2>1 DEF NotifierInv, NotifierTypeOK, KeptInv, WillFire,
      Notifier!Overlooked, PackInv, Notifier!MailsFollowPacks
<1> QED BY <1>1, <1>2, <1>3, <1>4, <1>5, <1>6, <1>7, <1>8, <1>9 DEF Notifier!Next

(* The guarantee of the first registration.                                *)
LEMMA KeptReachFirst == NotifierInv => Notifier!KeptForFirstHandler
  BY DEF NotifierInv, KeptInv, WillFire, Notifier!KeptForFirstHandler

(* errornotifier.cpp: messages kept before the first handler reach it, and *)
(* mails of a pack are neither lost nor sent too often.                    *)
THEOREM ErrorsAlwaysNotified == ServicesSpec => []ErrorsAreNotified
<1> DEFINE Inv == part = "notifier" => NotifierInv
<1>1. ServicesInit => Inv
  BY NotifierStarts DEF ServicesInit
<1>2. Inv /\ [ServicesNext]_servicesVars => Inv'
  BY NotifierSteps, StepsOfServices
<1>3. Inv => ErrorsAreNotified
  BY KeptReachFirst DEF ErrorsAreNotified, NotifierInv
<1> QED BY <1>1, <1>2, <1>3, PTL DEF ServicesSpec

-----------------------------------------------------------------------------
(* HttpDownloader.                                                         *)
Signals == {"finished", "error", "ssl"}

DownloaderTypeOK ==
    /\ mode \in {"none", "download", "downloadTo"}
    /\ stage \in {"none", "asked", "replied", "checked", "connected", "done"}
    /\ response \in {"none", "running", "ok", "failed", "gone"}
    /\ promise \in {"pending", "ok", "failed"}
    /\ arrived \in 0 .. Pieces
    /\ buffered \in Seq(Nat) /\ queued \in Seq(Signals)
    /\ lost \in BOOLEAN /\ (lost \/ written \in Seq(Nat))
    /\ deleting \in BOOLEAN /\ alive \in BOOLEAN /\ missedEnd \in BOOLEAN

(* What was copied, and what waits behind it, is what came, as long as the *)
(* destination took all it was given.                                      *)
BytesInOrder ==
    /\ lost \/ written \o buffered = Count(arrived)
    /\ response = "ok" => arrived = Pieces
    /\ promise = "ok" => buffered = <<>> /\ arrived = Pieces /\ response \in {"ok", "gone"}

PromiseInv ==
    /\ fills = IF promise = "pending" THEN 0 ELSE 1
    /\ deleting => promise # "pending"
    /\ response = "gone" => deleting
    /\ stage = "done" => promise # "pending"

StageInv ==
    /\ stage = "none" <=> mode = "none"
    /\ stage \in {"none", "asked"} => response = "none" /\ promise = "pending"
    /\ stage \in {"replied", "checked", "connected"} => response # "none"

(* sslErrors comes first, before anything can answer.                      *)
QueuedInv ==
    /\ queued # <<>> => stage = "connected" /\ mode = "download"
    /\ \A i \in 1 .. Len(queued) : queued[i] = "ssl" => i = 1 /\ promise = "pending"
    /\ (stage = "connected" /\ response \in {"ok", "failed"} /\ ~missedEnd /\ alive)
          => queued # <<>> \/ promise # "pending"

DownloaderInv ==
    DownloaderTypeOK /\ BytesInOrder /\ PromiseInv /\ StageInv /\ QueuedInv /\ ~touchedGone

(* A slot answers, and copies all there is for a success.                  *)
LEMMA SlotFills ==
    ASSUME DownloaderTypeOK, BytesInOrder, PromiseInv, NEW signal \in Signals, NEW outcome,
           Downloader!Slot(signal, outcome)
    PROVE  /\ promise' \in {"ok", "failed"} /\ promise' # "pending" /\ fills' = 1
           /\ deleting' \in BOOLEAN /\ (deleting => deleting')
           /\ buffered' \in Seq(Nat) /\ lost' \in BOOLEAN /\ (lost' \/ written' \in Seq(Nat))
           /\ lost' \/ written' \o buffered' = Count(arrived)
           /\ promise' = "ok" => \/ buffered' = <<>> /\ outcome = "ok"
                                 \/ promise = "ok" /\ buffered' = buffered
<1>1. CASE promise = "pending"
  <2>1. CASE signal = "finished" /\ outcome = "ok"
    <3>1. /\ Downloader!CopyData(buffered) /\ deleting' = TRUE
          /\ promise' = "ok" /\ fills' = 1
      BY <1>1, <2>1 DEF Downloader!Slot, Downloader!Answer, Downloader!Fill, PromiseInv
    <3>2. /\ buffered' = <<>> /\ buffered' \in Seq(Nat)
          /\ lost' = TRUE \/ (lost' = lost /\ written' = written \o buffered)
      BY <3>1, EmptySeq DEF Downloader!CopyData
    <3>3. CASE lost' = TRUE
      BY <2>1, <3>1, <3>2, <3>3
    <3>4. CASE ~ lost /\ lost' = lost /\ written' = written \o buffered
      <4>1. written \in Seq(Nat) /\ buffered \in Seq(Nat) /\ written \o buffered = Count(arrived)
        BY <3>4 DEF DownloaderTypeOK, BytesInOrder
      <4>2. written' \in Seq(Nat)
        BY <3>4, <4>1, ConcatProperties
      <4>3. written' \o buffered' = written'
        BY <3>2, <4>2, ConcatEmptySeq
      <4>4. lost' \in BOOLEAN
        BY <3>4 DEF DownloaderTypeOK
      <4>5. written' \o buffered' = Count(arrived)
        BY ONLY <3>4, <4>1, <4>3
      <4>6. promise' \in {"ok", "failed"} /\ promise' # "pending"
        BY ONLY <3>1
      <4> QED BY <2>1, <3>1, <3>2, <4>2, <4>4, <4>5, <4>6, Zenon
    <3> QED BY <3>2, <3>3, <3>4 DEF DownloaderTypeOK
  <2>2. CASE ~ (signal = "finished" /\ outcome = "ok")
    BY <1>1, <2>2
    DEF Downloader!Slot, Downloader!Answer, Downloader!Fill, PromiseInv, BytesInOrder, DownloaderTypeOK
  <2> QED BY <2>1, <2>2
<1>2. CASE promise # "pending"
  BY <1>2 DEF Downloader!Slot, PromiseInv, BytesInOrder, DownloaderTypeOK
<1> QED BY <1>1, <1>2

(* Initially no download is under way.                                      *)
LEMMA DownloaderStarts == Downloader!Init => DownloaderInv
<1> SUFFICES ASSUME Downloader!Init PROVE DownloaderInv
  OBVIOUS
<1> USE DEF Downloader!Init
<1>1. <<>> \in Seq(Nat) /\ <<>> \in Seq(Signals) /\ Len(queued) = 0 /\ <<>> \o <<>> = <<>>
  BY EmptySeq, ConcatEmptySeq
<1>2. Count(0) = <<>>
  BY CountGrows, EmptySeq
<1>3. DownloaderTypeOK
  <2>1. arrived \in 0 .. Pieces
    BY DownloaderAssumption
  <2> QED BY <1>1, <2>1, Zenon DEF DownloaderTypeOK
<1>5. BytesInOrder
  BY <1>1, <1>2 DEF BytesInOrder
<1>4. PromiseInv /\ StageInv /\ QueuedInv
  BY <1>1 DEF PromiseInv, StageInv, QueuedInv
<1> QED BY <1>3, <1>4, <1>5 DEF DownloaderInv

(* A signal reaches the slots of downloadTo, or the queue of download().   *)
LEMMA SignalsReach ==
    ASSUME DownloaderInv, NEW s \in {<<"finished">>, <<"error", "finished">>, <<"ssl">>},
           NEW outcome \in {"ok", "failed"}, Downloader!Emit(s, outcome),
           response = "running", response' \in {"running", "ok", "failed"},
           response' = "running" => promise = "pending" /\ queued = <<>> /\ outcome = "failed",
           s = <<"ssl">> => response' = "running",
           outcome = "ok" => response' = "ok", response' = "ok" => arrived = Pieces,
           UNCHANGED <<mode, stage, arrived, alive, missedEnd, touchedGone>>
    PROVE  DownloaderInv'
<1> USE DEF DownloaderInv
<1>1. CASE stage = "connected" /\ mode = "download"
  <2>1. UNCHANGED <<written, lost, buffered, promise, fills, deleting>>
    BY <1>1 DEF Downloader!Emit
  <2>2. queued' = IF alive THEN queued \o s ELSE queued
    BY <1>1 DEF Downloader!Emit
  <2>3. s \in Seq(Signals) /\ Len(s) \in {1, 2}
        /\ \A i \in 1 .. Len(s) : s[i] = "ssl" => s = <<"ssl">> /\ i = 1
    <3>1. CASE s = <<"finished">>
      BY <3>1 DEF Signals
    <3>2. CASE s = <<"error", "finished">>
      BY <3>2 DEF Signals
    <3>3. CASE s = <<"ssl">>
      BY <3>3 DEF Signals
    <3> QED BY <3>1, <3>2, <3>3
  <2>4. /\ queued \o s \in Seq(Signals) /\ Len(queued \o s) = Len(queued) + Len(s)
        /\ Len(queued) \in Nat
        /\ \A i \in 1 .. Len(queued) + Len(s) :
              (queued \o s)[i] = IF i <= Len(queued) THEN queued[i] ELSE s[i - Len(queued)]
    BY <2>3, ConcatProperties, LenProperties DEF DownloaderTypeOK
  <2>5. queued \o s # <<>>
    BY <2>3, <2>4, EmptySeq
  <2>6. ASSUME NEW i \in 1 .. Len(queued'), queued'[i] = "ssl"
        PROVE  i = 1 /\ promise' = "pending"
    <3>1. CASE i \in 1 .. Len(queued) /\ queued'[i] = queued[i]
      BY <2>1, <2>6, <3>1 DEF QueuedInv
    <3>2. CASE ~ (i \in 1 .. Len(queued) /\ queued'[i] = queued[i])
      <4>1. i - Len(queued) \in 1 .. Len(s) /\ s[i - Len(queued)] = "ssl"
        BY <2>2, <2>3, <2>4, <2>6, <3>2
      <4>2. s = <<"ssl">> /\ i - Len(queued) = 1
        BY <2>3, <4>1
      <4> QED BY <2>1, <4>2, EmptySeq
    <3> QED BY <3>1, <3>2
  <2>7. QueuedInv'
    BY <1>1, <2>2, <2>5, <2>6 DEF QueuedInv
  <2>8. (DownloaderTypeOK /\ BytesInOrder)'
    BY <2>1, <2>2, <2>4 DEF DownloaderTypeOK, BytesInOrder
  <2> QED BY <1>1, <2>1, <2>7, <2>8 DEF PromiseInv, StageInv
<1>2. CASE stage = "connected" /\ mode = "downloadTo"
  <2>1. Downloader!Slot(s[1], outcome) /\ queued' = queued /\ s[1] \in Signals
    BY <1>2 DEF Downloader!Emit, Signals
  <2>2. /\ promise' \in {"ok", "failed"} /\ promise' # "pending" /\ fills' = 1
        /\ deleting' \in BOOLEAN /\ (deleting => deleting')
        /\ buffered' \in Seq(Nat) /\ lost' \in BOOLEAN /\ (lost' \/ written' \in Seq(Nat))
        /\ lost' \/ written' \o buffered' = Count(arrived)
        /\ promise' = "ok" => \/ buffered' = <<>> /\ outcome = "ok"
                              \/ promise = "ok" /\ buffered' = buffered
    BY <2>1, SlotFills
  <2>3. queued = <<>> /\ \A i \in 1 .. Len(queued) : FALSE
    BY <1>2, EmptySeq DEF QueuedInv
  <2>4. DownloaderTypeOK'
    BY <2>1, <2>2 DEF DownloaderTypeOK
  <2>5. BytesInOrder'
    BY <2>2 DEF BytesInOrder
  <2>6. (PromiseInv /\ StageInv)'
    BY <1>2, <2>2 DEF PromiseInv, StageInv
  <2>7. QueuedInv'
    BY <1>2, <2>1, <2>2, <2>3 DEF QueuedInv
  <2> QED BY <2>4, <2>5, <2>6, <2>7
<1>3. CASE stage # "connected"
  <2>1. UNCHANGED <<queued, written, lost, buffered, promise, fills, deleting>>
    BY <1>3 DEF Downloader!Emit
  <2>2. (DownloaderTypeOK /\ BytesInOrder)'
    BY <2>1 DEF DownloaderTypeOK, BytesInOrder
  <2> QED BY <1>3, <2>1, <2>2 DEF PromiseInv, StageInv, QueuedInv
<1> QED BY <1>1, <1>2, <1>3 DEF Downloader!Emit

(* Every step of a download keeps DownloaderInv.                            *)
LEMMA DownloaderSteps == DownloaderInv /\ [Downloader!Next]_downloaderVars => DownloaderInv'
<1> SUFFICES ASSUME DownloaderInv, [Downloader!Next]_downloaderVars PROVE DownloaderInv'
  OBVIOUS
<1> USE DEF DownloaderInv
<1>1. ASSUME NEW m \in {"download", "downloadTo"}, NEW usable \in BOOLEAN,
             Downloader!Ask(m, usable)
      PROVE  DownloaderInv'
  BY <1>1 DEF Downloader!Ask, Downloader!Fill, DownloaderTypeOK, BytesInOrder, PromiseInv,
     StageInv, QueuedInv
<1>2. CASE Downloader!GetFails
  BY <1>2 DEF Downloader!GetFails, Downloader!Fill, DownloaderTypeOK, BytesInOrder, PromiseInv,
     StageInv, QueuedInv
<1>3. ASSUME NEW here \in BOOLEAN, Downloader!GetReplies(here) PROVE DownloaderInv'
  BY <1>3 DEF Downloader!GetReplies, DownloaderTypeOK, BytesInOrder, PromiseInv,
     StageInv, QueuedInv
<1>4. CASE Downloader!CallerChecks
  <2>1. CASE Downloader!Finished
    <3>1. /\ stage = "replied" /\ stage' = "done" /\ Downloader!Slot("finished", response)
          /\ UNCHANGED <<mode, response, arrived, queued, alive, missedEnd, touchedGone>>
      BY <1>4, <2>1 DEF Downloader!CallerChecks
    <3>2. /\ promise' \in {"ok", "failed"} /\ promise' # "pending" /\ fills' = 1
          /\ deleting' \in BOOLEAN /\ (deleting => deleting')
          /\ buffered' \in Seq(Nat) /\ lost' \in BOOLEAN /\ (lost' \/ written' \in Seq(Nat))
          /\ lost' \/ written' \o buffered' = Count(arrived)
          /\ promise' = "ok" => \/ buffered' = <<>> /\ response = "ok"
                                \/ promise = "ok" /\ buffered' = buffered
      BY <3>1, SlotFills DEF Signals
    <3>3. queued = <<>> /\ \A i \in 1 .. Len(queued) : FALSE
      BY <3>1, EmptySeq DEF QueuedInv
    <3>4. DownloaderTypeOK'
      BY <3>1, <3>2 DEF DownloaderTypeOK
    <3>5. BytesInOrder'
      BY <3>1, <3>2 DEF BytesInOrder
    <3>6. StageInv'
      BY <3>1, <3>2 DEF StageInv
    <3>7. QueuedInv'
      BY <3>1, <3>2, <3>3 DEF QueuedInv
    <3>8. PromiseInv'
      BY <3>1, <3>2, Zenon DEF PromiseInv
    <3> QED BY <3>1, <3>4, <3>5, <3>6, <3>7, <3>8
  <2>2. CASE ~ Downloader!Finished
    BY <1>4, <2>2 DEF Downloader!CallerChecks, DownloaderTypeOK, BytesInOrder, PromiseInv,
       StageInv, QueuedInv
  <2> QED BY <2>1, <2>2
<1>5. CASE Downloader!CallerConnects
  <2>1. /\ stage = "checked" /\ stage' = "connected" /\ missedEnd' = Downloader!Finished
        /\ UNCHANGED <<mode, response, arrived, buffered, written, lost, promise, fills, queued,
                       deleting, alive, touchedGone>>
    BY <1>5 DEF Downloader!CallerConnects
  <2>2. response \in {"ok", "failed"} => missedEnd'
    BY <2>1 DEF Downloader!Finished
  <2>3. missedEnd' \in BOOLEAN
    BY <2>1 DEF Downloader!Finished
  <2> QED BY <2>1, <2>2, <2>3 DEF DownloaderTypeOK, BytesInOrder, PromiseInv, StageInv, QueuedInv
<1>6. CASE Downloader!Piece
  <2>1. /\ response = "running" /\ arrived < Pieces /\ arrived' = arrived + 1 /\ arrived \in Nat
        /\ UNCHANGED <<mode, stage, response, promise, fills, queued, deleting, alive,
                       missedEnd, touchedGone>>
    BY <1>6, DownloaderAssumption DEF Downloader!Piece, DownloaderTypeOK
  <2> DEFINE n == arrived + 1
             both == written \o buffered
  <2>a. n \in Nat /\ buffered \in Seq(Nat) /\ lost \in BOOLEAN /\ arrived' = n
    BY <2>1 DEF DownloaderTypeOK
  <2>b. ~ lost => written \in Seq(Nat) /\ both \in Seq(Nat) /\ Append(both, n) = Count(n)
    BY <2>1, CountGrows DEF BytesInOrder, DownloaderTypeOK
  <2>c. \/ Downloader!CopyData(Append(buffered, n))
        \/ written' = written /\ lost' = lost /\ buffered' = Append(buffered, n)
    BY <1>6 DEF Downloader!Piece, n
  <2> HIDE DEF n
  <2>d. /\ Append(buffered, n) \in Seq(Nat) /\ <<>> \in Seq(Nat)
        /\ lost' = TRUE \/ lost' = lost
        /\ buffered' = <<>> \/ buffered' = Append(buffered, n)
    BY <2>a, <2>c, AppendProperties, EmptySeq DEF Downloader!CopyData
  <2>e. lost' = TRUE \/ /\ ~ lost /\ lost' = FALSE
                        /\ \/ written' = written \o Append(buffered, n) /\ buffered' = <<>>
                           \/ written' = written /\ buffered' = Append(buffered, n)
    BY <2>a, <2>c DEF Downloader!CopyData
  <2>5. /\ lost' \/ written' \o buffered' = Count(arrived')
        /\ lost' \in BOOLEAN /\ (lost' \/ written' \in Seq(Nat)) /\ buffered' \in Seq(Nat)
    <3>1. CASE lost' = TRUE
      BY <2>d, <3>1
    <3>2. CASE lost' # TRUE
      <4>1. written \in Seq(Nat) /\ both \in Seq(Nat) /\ Append(both, n) = Count(n)
        BY <2>b, <2>e, <3>2
      <4>2. written \o Append(buffered, n) = Append(both, n)
        <5>1. written \o Append(buffered, n) = Append(written \o buffered, n)
          <6>1. n \in Nat /\ buffered \in Seq(Nat) /\ written \in Seq(Nat)
            BY ONLY <2>a, <4>1
          <6>2. \A x, y \in Seq(Nat) : \A i \in Nat : x \o Append(y, i) = Append(x \o y, i)
            BY ONLY AppendedBehind
          <6> QED BY ONLY <6>1, <6>2
        <5> QED BY <5>1, Zenon DEF both
      <4> HIDE DEF both
      <4>3. Append(both, n) \in Seq(Nat) /\ Append(both, n) \o <<>> = Append(both, n)
        BY ONLY <2>a, <4>1, AppendProperties, ConcatEmptySeq
      <4> QED BY <2>a, <2>d, <2>e, <3>2, <4>1, <4>2, <4>3
    <3> QED BY <3>1, <3>2
  <2>6. BytesInOrder'
    BY <2>1, <2>5 DEF BytesInOrder
  <2>7. arrived' \in 0 .. Pieces
    BY <2>1, DownloaderAssumption
  <2>8. DownloaderTypeOK'
    BY <2>1, <2>5, <2>7 DEF DownloaderTypeOK
  <2> QED BY <2>1, <2>6, <2>8 DEF PromiseInv, StageInv, QueuedInv
<1>7. CASE Downloader!Finish
  BY <1>7, SignalsReach DEF Downloader!Finish
<1>8. CASE Downloader!Fail
  BY <1>8, SignalsReach DEF Downloader!Fail
<1>9. CASE Downloader!SslErrors
  BY <1>9, SignalsReach DEF Downloader!SslErrors
<1>10. CASE Downloader!DeleteReply
  BY <1>10 DEF Downloader!DeleteReply, DownloaderTypeOK, BytesInOrder, PromiseInv,
     StageInv, QueuedInv
<1>11. CASE Downloader!RunQueued
  <2>1. /\ alive /\ queued # <<>> /\ queued' = Tail(queued)
        /\ Downloader!Slot(Head(queued), response)
        /\ UNCHANGED <<mode, stage, response, arrived, alive, missedEnd>>
    BY <1>11 DEF Downloader!RunQueued
  <2>2. /\ Head(queued) \in Signals /\ Tail(queued) \in Seq(Signals)
        /\ Len(Tail(queued)) = Len(queued) - 1 /\ Len(queued) \in Nat \ {0}
        /\ \A i \in 1 .. Len(Tail(queued)) : Tail(queued)[i] = queued[i + 1]
        /\ Head(queued) = queued[1]
    BY <2>1, HeadTailProperties, EmptySeq DEF DownloaderTypeOK
  <2>3. /\ promise' \in {"ok", "failed"} /\ promise' # "pending" /\ fills' = 1
        /\ deleting' \in BOOLEAN /\ (deleting => deleting')
        /\ buffered' \in Seq(Nat) /\ lost' \in BOOLEAN /\ (lost' \/ written' \in Seq(Nat))
        /\ lost' \/ written' \o buffered' = Count(arrived)
        /\ promise' = "ok" => \/ buffered' = <<>> /\ response = "ok"
                              \/ promise = "ok" /\ buffered' = buffered
    BY <2>1, <2>2, SlotFills
  <2>4. Head(queued) = "ssl" => promise = "pending"
    BY <2>2 DEF QueuedInv
  <2>5. ~ touchedGone'
    BY <1>11, <2>4 DEF Downloader!RunQueued, PromiseInv
  <2>6. ASSUME NEW i \in 1 .. Len(queued') PROVE queued'[i] # "ssl"
    <3>1. i + 1 \in 1 .. Len(queued) /\ i + 1 # 1 /\ queued'[i] = queued[i + 1]
      BY <2>1, <2>2
    <3> QED BY <3>1 DEF QueuedInv
  <2>7. DownloaderTypeOK'
    BY <2>1, <2>2, <2>3 DEF DownloaderTypeOK
  <2>8. BytesInOrder'
    BY <2>1, <2>3 DEF BytesInOrder
  <2>9. StageInv'
    <3>1. stage = "connected"
      BY <2>1 DEF QueuedInv
    <3> QED BY <2>1, <2>3, <3>1 DEF StageInv
  <2>10. PromiseInv'
    BY <2>1, <2>3, Zenon DEF PromiseInv
  <2>11. QueuedInv'
    BY <2>1, <2>3, <2>6 DEF QueuedInv
  <2> QED BY <2>5, <2>7, <2>8, <2>9, <2>10, <2>11
<1>12. CASE Downloader!DestroyDownloader
  <2>1. <<>> \in Seq(Signals) /\ Len(<<>>) = 0
    BY EmptySeq
  <2>2. alive' = FALSE /\ queued' = <<>>
        /\ UNCHANGED <<mode, stage, response, arrived, buffered, written, lost, promise, fills,
                       deleting, missedEnd, touchedGone>>
    BY <1>12 DEF Downloader!DestroyDownloader
  <2>3. QueuedInv'
    <3>1. \A i \in 1 .. Len(queued') : FALSE
      BY <2>1, <2>2
    <3> QED BY <2>2, <3>1 DEF QueuedInv
  <2>4. DownloaderTypeOK'
    BY <2>1, <2>2, Zenon DEF DownloaderTypeOK
  <2> QED BY <2>2, <2>3, <2>4 DEF BytesInOrder, PromiseInv, StageInv
<1>13. CASE UNCHANGED downloaderVars
  BY <1>13 DEF downloaderVars, DownloaderTypeOK, BytesInOrder, PromiseInv, StageInv, QueuedInv
<1> QED BY <1>1, <1>2, <1>3, <1>4, <1>5, <1>6, <1>7, <1>8, <1>9, <1>10, <1>11, <1>12, <1>13
        DEF Downloader!Next

(* The invariant says of a download what is claimed of it.                  *)
LEMMA DownloaderIsExact ==
    DownloaderInv => Downloader!DownloadIsExact /\ Downloader!EndedIsAnswered
<1> SUFFICES ASSUME DownloaderInv
             PROVE  Downloader!DownloadIsExact /\ Downloader!EndedIsAnswered
  OBVIOUS
<1>1. ASSUME promise = "ok", ~ lost PROVE written = Count(Pieces)
  <2>1. buffered = <<>> /\ written \o buffered = Count(Pieces) /\ written \in Seq(Nat)
    BY <1>1 DEF DownloaderInv, DownloaderTypeOK, BytesInOrder
  <2> QED BY <2>1, ConcatEmptySeq
<1>2. Downloader!DownloadIsExact
  BY <1>1 DEF DownloaderInv, DownloaderTypeOK, PromiseInv, Count, Downloader!DownloadIsExact
<1>3. Downloader!EndedIsAnswered
  BY DEF DownloaderInv, DownloaderTypeOK, PromiseInv, StageInv, QueuedInv,
     Downloader!EndedIsAnswered
<1> QED BY <1>2, <1>3

(* httpdownloader.cpp: a download that succeeds is whole, and one whose    *)
(* reply ended is answered.                                                *)
THEOREM DownloadsAlwaysExact == ServicesSpec => []DownloadsAreExact
<1> DEFINE Inv == part = "downloader" => DownloaderInv
<1>1. ServicesInit => Inv
  BY DownloaderStarts DEF ServicesInit
<1>2. Inv /\ [ServicesNext]_servicesVars => Inv'
  BY DownloaderSteps, StepsOfServices
<1>3. Inv => DownloadsAreExact
  BY DownloaderIsExact DEF DownloadsAreExact
<1> QED BY <1>1, <1>2, <1>3, PTL DEF ServicesSpec

-----------------------------------------------------------------------------

(* The AMQP clients.  The tries are those of the last connection or        *)
(* report, less the errors kept silent since.                              *)
LinkInv ==
    /\ link \in {"down", "connecting", "up"}
    /\ tries \in Nat /\ unreported \in Nat
    /\ started \in BOOLEAN /\ autoReconnect \in BOOLEAN
    /\ started => tries + unreported = Receiver!AUTO_RECONNECTION_TRIES
    /\ ~started => tries = 0 /\ unreported = 0

(* Nothing lives on a link that is not up; a queue is consumed for its     *)
(* messages to be handled; and a queue there is but one of was hooked once *)
(* and is declared before it is opened a second time on one link.          *)
QueueInv ==
    /\ queueName \in Queues /\ known \subseteq Queues
    /\ queue \in known \/ (queue = NoQueue /\ known = {})
    /\ opened \subseteq known /\ declaring \subseteq known
    /\ hooked \in [Queues -> Nat] /\ consumers \in [Queues -> Nat]
    /\ \A q \in Queues : IF q \in known THEN hooked[q] > 0 ELSE hooked[q] = 0
    /\ link # "up" => opened = {} /\ declaring = {} /\ consuming = {}
    /\ consuming \subseteq {queue}
    /\ \A q \in consuming : consumers[q] > 0

OneQueueInv ==
    \A q \in Queues : known = {q} =>
        /\ queue = q /\ hooked[q] = 1
        /\ create => /\ consuming \subseteq declared
                     /\ (link = "up" /\ q \notin opened)
                           => queueState = "Opening" \/ q \in declared

MessageInv ==
    /\ sent \in Nat /\ handled = Count(sent) /\ invalid = 0
    /\ waiting \in [Queues -> {<<>>}]

ReceiverInv == LinkInv /\ QueueInv /\ OneQueueInv /\ MessageInv

(* Initially there is no connection.                                        *)
LEMMA LinkStarts == Receiver!InitConnection => LinkInv
<1> SUFFICES ASSUME Receiver!InitConnection PROVE LinkInv
  OBVIOUS
<1>1. /\ link = "down" /\ autoReconnect \in BOOLEAN /\ tries = 0 /\ unreported = 0
      /\ started \in BOOLEAN /\ ~started
  BY DEF Receiver!InitConnection
<1> QED BY <1>1 DEF LinkInv

(* Connecting, losing the connection and trying again keep LinkInv ...      *)
LEMMA LinkKeeps ==
    ASSUME LinkInv, Receiver!LinkSteps \/ Receiver!LinkUp \/ UNCHANGED linkVars
    PROVE  LinkInv'
<1> USE DEF LinkInv, Receiver!AUTO_RECONNECTION_TRIES
<1>1. ASSUME Receiver!HandleError, link' \in {"down", "connecting", "up"},
             UNCHANGED autoReconnect
      PROVE  LinkInv'
  <2>1. CASE autoReconnect /\ tries > 0
    <3>1. tries' = tries - 1 /\ unreported' = unreported + 1 /\ UNCHANGED started
      BY <1>1, <2>1 DEF Receiver!HandleError
    <3> QED BY <1>1, <2>1, <3>1
  <2>2. CASE autoReconnect /\ tries = 0
    BY <1>1, <2>2 DEF Receiver!HandleError, Receiver!ResetTries
  <2>3. CASE ~autoReconnect
    BY <1>1, <2>3 DEF Receiver!HandleError
  <2> QED BY <2>1, <2>2, <2>3
<1>2. CASE Receiver!ClientError \/ Receiver!SocketError
  BY <1>1, <1>2 DEF Receiver!ClientError, Receiver!SocketError
<1>3. CASE Receiver!LinkUp
  BY <1>3 DEF Receiver!LinkUp, Receiver!ResetTries
<1>4. CASE \/ Receiver!SetAutoReconnect \/ Receiver!ConnectToHost \/ Receiver!Disconnected
           \/ Receiver!DisconnectFromHost \/ Receiver!Abort \/ UNCHANGED linkVars
  <2>1. /\ link' \in {"down", "connecting", "up"} /\ UNCHANGED <<tries, unreported, started>>
        /\ autoReconnect' \in BOOLEAN
    BY <1>4, Zenon DEF Receiver!SetAutoReconnect, Receiver!ConnectToHost,
       Receiver!Disconnected, Receiver!DisconnectFromHost, Receiver!Abort, linkVars
  <2> QED BY <2>1
<1> QED BY <1>2, <1>3, <1>4 DEF Receiver!LinkSteps

(* ... which counts the errors that were kept silent.                       *)
LEMMA LinkCounts == LinkInv => Receiver!SilentErrorsAreCounted
  BY DEF LinkInv, Receiver!SilentErrorsAreCounted, Receiver!AUTO_RECONNECTION_TRIES

(* Initially nothing is consumed.                                           *)
LEMMA ReceiverStarts == Receiver!InitReceiver => ReceiverInv
<1> SUFFICES ASSUME Receiver!InitReceiver PROVE ReceiverInv
  OBVIOUS
<1>1. LinkInv /\ link = "down"
  BY LinkStarts DEF Receiver!InitReceiver, Receiver!InitConnection
<1>3. QueueInv
  BY <1>1, AmqpAssumption DEF Receiver!InitReceiver, QueueInv
<1>4. Count(0) = <<>>
  BY DEF Count
<1>5. OneQueueInv /\ MessageInv
  BY <1>4 DEF Receiver!InitReceiver, OneQueueInv, MessageInv
<1> QED BY <1>1, <1>3, <1>5 DEF ReceiverInv

(* Consumers are connected to the open queue only.                          *)
LEMMA ConsumingStarts ==
    ASSUME QueueInv, NEW open \in SUBSET known, NEW times \in Nat, NEW state,
           Receiver!StartConsuming(open, times, state)
    PROVE  /\ consumers' \in [Queues -> Nat] /\ consuming' \subseteq {queue}
           /\ \A q \in consuming' : consumers'[q] > 0
           /\ consuming' \subseteq consuming \cup open
           /\ times = 0 => consuming' = consuming
           /\ queueState' \in {state, "Consuming"}
<1>1. /\ MaxConsumers \in Nat \ {0}
      /\ \A n \in Nat : /\ Receiver!AtMost(n) \in Nat
                        /\ n > 0 => Receiver!AtMost(n) > 0
  BY AmqpAssumption DEF Receiver!AtMost
<1>2. /\ consumers' = [consumers EXCEPT ![queue] = Receiver!AtMost(@ + times)]
      /\ IF times > 0 /\ queue \in open \ consuming
         THEN consuming' = consuming \cup {queue} /\ queueState' = "Consuming"
         ELSE queueState' = state /\ UNCHANGED consuming
  BY DEF Receiver!StartConsuming
<1> HIDE DEF Receiver!AtMost
<1>3. consumers' \in [Queues -> Nat]
  <2>1. consumers \in [Queues -> Nat]
    BY DEF QueueInv
  <2>2. \A q \in Queues : /\ consumers[q] + times \in Nat
                          /\ Receiver!AtMost(consumers[q] + times) \in Nat
    BY <1>1, <2>1
  <2> QED BY <1>2, <2>1, <2>2
<1>4. consuming' \subseteq {queue} /\ consuming' \subseteq consuming \cup open
      /\ (times = 0 => consuming' = consuming) /\ queueState' \in {state, "Consuming"}
  BY <1>2 DEF QueueInv
<1>5. ASSUME NEW q \in consuming' PROVE consumers'[q] > 0
  <2>1. q = queue /\ (consumers[q] > 0 \/ times > 0)
    BY <1>2, <1>5 DEF QueueInv
  <2>2. CASE queue \in Queues
    <3>1. consumers \in [Queues -> Nat]
      BY DEF QueueInv
    <3>2. /\ consumers[queue] + times \in Nat /\ consumers[queue] + times > 0
          /\ consumers'[q] = Receiver!AtMost(consumers[queue] + times)
      BY <1>2, <2>1, <2>2, <3>1
    <3> QED BY <1>1, <3>2
  <2>3. CASE queue \notin Queues
    BY <1>2, <1>5, <2>1, <2>3 DEF QueueInv
  <2> QED BY <2>2, <2>3
<1> QED BY <1>3, <1>4, <1>5

(* Every step of the receiver keeps ReceiverInv.                            *)
LEMMA ReceiverSteps ==
    ReceiverInv /\ [Receiver!ReceiverNext]_<<linkVars, receiverVars>> => ReceiverInv'
<1> SUFFICES ASSUME ReceiverInv, [Receiver!ReceiverNext]_<<linkVars, receiverVars>>
             PROVE  ReceiverInv'
  OBVIOUS
<1>0. LinkInv /\ QueueInv /\ OneQueueInv /\ MessageInv
  BY DEF ReceiverInv
<1> USE DEF Receiver!connection
<1>1. ASSUME NEW name \in Queues, Receiver!SetQueueName(name) PROVE ReceiverInv'
  BY <1>0, <1>1 DEF Receiver!SetQueueName, ReceiverInv, LinkInv, QueueInv, OneQueueInv, MessageInv
<1>2. CASE Receiver!ReceiverLink
  <2>1. LinkInv'
    BY <1>0, <1>2, LinkKeeps DEF Receiver!ReceiverLink
  <2>2. link' = "up" => link = "up"
    BY <1>2 DEF Receiver!ReceiverLink, Receiver!LinkSteps, Receiver!SetAutoReconnect,
       Receiver!ClientError, Receiver!SocketError, Receiver!ConnectToHost,
       Receiver!Disconnected, Receiver!DisconnectFromHost, Receiver!Abort
  <2>3. /\ UNCHANGED <<queueName, create, queue, queueState, known, hooked, declared,
                       consumers, waiting, sent, handled, invalid>>
        /\ IF link' = "up" THEN UNCHANGED <<opened, declaring, consuming>>
           ELSE opened' = {} /\ declaring' = {} /\ consuming' = {}
    BY <1>2 DEF Receiver!ReceiverLink
  <2>4. QueueInv' /\ MessageInv'
    BY <1>0, <2>2, <2>3 DEF QueueInv, MessageInv
  <2>5. OneQueueInv'
    BY <1>0, <2>2, <2>3 DEF OneQueueInv
  <2> QED BY <2>1, <2>4, <2>5 DEF ReceiverInv
<1>3. CASE Receiver!ReceiverConnected
  <2>1. LinkInv' /\ link = "connecting" /\ link' = "up"
    BY <1>0, <1>3, LinkKeeps DEF Receiver!ReceiverConnected, Receiver!LinkUp
  <2>2. /\ queueState' = "Opening"
        /\ queue' = queueName /\ known' = known \cup {queueName}
        /\ hooked' = IF queueName = queue THEN hooked
                     ELSE [hooked EXCEPT ![queueName] = Receiver!AtMost(@ + 1)]
        /\ UNCHANGED <<queueName, create, opened, declaring, consuming, declared,
                       consumers, waiting, sent, handled, invalid>>
    BY <1>3 DEF Receiver!ReceiverConnected
  <2>3. opened = {} /\ declaring = {} /\ consuming = {}
    BY <1>0, <2>1 DEF QueueInv
  <2>5. queueName \in Queues /\ hooked[queueName] \in Nat /\ MaxConsumers \in Nat \ {0}
    BY <1>0, AmqpAssumption DEF QueueInv
  <2>6. /\ Receiver!AtMost(hooked[queueName] + 1) \in Nat \ {0}
        /\ hooked[queueName] = 0 => Receiver!AtMost(hooked[queueName] + 1) = 1
    BY <2>5 DEF Receiver!AtMost
  <2>7. /\ hooked' \in [Queues -> Nat]
        /\ \A q \in Queues : IF q \in known' THEN hooked'[q] > 0 ELSE hooked'[q] = 0
    BY <1>0, <2>2, <2>5, <2>6, AmqpAssumption DEF QueueInv
  <2>8. QueueInv'
    BY <1>0, <2>1, <2>2, <2>3, <2>5, <2>7 DEF QueueInv
  <2>9. ASSUME NEW q \in Queues, known' = {q} PROVE queue' = q /\ hooked'[q] = 1
    <3>1. q = queueName
      BY <2>2, <2>9
    <3>2. CASE known = {}
      BY <1>0, <2>2, <2>5, <2>6, <3>1, <3>2, AmqpAssumption DEF QueueInv
    <3>3. CASE known # {}
      <4>1. known = {q} /\ queue = q
        BY <1>0, <2>2, <2>9, <3>3 DEF OneQueueInv
      <4> QED BY <1>0, <2>2, <3>1, <4>1 DEF OneQueueInv
    <3> QED BY <3>2, <3>3
  <2>10. OneQueueInv'
    BY <2>1, <2>2, <2>3, <2>9 DEF OneQueueInv
  <2>11. MessageInv'
    BY <1>0, <2>2 DEF MessageInv
  <2> QED BY <2>1, <2>8, <2>10, <2>11 DEF ReceiverInv
<1>4. ASSUME NEW q \in Queues, Receiver!Opened(q) PROVE ReceiverInv'
  <2>1. /\ link = "up" /\ q \in known /\ q \notin opened /\ opened' = opened \cup {q}
        /\ opened' \in SUBSET known
        /\ UNCHANGED <<link, autoReconnect, tries, unreported, started, leaving, queueName,
                       create, queue, known, hooked, declared, waiting, sent, handled,
                       invalid>>
    BY <1>0, <1>4 DEF Receiver!Opened, QueueInv
  <2>2. queue \in known /\ hooked[q] \in Nat /\ hooked[q] - 1 \in Nat
    BY <1>0, <2>1 DEF QueueInv
  <2>3. CASE create /\ queueState = "Opening"
    <3>1. /\ declaring' = declaring \cup {queue}
          /\ Receiver!StartConsuming(opened', hooked[q] - 1, "Declared")
      BY <1>4, <2>3 DEF Receiver!Opened
    <3>2. QueueInv'
      BY <1>0, <2>1, <2>2, <3>1, ConsumingStarts DEF QueueInv
    <3>3. ASSUME NEW x \in Queues, known = {x} PROVE consuming' = consuming /\ x \in opened'
      <4>1. x = q /\ hooked[q] - 1 = 0
        BY <1>0, <2>1, <3>3 DEF OneQueueInv
      <4> QED BY <1>0, <2>1, <2>2, <3>1, <4>1, ConsumingStarts
    <3>4. OneQueueInv'
      BY <1>0, <2>1, <3>3 DEF OneQueueInv
    <3> QED BY <1>0, <2>1, <3>2, <3>4 DEF ReceiverInv, LinkInv, MessageInv
  <2>4. CASE ~ (create /\ queueState = "Opening")
    <3>1. declaring' = declaring /\ Receiver!StartConsuming(opened', hooked[q], queueState)
      BY <1>4, <2>4 DEF Receiver!Opened
    <3>2. QueueInv'
      BY <1>0, <2>1, <2>2, <3>1, ConsumingStarts DEF QueueInv
    <3>3. ASSUME NEW x \in Queues, known = {x}
          PROVE  x \in opened' /\ (create => consuming' \subseteq declared)
      <4>1. x = q
        BY <2>1, <3>3
      <4>2. create => q \in declared /\ consuming \subseteq declared
        BY <1>0, <2>1, <2>4, <3>3, <4>1 DEF OneQueueInv
      <4>3. consuming' \subseteq {q}
        BY <1>0, <2>1, <2>2, <3>1, <3>3, <4>1, ConsumingStarts
      <4> QED BY <2>1, <4>1, <4>2, <4>3
    <3>4. OneQueueInv'
      BY <1>0, <2>1, <3>3 DEF OneQueueInv
    <3> QED BY <1>0, <2>1, <3>2, <3>4 DEF ReceiverInv, LinkInv, MessageInv
  <2> QED BY <2>3, <2>4
<1>5. ASSUME NEW q \in Queues, Receiver!Declared(q) PROVE ReceiverInv'
  <2>1. /\ q \in declaring /\ q \in opened /\ declaring' = declaring \ {q}
        /\ declared' = declared \cup {q} /\ opened \in SUBSET known /\ q \in known
        /\ Receiver!StartConsuming(opened, hooked[q], "Declared")
        /\ UNCHANGED <<link, autoReconnect, tries, unreported, started, leaving, queueName,
                       create, queue, known, hooked, opened, waiting, sent, handled,
                       invalid>>
    BY <1>0, <1>5 DEF Receiver!Declared, QueueInv
  <2>2. link = "up" /\ hooked[q] \in Nat
    BY <1>0, <2>1 DEF QueueInv
  <2>3. QueueInv'
    BY <1>0, <2>1, <2>2, ConsumingStarts DEF QueueInv
  <2>4. ASSUME NEW x \in Queues, known = {x} PROVE x = q /\ consuming' \subseteq {q}
    BY <1>0, <2>1, <2>2, <2>4, ConsumingStarts DEF OneQueueInv
  <2>5. OneQueueInv'
    BY <1>0, <2>1, <2>4 DEF OneQueueInv
  <2> QED BY <1>0, <2>1, <2>3, <2>5 DEF ReceiverInv, LinkInv, MessageInv
<1>6. ASSUME NEW q \in Queues, NEW p \in BOOLEAN, Receiver!QueueError(q, p) PROVE ReceiverInv'
  <2>1. /\ q \in declaring /\ q \in known /\ declaring' = declaring \ {q}
        /\ declared \subseteq declared' /\ declared' \subseteq declared \cup {q}
        /\ opened' \subseteq opened /\ consuming' \subseteq consuming
        /\ \/ UNCHANGED <<queueState, opened>>
           \/ q \in declared'
        /\ UNCHANGED <<link, autoReconnect, tries, unreported, started, leaving, queueName,
                       create, queue, known, hooked, consumers, waiting, sent, handled,
                       invalid>>
    BY <1>0, <1>6 DEF Receiver!QueueError, QueueInv
  <2>2. QueueInv'
    BY <1>0, <2>1 DEF QueueInv
  <2>3. OneQueueInv'
    BY <1>0, <2>1 DEF OneQueueInv
  <2> QED BY <1>0, <2>1, <2>2, <2>3 DEF ReceiverInv, LinkInv, MessageInv
<1>7. ASSUME NEW q \in Queues, Receiver!MessageArrives(q) PROVE ReceiverInv'
  <2>1. q = queue /\ waiting[q] = <<>> /\ consumers[q] \in Nat /\ consumers[q] > 0
    BY <1>0, <1>7 DEF Receiver!MessageArrives, QueueInv, MessageInv
  <2>2. /\ Receiver!AmqpMessageReceived(Append(waiting[q], sent + 1), consumers[q])
        /\ sent' = sent + 1
        /\ UNCHANGED <<link, autoReconnect, tries, unreported, started, leaving, queueName,
                       create, queue, queueState, known, hooked, opened, declaring,
                       consuming, declared, consumers>>
    BY <1>7, <2>1 DEF Receiver!MessageArrives
  <2> DEFINE s == <<sent + 1>>
  <2>3. sent \in Nat /\ s \in Seq(Nat) /\ Len(s) = 1 /\ Append(waiting[q], sent + 1) = s
    BY <1>0, <2>1 DEF MessageInv
  <2>4. /\ handled' = handled \o SubSeq(s, 1, 1) /\ invalid' = invalid
        /\ waiting' = [waiting EXCEPT ![queue] = SubSeq(s, 2, 1)]
    <3>1. /\ Receiver!AmqpMessageReceived(s, consumers[q]) /\ 1 + 1 = 2
          /\ (IF consumers[q] < 1 THEN consumers[q] ELSE 1) = 1
      BY <2>1, <2>2, <2>3
    <3> HIDE DEF s
    <3> QED BY <2>3, <3>1 DEF Receiver!AmqpMessageReceived
  <2>5. SubSeq(s, 1, 1) = <<sent + 1>> /\ SubSeq(s, 2, 1) = <<>>
    <3> HIDE DEF s
    <3>1. SubSeq(s, 1, 1) = s /\ SubSeq(s, 2, 1) = <<>>
      BY <2>3, SubSeqFull, SubSeqEmpty
    <3> QED BY <3>1 DEF s
  <2>6. waiting' \in [Queues -> {<<>>}]
    BY <1>0, <2>4, <2>5 DEF MessageInv
  <2>7. handled' = Count(sent')
    BY <1>0, <2>2, <2>3, <2>4, <2>5, CountGrows DEF MessageInv
  <2>8. MessageInv'
    BY <1>0, <2>2, <2>3, <2>4, <2>6, <2>7 DEF MessageInv
  <2> QED BY <1>0, <2>2, <2>8 DEF ReceiverInv, LinkInv, QueueInv, OneQueueInv
<1>8. ASSUME NEW q \in Queues, Receiver!NothingArrives(q) PROVE ReceiverInv'
  <2>1. queue \in Queues /\ waiting[queue] = <<>> /\ consumers[q] \in Nat /\ consumers[q] > 0
    BY <1>0, <1>8 DEF Receiver!NothingArrives, QueueInv, MessageInv
  <2>2. /\ Receiver!AmqpMessageReceived(waiting[queue], consumers[q])
        /\ UNCHANGED <<link, autoReconnect, tries, unreported, started, leaving, queueName,
                       create, queue, queueState, known, hooked, opened, declaring,
                       consuming, declared, consumers, sent>>
    BY <1>8 DEF Receiver!NothingArrives
  <2>3. /\ handled' = handled \o SubSeq(<<>>, 1, 0) /\ invalid' = invalid
        /\ waiting' = [waiting EXCEPT ![queue] = SubSeq(<<>>, 1, 0)]
    <3>1. /\ Len(<<>>) = 0 /\ 0 + 1 = 1
          /\ (IF consumers[q] < 0 THEN consumers[q] ELSE 0) = 0
      BY <2>1
    <3> QED BY <2>1, <2>2, <3>1 DEF Receiver!AmqpMessageReceived
  <2>4. SubSeq(<<>>, 1, 0) = <<>>
    OBVIOUS
  <2>5. handled' = handled /\ waiting' \in [Queues -> {<<>>}]
    BY <1>0, <2>3, <2>4, CountGrows, ConcatEmptySeq DEF MessageInv
  <2>6. MessageInv'
    BY <1>0, <2>2, <2>3, <2>5 DEF MessageInv
  <2> QED BY <1>0, <2>2, <2>6 DEF ReceiverInv, LinkInv, QueueInv, OneQueueInv
<1>9. CASE UNCHANGED <<linkVars, receiverVars>>
  BY <1>0, <1>9 DEF linkVars, receiverVars, ReceiverInv, LinkInv, QueueInv, OneQueueInv,
     MessageInv
<1> QED BY <1>1, <1>2, <1>3, <1>4, <1>5, <1>6, <1>7, <1>8, <1>9 DEF Receiver!ReceiverNext

(* The invariant says of messages what is claimed of them.                  *)
LEMMA ReceiverIsExact ==
    ReceiverInv => /\ Receiver!MessagesAreHandledOnce /\ Receiver!ConsumesItsQueue
                   /\ Receiver!SilentErrorsAreCounted
<1> SUFFICES ASSUME ReceiverInv
             PROVE  /\ Receiver!MessagesAreHandledOnce /\ Receiver!ConsumesItsQueue
                    /\ Receiver!SilentErrorsAreCounted
  OBVIOUS
<1>1. Receiver!MessagesAreHandledOnce
  BY DEF ReceiverInv, MessageInv, Receiver!MessagesAreHandledOnce, Count
<1>2. Receiver!ConsumesItsQueue
  BY DEF ReceiverInv, QueueInv, OneQueueInv, Receiver!ConsumesItsQueue
<1>3. Receiver!SilentErrorsAreCounted
  BY LinkCounts DEF ReceiverInv
<1> QED BY <1>1, <1>2, <1>3

-----------------------------------------------------------------------------
(* Of two messages of one caller, the one with the lesser number comes     *)
(* first.                                                                  *)
InOrder(s) == \A i, j \in 1 .. Len(s) :
                  i < j /\ publisherOf[s[i]] = publisherOf[s[j]] => s[i] < s[j]
Before(s, id) == \A i \in 1 .. Len(s) :
                     publisherOf[s[i]] = publisherOf[id] => s[i] < id

Ids == 1 .. Len(outcomes)
Words == {"published", "failed"}

NumberedInv ==
    /\ outcomes \in Seq(Seq(Words)) /\ publisherOf \in Seq(Callers)
    /\ Len(publisherOf) = Len(outcomes) /\ nextPublishId = Len(outcomes) + 1
    /\ numbered \in [Callers -> Ids \cup {0}]
    /\ \A c \in Callers : numbered[c] # 0 => publisherOf[numbered[c]] = c
    /\ postedCalls \in Seq(Ids) /\ brokerGot \in Seq(Ids)
    /\ \A i \in 1 .. Len(postedCalls) : publisherOf[postedCalls[i]] # Owner

OrderInv ==
    /\ InOrder(postedCalls) /\ InOrder(brokerGot)
    /\ \A i \in 1 .. Len(postedCalls) : Before(brokerGot, postedCalls[i])
    /\ \A c \in Callers : numbered[c] # 0 =>
          Before(postedCalls, numbered[c]) /\ Before(brokerGot, numbered[c])

OutcomeInv == \A id \in Ids :
    Len(outcomes[id]) = IF id \in Publisher!OnTheWay THEN 0 ELSE 1

PublisherInv == LinkInv /\ NumberedInv /\ OrderInv /\ OutcomeInv

(* The publisher's connection is kept as the receiver's is.                 *)
LEMMA PublisherLinkKeeps ==
    ASSUME LinkInv, Publisher!LinkSteps \/ Publisher!LinkUp
    PROVE  LinkInv'
  BY LinkKeeps DEF Publisher!LinkSteps, Receiver!LinkSteps, Publisher!LinkUp, Receiver!LinkUp,
     Publisher!ClientError, Receiver!ClientError, Publisher!SocketError, Receiver!SocketError,
     Publisher!HandleError, Receiver!HandleError, Publisher!ResetTries, Receiver!ResetTries,
     Publisher!AUTO_RECONNECTION_TRIES, Receiver!AUTO_RECONNECTION_TRIES,
     Publisher!SetAutoReconnect, Receiver!SetAutoReconnect,
     Publisher!ConnectToHost, Receiver!ConnectToHost,
     Publisher!Disconnected, Receiver!Disconnected,
     Publisher!DisconnectFromHost, Receiver!DisconnectFromHost,
     Publisher!Abort, Receiver!Abort

(* Sequences of numbers: what is put at the end comes after the others.    *)
LEMMA AppendKeepsOrder ==
    ASSUME NEW S \in SUBSET Nat, NEW s \in Seq(S), NEW id \in S, InOrder(s), Before(s, id)
    PROVE  InOrder(Append(s, id))
<1> DEFINE t == Append(s, id)
<1>1. /\ Len(t) = Len(s) + 1 /\ Len(s) \in Nat /\ t[Len(s) + 1] = id
      /\ \A i \in 1 .. Len(s) : t[i] = s[i]
  BY AppendEntries
<1> HIDE DEF t
<1> SUFFICES ASSUME NEW i \in 1 .. Len(t), NEW j \in 1 .. Len(t),
                    i < j, publisherOf[t[i]] = publisherOf[t[j]]
             PROVE  t[i] < t[j]
  BY DEF InOrder, t
<1>2. i \in 1 .. Len(s) /\ t[i] = s[i]
  BY <1>1
<1>3. CASE j = Len(s) + 1
  BY <1>1, <1>2, <1>3 DEF Before
<1>4. CASE j # Len(s) + 1
  <2>1. j \in 1 .. Len(s) /\ t[j] = s[j]
    BY <1>1, <1>4
  <2> QED BY <1>2, <2>1 DEF InOrder
<1> QED BY <1>3, <1>4

(* A later entry does not come before what is queued.                       *)
LEMMA AppendKeepsBefore ==
    ASSUME NEW S, NEW s \in Seq(S), NEW id \in S, NEW later,
           Before(s, later), publisherOf[id] = publisherOf[later] => id < later
    PROVE  Before(Append(s, id), later)
<1> DEFINE t == Append(s, id)
<1>1. /\ Len(t) = Len(s) + 1 /\ Len(s) \in Nat /\ t[Len(s) + 1] = id
      /\ \A i \in 1 .. Len(s) : t[i] = s[i]
  BY AppendEntries
<1> HIDE DEF t
<1> SUFFICES ASSUME NEW i \in 1 .. Len(t), publisherOf[t[i]] = publisherOf[later]
             PROVE  t[i] < later
  BY DEF Before, t
<1>2. CASE i = Len(s) + 1
  BY <1>1, <1>2
<1>3. CASE i # Len(s) + 1
  <2>1. i \in 1 .. Len(s) /\ t[i] = s[i]
    BY <1>1, <1>3
  <2> QED BY <2>1 DEF Before
<1> QED BY <1>2, <1>3

(* The rest of a queue is in the order of the whole.                        *)
LEMMA TailKeepsOrder ==
    ASSUME NEW S \in SUBSET Nat, NEW s \in Seq(S), s # <<>>, InOrder(s)
    PROVE  /\ Head(s) \in S /\ Head(s) = s[1] /\ Len(s) \in Nat \ {0}
           /\ Tail(s) \in Seq(S) /\ Len(Tail(s)) = Len(s) - 1
           /\ \A i \in 1 .. Len(Tail(s)) : Tail(s)[i] = s[i + 1]
           /\ InOrder(Tail(s))
           /\ \A later : Before(s, later) => Before(Tail(s), later)
<1> DEFINE t == Tail(s)
<1>1. /\ Head(s) \in S /\ Head(s) = s[1] /\ Len(s) \in Nat \ {0}
      /\ t \in Seq(S) /\ Len(t) = Len(s) - 1 /\ \A i \in 1 .. Len(t) : t[i] = s[i + 1]
  BY HeadTailProperties, EmptySeq
<1> HIDE DEF t
<1>2. \A i \in 1 .. Len(t) : i \in Nat /\ i + 1 \in 1 .. Len(s) /\ t[i] = s[i + 1]
  BY <1>1
<1>3. ASSUME NEW i \in 1 .. Len(t), NEW j \in 1 .. Len(t),
             i < j, publisherOf[t[i]] = publisherOf[t[j]]
      PROVE  t[i] < t[j]
  <2>1. i + 1 < j + 1
    BY <1>2, <1>3
  <2> QED BY <1>2, <1>3, <2>1 DEF InOrder
<1>4. InOrder(t)
  BY <1>3 DEF InOrder
<1>5. ASSUME NEW later, Before(s, later) PROVE Before(t, later)
  BY <1>2, <1>5 DEF Before
<1> QED BY <1>1, <1>4, <1>5 DEF t

(* A sequence over a set is one over a larger set.                          *)
LEMMA LongerSeq ==
    ASSUME NEW S, NEW T, S \subseteq T, NEW s \in Seq(S)
    PROVE  s \in Seq(T)
  OBVIOUS

(* Initially nothing is published.                                          *)
LEMMA PublisherStarts == Publisher!InitPublisher => PublisherInv
<1> SUFFICES ASSUME Publisher!InitPublisher PROVE PublisherInv
  OBVIOUS
<1> USE DEF Publisher!InitPublisher
<1>1. LinkInv
  BY LinkStarts DEF Publisher!InitConnection, Receiver!InitConnection
<1>2. /\ outcomes \in Seq(Seq(Words)) /\ publisherOf \in Seq(Callers)
      /\ postedCalls \in Seq(Ids) /\ brokerGot \in Seq(Ids)
      /\ Len(outcomes) = 0 /\ Len(postedCalls) = 0 /\ Len(brokerGot) = 0
      /\ Len(publisherOf) = 0 /\ Ids = {}
  BY EmptySeq DEF Ids
<1>3. NumberedInv
  BY <1>2 DEF NumberedInv
<1>4. OrderInv
  BY <1>2 DEF OrderInv, InOrder, Before
<1>5. OutcomeInv
  BY <1>2 DEF OutcomeInv
<1> QED BY <1>1, <1>3, <1>4, <1>5 DEF PublisherInv

(* What is on its way is in one place only.                                *)
LEMMA OnOneWay ==
    ASSUME PublisherInv
    PROVE  /\ \A c, d \in Callers : numbered[c] # 0 /\ numbered[c] = numbered[d] => c = d
           /\ \A c \in Callers : \A i \in 1 .. Len(postedCalls) :
                 numbered[c] # 0 => postedCalls[i] # numbered[c]
           /\ \A i, j \in 1 .. Len(postedCalls) : i < j => postedCalls[i] # postedCalls[j]
<1>1. NumberedInv /\ OrderInv /\ Len(outcomes) \in Nat
  BY DEF PublisherInv, NumberedInv
<1>2. \A i \in 1 .. Len(postedCalls) : postedCalls[i] \in Nat
  BY <1>1 DEF NumberedInv, Ids
<1>3. \A c, d \in Callers : numbered[c] # 0 /\ numbered[c] = numbered[d] => c = d
  BY <1>1 DEF NumberedInv
<1>4. ASSUME NEW c \in Callers, NEW i \in 1 .. Len(postedCalls), numbered[c] # 0,
             postedCalls[i] = numbered[c]
      PROVE  FALSE
  <2>1. Before(postedCalls, numbered[c])
    BY <1>1, <1>4 DEF OrderInv
  <2> QED BY <1>2, <1>4, <2>1 DEF Before
<1>5. ASSUME NEW i \in 1 .. Len(postedCalls), NEW j \in 1 .. Len(postedCalls), i < j,
             postedCalls[i] = postedCalls[j]
      PROVE  FALSE
  BY <1>1, <1>2, <1>5 DEF OrderInv, InOrder
<1> QED BY <1>3, <1>4, <1>5

(* publishMessageImpl answers a message that is no longer on its way.      *)
LEMMA ImplAnswers ==
    ASSUME PublisherInv, NEW id \in Ids, Publisher!Impl(id), id \in Publisher!OnTheWay,
           Before(brokerGot, id)
    PROVE  /\ outcomes' \in Seq(Seq(Words)) /\ Len(outcomes') = Len(outcomes)
           /\ Len(outcomes'[id]) = 1
           /\ \A x \in Ids \ {id} : outcomes'[x] = outcomes[x]
           /\ brokerGot' \in Seq(Ids) /\ InOrder(brokerGot')
           /\ brokerGot' \in {brokerGot, Append(brokerGot, id)}
<1>1. /\ NumberedInv /\ OrderInv /\ outcomes \in Seq(Seq(Words)) /\ Len(outcomes) \in Nat
      /\ outcomes[id] \in Seq(Words) /\ Len(outcomes[id]) = 0
  BY DEF PublisherInv, NumberedInv, OutcomeInv, Ids
<1>2. PICK word \in Words :
         outcomes' = [outcomes EXCEPT ![id] = Append(outcomes[id], word)]
  <2>1. CASE usedExchange = NoExchange
    BY <2>1 DEF Publisher!Impl, Words
  <2>2. CASE usedExchange # NoExchange
    BY <2>2 DEF Publisher!Impl, Words
  <2> QED BY <2>1, <2>2
<1>3. Append(outcomes[id], word) \in Seq(Words) /\ Len(Append(outcomes[id], word)) = 1
  BY <1>1, AppendEntries
<1>4. /\ outcomes' \in Seq(Seq(Words)) /\ Len(outcomes') = Len(outcomes)
      /\ outcomes'[id] = Append(outcomes[id], word)
      /\ \A x \in Ids \ {id} : outcomes'[x] = outcomes[x]
  <2> DEFINE e == Append(outcomes[id], word)
             W == Seq(Words)
             next == [outcomes EXCEPT ![id] = e]
  <2>1. id \in 1 .. Len(outcomes) /\ e \in W /\ outcomes \in Seq(W) /\ outcomes' = next
    BY <1>1, <1>2, <1>3 DEF Ids
  <2> HIDE DEF e, W
  <2>2. /\ next \in Seq(W) /\ Len(next) = Len(outcomes)
        /\ \A j \in 1 .. Len(outcomes) : next[j] = IF j = id THEN e ELSE outcomes[j]
    BY ONLY <2>1, ExceptSeq
  <2> HIDE DEF next
  <2> QED BY <2>1, <2>2 DEF Ids, e, W
<1>5. brokerGot' \in {brokerGot, Append(brokerGot, id)}
  BY DEF Publisher!Impl
<1>6. brokerGot' \in Seq(Ids)
  <2>1. brokerGot \in Seq(Ids)
    BY <1>1 DEF NumberedInv
  <2>2. Append(brokerGot, id) \in Seq(Ids)
    BY <2>1, AppendEntries
  <2> QED BY <1>5, <2>1, <2>2
<1>7. Ids \subseteq Nat
  BY <1>1 DEF Ids
<1>8. InOrder(brokerGot) /\ InOrder(Append(brokerGot, id))
  BY <1>1, <1>7, AppendKeepsOrder DEF OrderInv, NumberedInv
<1> QED BY <1>3, <1>4, <1>5, <1>6, <1>8

(* The steps of publishing: a caller takes a number ...                     *)
LEMMA TakesNumber ==
    ASSUME PublisherInv, NEW c \in Callers, Publisher!TakeNumber(c) PROVE PublisherInv'
<1> DEFINE n == Len(outcomes) + 1
<1>1. /\ LinkInv /\ NumberedInv /\ OrderInv /\ OutcomeInv
      /\ outcomes \in Seq(Seq(Words)) /\ publisherOf \in Seq(Callers)
      /\ Len(outcomes) \in Nat /\ Len(publisherOf) = Len(outcomes)
      /\ numbered \in [Callers -> Ids \cup {0}]
      /\ postedCalls \in Seq(Ids) /\ brokerGot \in Seq(Ids)
  BY DEF PublisherInv, NumberedInv
<1>2. /\ numbered[c] = 0 /\ numbered' = [numbered EXCEPT ![c] = n] /\ nextPublishId' = n + 1
      /\ outcomes' = Append(outcomes, <<>>) /\ publisherOf' = Append(publisherOf, c)
      /\ UNCHANGED <<postedCalls, brokerGot>> /\ UNCHANGED linkVars
  BY <1>1 DEF Publisher!TakeNumber, Publisher!connection, linkVars, NumberedInv
<1>3. <<>> \in Seq(Words) /\ Len(<<>>) = 0
  BY EmptySeq
<1>4. /\ outcomes' \in Seq(Seq(Words)) /\ Len(outcomes') = n
      /\ \A i \in Ids : outcomes'[i] = outcomes[i]
      /\ outcomes'[n] = <<>>
  BY <1>1, <1>2, <1>3, AppendEntries DEF Ids
<1>5. /\ publisherOf' \in Seq(Callers) /\ Len(publisherOf') = n
      /\ \A i \in Ids : publisherOf'[i] = publisherOf[i]
      /\ publisherOf'[n] = c
  <2>1. /\ publisherOf' \in Seq(Callers) /\ Len(publisherOf') = Len(publisherOf) + 1
        /\ \A i \in 1 .. Len(publisherOf) : publisherOf'[i] = publisherOf[i]
        /\ publisherOf'[Len(publisherOf) + 1] = c
    BY <1>1, <1>2, AppendEntries
  <2> QED BY <1>1, <2>1 DEF Ids
<1>6. Ids' = Ids \cup {n} /\ n \notin Ids /\ n \in Nat /\ n # 0 /\ 0 \notin Ids
      /\ Ids \subseteq Nat /\ \A i \in Ids : i < n
  BY <1>1, <1>4 DEF Ids
<1> HIDE DEF n
<1>7. numbered' \in [Callers -> Ids' \cup {0}]
  BY <1>1, <1>2, <1>6
<1>8. \A d \in Callers : numbered'[d] = IF d = c THEN n ELSE numbered[d]
  BY <1>1, <1>2
<1>9. postedCalls \in Seq(Ids') /\ brokerGot \in Seq(Ids')
  BY <1>1, <1>6, LongerSeq
<1>10. /\ \A i \in 1 .. Len(postedCalls) : postedCalls[i] \in Ids
       /\ \A i \in 1 .. Len(brokerGot) : brokerGot[i] \in Ids
  BY <1>1
<1>11. NumberedInv'
  <2>1. ASSUME NEW d \in Callers, numbered'[d] # 0 PROVE publisherOf'[numbered'[d]] = d
    <3>1. CASE d = c
      BY <1>5, <1>8, <3>1
    <3>2. CASE d # c
      <4>1. numbered'[d] = numbered[d] /\ numbered[d] \in Ids /\ publisherOf[numbered[d]] = d
        BY <1>1, <1>8, <2>1, <3>2 DEF NumberedInv
      <4> QED BY <1>5, <4>1
    <3> QED BY <3>1, <3>2
  <2>2. \A i \in 1 .. Len(postedCalls) : publisherOf'[postedCalls[i]] # Owner
    BY <1>1, <1>5, <1>10 DEF NumberedInv
  <2> QED BY <1>2, <1>4, <1>5, <1>7, <1>9, <2>1, <2>2 DEF NumberedInv
<1>12. OrderInv'
  <2>1. InOrder(postedCalls)' /\ InOrder(brokerGot)'
    <3>1. ASSUME NEW i \in 1 .. Len(postedCalls), NEW j \in 1 .. Len(postedCalls), i < j,
                 publisherOf'[postedCalls[i]] = publisherOf'[postedCalls[j]]
          PROVE  postedCalls[i] < postedCalls[j]
      <4>1. publisherOf[postedCalls[i]] = publisherOf[postedCalls[j]]
        BY <1>5, <1>10, <3>1
      <4> QED BY <1>1, <3>1, <4>1 DEF OrderInv, InOrder
    <3>2. ASSUME NEW i \in 1 .. Len(brokerGot), NEW j \in 1 .. Len(brokerGot), i < j,
                 publisherOf'[brokerGot[i]] = publisherOf'[brokerGot[j]]
          PROVE  brokerGot[i] < brokerGot[j]
      <4>1. publisherOf[brokerGot[i]] = publisherOf[brokerGot[j]]
        BY <1>5, <1>10, <3>2
      <4> QED BY <1>1, <3>2, <4>1 DEF OrderInv, InOrder
    <3> QED BY <1>2, <3>1, <3>2 DEF InOrder
  <2>2. ASSUME NEW i \in 1 .. Len(postedCalls)
        PROVE  \A j \in 1 .. Len(brokerGot) :
                  publisherOf'[brokerGot[j]] = publisherOf'[postedCalls[i]]
                     => brokerGot[j] < postedCalls[i]
    BY <1>1, <1>5, <1>10, <2>2 DEF OrderInv, Before
  <2>3. ASSUME NEW d \in Callers, numbered'[d] # 0
        PROVE  /\ \A j \in 1 .. Len(postedCalls) :
                     publisherOf'[postedCalls[j]] = publisherOf'[numbered'[d]]
                        => postedCalls[j] < numbered'[d]
               /\ \A j \in 1 .. Len(brokerGot) :
                     publisherOf'[brokerGot[j]] = publisherOf'[numbered'[d]]
                        => brokerGot[j] < numbered'[d]
    <3>1. CASE d = c
      BY <1>6, <1>8, <1>10, <3>1
    <3>2. CASE d # c
      <4>1. numbered'[d] = numbered[d] /\ numbered[d] \in Ids
        BY <1>1, <1>8, <2>3, <3>2
      <4> QED BY <1>1, <1>5, <1>10, <2>3, <4>1 DEF OrderInv, Before
    <3> QED BY <3>1, <3>2
  <2> QED BY <1>2, <2>1, <2>2, <2>3 DEF OrderInv, Before
<1>13. OutcomeInv'
  <2>1. Publisher!OnTheWay' \cap Ids = Publisher!OnTheWay \cap Ids /\ n \in Publisher!OnTheWay'
    <3>1. \A x \in Ids : (\E d \in Callers : numbered'[d] = x) <=> (\E d \in Callers : numbered[d] = x)
      BY <1>2, <1>6, <1>8
    <3>2. numbered'[c] = n
      BY <1>8
    <3> QED BY <1>2, <3>1, <3>2 DEF Publisher!OnTheWay
  <2>2. Len(outcomes'[n]) = 0
    BY <1>3, <1>4
  <2>3. \A x \in Ids : (x \in Publisher!OnTheWay') <=> (x \in Publisher!OnTheWay)
    BY <2>1
  <2> QED BY <1>1, <1>4, <1>6, <2>1, <2>2, <2>3 DEF OutcomeInv
<1> QED BY <1>1, <1>2, <1>11, <1>12, <1>13 DEF PublisherInv, LinkInv, linkVars

(* A message leaves the way it was on, and is answered.                    *)
LEMMA Answers ==
    ASSUME PublisherInv, NEW id \in Ids, Publisher!Impl(id), id \in Publisher!OnTheWay,
           Before(brokerGot, id), NumberedInv',
           UNCHANGED <<linkVars, publisherOf>>, InOrder(postedCalls'),
           \A c \in Callers : numbered'[c] # 0 =>
              numbered'[c] = numbered[c] /\ numbered[c] # id /\ Before(postedCalls', numbered[c]),
           \A i \in 1 .. Len(postedCalls') :
              /\ Before(brokerGot, postedCalls'[i])
              /\ publisherOf[id] = publisherOf[postedCalls'[i]] => id < postedCalls'[i],
           \A c \in Callers : numbered'[c] # 0 =>
              (publisherOf[id] = publisherOf[numbered[c]] => id < numbered[c]),
           Publisher!OnTheWay' \cap Ids = (Publisher!OnTheWay \cap Ids) \ {id}
    PROVE  PublisherInv'
<1>1. /\ Len(outcomes') = Len(outcomes) /\ Len(outcomes'[id]) = 1
      /\ \A x \in Ids \ {id} : outcomes'[x] = outcomes[x]
      /\ brokerGot' \in Seq(Ids) /\ InOrder(brokerGot')
      /\ brokerGot' \in {brokerGot, Append(brokerGot, id)}
  BY ImplAnswers
<1>2. /\ OrderInv /\ OutcomeInv /\ LinkInv /\ brokerGot \in Seq(Ids)
  BY DEF PublisherInv, NumberedInv
<1>3. \A later : Before(brokerGot, later) /\ (publisherOf[id] = publisherOf[later] => id < later)
                    => Before(brokerGot', later)
  <2> SUFFICES ASSUME NEW later, Before(brokerGot, later),
                      publisherOf[id] = publisherOf[later] => id < later
               PROVE  Before(brokerGot', later)
    OBVIOUS
  <2>1. Before(Append(brokerGot, id), later)
    BY <1>2, AppendKeepsBefore
  <2> QED BY <1>1, <2>1
<1>4. \A i \in 1 .. Len(postedCalls') : Before(brokerGot', postedCalls'[i])
  BY <1>3
<1>5. ASSUME NEW c \in Callers, numbered'[c] # 0
      PROVE  Before(postedCalls', numbered'[c]) /\ Before(brokerGot', numbered'[c])
  <2>1. numbered[c] # 0 /\ Before(brokerGot, numbered[c])
    BY <1>2, <1>5 DEF OrderInv
  <2> QED BY <1>3, <1>5, <2>1
<1>6. OrderInv'
  BY <1>1, <1>4, <1>5 DEF OrderInv, InOrder, Before
<1>7. OutcomeInv'
  <2>1. Ids' = Ids
    BY <1>1 DEF Ids
  <2>2. \A x \in Ids : x \in Publisher!OnTheWay' <=> x \in Publisher!OnTheWay /\ x # id
    OBVIOUS
  <2> QED BY <1>1, <1>2, <2>1, <2>2 DEF OutcomeInv
<1>8. LinkInv'
  BY <1>2 DEF LinkInv, linkVars
<1> QED BY <1>6, <1>7, <1>8 DEF PublisherInv

(* ... publishes or queues the message ...                                  *)
LEMMA Publishes ==
    ASSUME PublisherInv, NEW c \in Callers, Publisher!PublishMessage(c) PROVE PublisherInv'
<1> DEFINE id == numbered[c]
<1>1. /\ NumberedInv /\ OrderInv /\ OutcomeInv /\ LinkInv /\ Len(outcomes) \in Nat
      /\ numbered \in [Callers -> Ids \cup {0}] /\ postedCalls \in Seq(Ids)
      /\ Ids \subseteq Nat /\ 0 \notin Ids
  BY DEF PublisherInv, NumberedInv, Ids
<1>2. /\ id \in Ids /\ numbered' = [numbered EXCEPT ![c] = 0]
      /\ UNCHANGED <<linkVars, nextPublishId, publisherOf>>
      /\ publisherOf[id] = c /\ id \in Publisher!OnTheWay
      /\ Before(postedCalls, id) /\ Before(brokerGot, id)
  BY <1>1 DEF Publisher!PublishMessage, Publisher!connection, linkVars, NumberedInv,
     OrderInv, Publisher!OnTheWay
<1>3. /\ numbered' \in [Callers -> Ids \cup {0}] /\ numbered'[c] = 0
      /\ \A d \in Callers \ {c} : numbered'[d] = numbered[d]
      /\ \A d \in Callers : numbered'[d] # 0 =>
            numbered'[d] = numbered[d] /\ numbered[d] # id /\ publisherOf[numbered[d]] # c
  BY <1>1, <1>2 DEF NumberedInv
<1>4. \A i \in 1 .. Len(postedCalls) : postedCalls[i] # id /\ postedCalls[i] \in Ids
  BY <1>1, <1>2, OnOneWay
<1> HIDE DEF id
<1>5. CASE c = Owner
  <2>1. Publisher!Impl(id) /\ UNCHANGED postedCalls
    BY <1>5 DEF Publisher!PublishMessage, id
  <2>2. /\ outcomes' \in Seq(Seq(Words)) /\ Len(outcomes') = Len(outcomes)
        /\ brokerGot' \in Seq(Ids)
    BY <1>2, <2>1, ImplAnswers
  <2>3. Ids' = Ids
    BY <2>2 DEF Ids
  <2>4. NumberedInv'
    BY <1>1, <1>2, <1>3, <2>1, <2>2, <2>3 DEF NumberedInv
  <2>5. Publisher!OnTheWay' \cap Ids = (Publisher!OnTheWay \cap Ids) \ {id}
    <3>1. ASSUME NEW x \in Ids
          PROVE  /\ x # id => ((\E d \in Callers : numbered'[d] = x)
                                 <=> (\E d \in Callers : numbered[d] = x))
                 /\ \A d \in Callers : numbered'[d] # id
      BY <1>1, <1>2, <1>3, <3>1 DEF id
    <3> QED BY <1>4, <2>1, <3>1 DEF Publisher!OnTheWay
  <2>6. /\ InOrder(postedCalls')
        /\ \A i \in 1 .. Len(postedCalls') :
              /\ Before(brokerGot, postedCalls'[i])
              /\ publisherOf[id] = publisherOf[postedCalls'[i]] => id < postedCalls'[i]
    BY <1>1, <1>2, <1>5, <2>1 DEF OrderInv, NumberedInv
  <2>7. \A d \in Callers : numbered'[d] # 0 =>
           /\ numbered'[d] = numbered[d] /\ numbered[d] # id
           /\ Before(postedCalls', numbered[d])
           /\ publisherOf[id] = publisherOf[numbered[d]] => id < numbered[d]
    BY <1>1, <1>2, <1>3, <2>1 DEF OrderInv
  <2> QED BY <1>2, <2>1, <2>4, <2>5, <2>6, <2>7, Answers
<1>6. CASE c # Owner
  <2>1. postedCalls' = Append(postedCalls, id) /\ UNCHANGED <<outcomes, brokerGot>>
    BY <1>6 DEF Publisher!PublishMessage, id
  <2>2. /\ postedCalls' \in Seq(Ids) /\ Len(postedCalls') = Len(postedCalls) + 1
        /\ \A i \in 1 .. Len(postedCalls) : postedCalls'[i] = postedCalls[i]
        /\ postedCalls'[Len(postedCalls) + 1] = id
        /\ Len(postedCalls) \in Nat
    BY <1>1, <1>2, <2>1, AppendEntries
  <2>3. Ids' = Ids
    BY <2>1 DEF Ids
  <2>4. \A i \in 1 .. Len(postedCalls') :
           \/ i \in 1 .. Len(postedCalls) /\ postedCalls'[i] = postedCalls[i]
           \/ postedCalls'[i] = id
    BY <2>2
  <2>5. NumberedInv'
    BY <1>1, <1>2, <1>3, <1>6, <2>1, <2>2, <2>3, <2>4 DEF NumberedInv
  <2>6. InOrder(postedCalls')
    BY <1>1, <1>2, <2>1, AppendKeepsOrder DEF OrderInv
  <2>7. \A i \in 1 .. Len(postedCalls') : Before(brokerGot, postedCalls'[i])
    BY <1>1, <1>2, <2>4 DEF OrderInv
  <2>8. ASSUME NEW d \in Callers, numbered'[d] # 0
        PROVE  Before(postedCalls', numbered'[d]) /\ Before(brokerGot, numbered'[d])
    <3>1. /\ numbered'[d] = numbered[d] /\ publisherOf[id] # publisherOf[numbered[d]]
          /\ Before(postedCalls, numbered[d]) /\ Before(brokerGot, numbered[d])
      BY <1>1, <1>2, <1>3, <2>8 DEF OrderInv
    <3>2. Before(Append(postedCalls, id), numbered[d])
      BY <1>1, <1>2, <3>1, AppendKeepsBefore
    <3> QED BY <2>1, <3>1, <3>2
  <2>9. OrderInv'
    <3>1. InOrder(brokerGot)
      BY <1>1 DEF OrderInv
    <3> QED BY <1>2, <2>1, <2>6, <2>7, <2>8, <3>1 DEF OrderInv, InOrder, Before
  <2>10. ASSUME NEW x \in Ids PROVE x \in Publisher!OnTheWay' <=> x \in Publisher!OnTheWay
    <3>1. x # id => ((\E d \in Callers : numbered'[d] = x) <=> (\E d \in Callers : numbered[d] = x))
      BY <1>1, <1>2, <1>3, <2>10 DEF id
    <3>2. id \in Publisher!OnTheWay' /\ id \in Publisher!OnTheWay
      BY <1>2, <2>2 DEF Publisher!OnTheWay
    <3>3. x # id => ((\E i \in 1 .. Len(postedCalls') : postedCalls'[i] = x)
                       <=> (\E i \in 1 .. Len(postedCalls) : postedCalls[i] = x))
      BY <2>2, <2>4
    <3>4. CASE x = id
      BY <3>2, <3>4
    <3>5. CASE x # id
      BY <3>1, <3>3, <3>5 DEF Publisher!OnTheWay
    <3> QED BY <3>4, <3>5
  <2>11. OutcomeInv'
    BY <1>1, <2>1, <2>3, <2>10 DEF OutcomeInv
  <2>12. LinkInv'
    BY <1>1, <1>2 DEF LinkInv, linkVars
  <2> QED BY <2>5, <2>9, <2>11, <2>12 DEF PublisherInv
<1> QED BY <1>5, <1>6

(* ... and the thread of the client sends what was queued.                  *)
LEMMA RunsPosted ==
    ASSUME PublisherInv, Publisher!RunPosted PROVE PublisherInv'
<1> DEFINE id == postedCalls[1]
<1>1. /\ NumberedInv /\ OrderInv /\ OutcomeInv /\ LinkInv /\ Len(outcomes) \in Nat
      /\ numbered \in [Callers -> Ids \cup {0}] /\ postedCalls \in Seq(Ids)
      /\ Ids \subseteq Nat /\ 0 \notin Ids
  BY DEF PublisherInv, NumberedInv, Ids
<1>2. /\ postedCalls # <<>> /\ postedCalls' = Tail(postedCalls)
      /\ Publisher!Impl(Head(postedCalls))
      /\ UNCHANGED <<linkVars, nextPublishId, numbered, publisherOf>>
  BY DEF Publisher!RunPosted, Publisher!connection, linkVars
<1>3. /\ id \in Ids /\ Head(postedCalls) = id /\ Len(postedCalls) \in Nat \ {0}
      /\ postedCalls' \in Seq(Ids) /\ Len(postedCalls') = Len(postedCalls) - 1
      /\ \A i \in 1 .. Len(postedCalls') : postedCalls'[i] = postedCalls[i + 1]
      /\ InOrder(postedCalls')
      /\ \A later : Before(postedCalls, later) => Before(postedCalls', later)
  BY <1>1, <1>2, TailKeepsOrder DEF OrderInv
<1>4. /\ id \in Publisher!OnTheWay /\ Before(brokerGot, id)
      /\ \A c \in Callers : numbered[c] # 0 => numbered[c] # id
  BY <1>1, <1>3, OnOneWay DEF OrderInv, Publisher!OnTheWay
<1>5. \A i \in 1 .. Len(postedCalls') :
         /\ i + 1 \in 1 .. Len(postedCalls) /\ 1 < i + 1 /\ postedCalls'[i] = postedCalls[i + 1]
         /\ postedCalls'[i] # id
  BY <1>3, OnOneWay
<1> HIDE DEF id
<1>6. /\ outcomes' \in Seq(Seq(Words)) /\ Len(outcomes') = Len(outcomes)
      /\ brokerGot' \in Seq(Ids)
  BY <1>2, <1>3, <1>4, ImplAnswers
<1>7. Ids' = Ids
  BY <1>6 DEF Ids
<1>8. NumberedInv'
  BY <1>1, <1>2, <1>3, <1>5, <1>6, <1>7 DEF NumberedInv
<1>9. \A i \in 1 .. Len(postedCalls') :
         /\ Before(brokerGot, postedCalls'[i])
         /\ publisherOf[id] = publisherOf[postedCalls'[i]] => id < postedCalls'[i]
  BY <1>1, <1>3, <1>5 DEF OrderInv, InOrder, id
<1>10. \A c \in Callers : numbered'[c] # 0 =>
          /\ numbered'[c] = numbered[c] /\ numbered[c] # id
          /\ Before(postedCalls', numbered[c])
          /\ publisherOf[id] = publisherOf[numbered[c]] => id < numbered[c]
  BY <1>1, <1>2, <1>3, <1>4 DEF OrderInv, Before, id
<1>11. Publisher!OnTheWay' \cap Ids = (Publisher!OnTheWay \cap Ids) \ {id}
  <2>1. ASSUME NEW i \in 1 .. Len(postedCalls), postedCalls[i] # id
        PROVE  i - 1 \in 1 .. Len(postedCalls') /\ postedCalls'[i - 1] = postedCalls[i]
    <3>1. i # 1 /\ i \in Nat
      BY <1>3, <2>1 DEF id
    <3>2. i - 1 \in 1 .. Len(postedCalls') /\ (i - 1) + 1 = i
      BY <1>3, <3>1
    <3> QED BY <1>3, <3>2
  <2>2. ASSUME NEW x \in Ids
        PROVE  (\E i \in 1 .. Len(postedCalls') : postedCalls'[i] = x)
                  <=> x # id /\ (\E i \in 1 .. Len(postedCalls) : postedCalls[i] = x)
    BY <1>5, <2>1
  <2>3. \A x \in Ids : (\E c \in Callers : numbered'[c] = x) <=> (\E c \in Callers : numbered[c] = x)
    BY <1>2
  <2>4. id \notin Publisher!OnTheWay'
    BY <1>1, <1>2, <1>3, <1>4, <1>5 DEF Publisher!OnTheWay
  <2> QED BY <2>2, <2>3, <2>4 DEF Publisher!OnTheWay
<1> QED BY <1>2, <1>3, <1>4, <1>8, <1>9, <1>10, <1>11, Answers

(* Every step of the publisher keeps PublisherInv.                          *)
LEMMA PublisherSteps ==
    PublisherInv /\ [Publisher!PublisherNext]_<<linkVars, publisherVars>> => PublisherInv'
<1> SUFFICES ASSUME PublisherInv, [Publisher!PublisherNext]_<<linkVars, publisherVars>>
             PROVE  PublisherInv'
  OBVIOUS
<1> USE DEF Publisher!connection
<1>0. LinkInv /\ NumberedInv /\ OrderInv /\ OutcomeInv
  BY DEF PublisherInv
<1>1. ASSUME LinkInv', UNCHANGED <<nextPublishId, numbered, postedCalls, outcomes, publisherOf,
                                   brokerGot>>
      PROVE  PublisherInv'
  BY <1>0, <1>1 DEF PublisherInv, NumberedInv, OrderInv, InOrder, Before, OutcomeInv, Ids,
     Publisher!OnTheWay
<1>2. ASSUME NEW name \in Exchanges, Publisher!SetExchangeName(name) PROVE PublisherInv'
  BY <1>0, <1>1, <1>2 DEF Publisher!SetExchangeName, Publisher!messageVars, LinkInv
<1>3. CASE Publisher!PublisherLink
  BY <1>0, <1>1, <1>3, PublisherLinkKeeps DEF Publisher!PublisherLink, Publisher!messageVars
<1>4. CASE Publisher!PublisherConnected
  BY <1>0, <1>1, <1>4, PublisherLinkKeeps
  DEF Publisher!PublisherConnected, Publisher!messageVars
<1>5. ASSUME NEW x \in Exchanges, Publisher!ExchangeOpened(x) PROVE PublisherInv'
  BY <1>0, <1>1, <1>5 DEF Publisher!ExchangeOpened, Publisher!messageVars, LinkInv
<1>6. CASE Publisher!ExchangeDeclared
  BY <1>0, <1>1, <1>6 DEF Publisher!ExchangeDeclared, Publisher!messageVars, LinkInv
<1>7. ASSUME NEW p \in BOOLEAN, Publisher!ExchangeError(p) PROVE PublisherInv'
  BY <1>0, <1>1, <1>7 DEF Publisher!ExchangeError, Publisher!messageVars, LinkInv
<1>8. CASE UNCHANGED <<linkVars, publisherVars>>
  BY <1>0, <1>1, <1>8 DEF linkVars, publisherVars, LinkInv
<1>9. ASSUME NEW c \in Callers, Publisher!TakeNumber(c) PROVE PublisherInv'
  BY <1>9, TakesNumber DEF Publisher!TakeNumber
<1>10. ASSUME NEW c \in Callers, Publisher!PublishMessage(c) PROVE PublisherInv'
  BY <1>10, Publishes
<1>11. CASE Publisher!RunPosted
  BY <1>11, RunsPosted
<1> QED BY <1>2, <1>3, <1>4, <1>5, <1>6, <1>7, <1>8, <1>9, <1>10, <1>11
        DEF Publisher!PublisherNext

(* The invariant says of publishing what is claimed of it.                  *)
LEMMA PublisherIsExact ==
    PublisherInv => Publisher!MessagesAreAnsweredOnce /\ Publisher!SilentErrorsAreCounted
<1> SUFFICES ASSUME PublisherInv
             PROVE  Publisher!MessagesAreAnsweredOnce /\ Publisher!SilentErrorsAreCounted
  OBVIOUS
<1>1. Publisher!SilentErrorsAreCounted
  BY LinkCounts DEF PublisherInv, Receiver!SilentErrorsAreCounted,
     Publisher!SilentErrorsAreCounted, Receiver!AUTO_RECONNECTION_TRIES,
     Publisher!AUTO_RECONNECTION_TRIES
<1>2. Publisher!MessagesAreAnsweredOnce
  BY DEF PublisherInv, OutcomeInv, OrderInv, InOrder, Ids, Publisher!MessagesAreAnsweredOnce
<1> QED BY <1>1, <1>2

(* abstractamqpreceiver.cpp, amqppublisher.cpp: messages received are      *)
(* handled once, from the queue of this object; messages published are     *)
(* answered once, and in the order of their caller; errors kept silent are *)
(* counted.                                                                *)
THEOREM MessagesAlwaysExact == ServicesSpec => []MessagesAreExact
<1> DEFINE Inv == /\ part = "receiver" => ReceiverInv
                  /\ part = "publisher" => PublisherInv
<1>1. ServicesInit => Inv
  BY ReceiverStarts, PublisherStarts DEF ServicesInit
<1>2. Inv /\ [ServicesNext]_servicesVars => Inv'
  BY ReceiverSteps, PublisherSteps, StepsOfServices
<1>3. Inv => MessagesAreExact
  BY ReceiverIsExact, PublisherIsExact DEF MessagesAreExact
<1> QED BY <1>1, <1>2, <1>3, PTL DEF ServicesSpec

-----------------------------------------------------------------------------
(* Logs.  Nothing here depends on the names, so that it holds for both     *)
(* instances: keepers are the archivers of the one.                        *)
LogFiles == (LogNames \cup OtherNames \cup {NoName}) \X Nat
Has(files, f) == f \in DOMAIN files
Holds(lines, i) == \E j \in 1 .. Len(lines) : lines[j] = i
Plain(f) == f[1] \notin DottedNames
Packing(a) == archiver[a].step \in {"opened", "copied"}

ArchiverStates == [step : {"idle", "queued", "opened", "copied"},
                   file : LogFiles \cup {<<>>}, data : Seq(Nat)]

LogsTypeOK(keepers) ==
    /\ today \in Nat \ {0} /\ fileDate \in Nat
    /\ nameBase \in LogNames \cup OtherNames \cup {NoName}
    /\ home \in Seq(LogFiles) /\ archiver \in [keepers -> ArchiverStates]
    /\ \A f \in DOMAIN disk : f \in LogFiles /\ disk[f] \in Seq(Nat)
    /\ \A a \in keepers : archiver[a].step # "idle" => archiver[a].file \in LogFiles

(* The open file is that of fileDate, and is on disk unless an archiver    *)
(* took it for an old one, which only a dot in its name makes it do.       *)
FilesInv ==
    /\ fileDate <= today
    /\ \A f \in DOMAIN disk : f[2] <= today
    /\ writing => logFile # <<>>
    /\ logFile # <<>> => logFile \in LogFiles /\ logFile[2] = fileDate
    /\ logFile # <<>> /\ Plain(logFile) => linked
    /\ logFile # <<>> /\ linked => Has(disk, logFile)

(* A line is in its file as long as there is one, then in its archive; the *)
(* file of today is there.                                                 *)
LinesInv ==
    \A i \in 1 .. Len(home) : Plain(home[i]) =>
        /\ home[i][2] <= today
        /\ home[i][2] = today => Has(disk, home[i])
        /\ home[i] \notin spoiled /\ Has(disk, home[i]) => Holds(disk[home[i]], i)
        /\ home[i] \notin spoiled /\ ~Has(disk, home[i]) =>
              Has(archives, home[i]) /\ Holds(archives[home[i]], i)

(* Archivers keep off the open file and that of today.                     *)
OffTheOpenFile(keepers) ==
    \A a \in keepers : archiver[a].step # "idle" /\ Plain(archiver[a].file) =>
        archiver[a].file[2] < today /\ archiver[a].file[2] # fileDate

(* What one has read or written is all of it...                            *)
AllOfIt(keepers) ==
    \A a \in keepers : \A i \in 1 .. Len(home) :
        home[i] = archiver[a].file /\ Plain(home[i]) /\ home[i] \notin spoiled =>
            /\ archiver[a].step = "opened" => Holds(archiver[a].data, i)
            /\ archiver[a].step = "copied" =>
                  Has(archives, home[i]) /\ Holds(archives[home[i]], i)

(* ...as long as no other one takes the same file.                         *)
AloneOrSpoiled(keepers) ==
    \A a, b \in keepers :
        a # b /\ Packing(a) /\ Packing(b) /\ archiver[a].file = archiver[b].file =>
            archiver[a].file \in spoiled

LogsInv(keepers) ==
    /\ LogsTypeOK(keepers) /\ FilesInv /\ LinesInv
    /\ OffTheOpenFile(keepers) /\ AllOfIt(keepers) /\ AloneOrSpoiled(keepers)

(* The first start of the logs.                                             *)
LEMMA LogsStart ==
    ASSUME NEW keepers,
           today = 1, nameBase = NoName, logFile = <<>>, linked = FALSE, fileDate = 0, writing = FALSE,
           disk = [f \in {} |-> <<>>], home = <<>>,
           archiver = [a \in keepers |-> [step |-> "idle", file |-> <<>>, data |-> <<>>]]
    PROVE  LogsInv(keepers)
<1>1. DOMAIN disk = {} /\ Len(home) = 0 /\ 1 .. Len(home) = {}
    OBVIOUS
<1>2. [step |-> "idle", file |-> <<>>, data |-> <<>>] \in ArchiverStates
    BY EmptySeq DEF ArchiverStates
<1>3. LogsTypeOK(keepers)
    BY <1>1, <1>2, EmptySeq DEF LogsTypeOK
<1>4. FilesInv /\ LinesInv
    BY <1>1 DEF FilesInv, LinesInv
<1>5. OffTheOpenFile(keepers) /\ AllOfIt(keepers) /\ AloneOrSpoiled(keepers)
    BY <1>1 DEF OffTheOpenFile, AllOfIt, AloneOrSpoiled, Packing
<1> QED
    BY <1>3, <1>4, <1>5 DEF LogsInv

(* The handler, the name and the timer are not what the invariant is about. *)
LEMMA HandlerChanges ==
    ASSUME NEW keepers, LogsInv(keepers),
           nameBase' \in LogNames \cup OtherNames \cup {NoName},
           UNCHANGED <<today, logFile, linked, fileDate, writing, disk, archives, archiver,
                       home, spoiled>>
    PROVE  LogsInv(keepers)'
BY DEF LogsInv, LogsTypeOK, FilesInv, LinesInv, OffTheOpenFile, AllOfIt, AloneOrSpoiled,
    Packing, Has, Plain

(* The steps of the logs: the handler opens a file ...                      *)
LEMMA OpensFile ==
    ASSUME NEW keepers, LogsInv(keepers), AppLogs!LogOpens \/ DottedLogs!LogOpens
    PROVE  LogsInv(keepers)'
<1> DEFINE f == <<nameBase, today>>
<1>1. UNCHANGED <<today, nameBase, archives, archiver, home, spoiled>> /\ writing'
    BY DEF AppLogs!LogOpens, DottedLogs!LogOpens, AppLogs!processVars, DottedLogs!processVars
<1>2. CASE UNCHANGED <<logFile, linked, fileDate, disk>> /\ logFile # <<>>
    <2> QED
        BY <1>1, <1>2 DEF LogsInv, LogsTypeOK, FilesInv, LinesInv, OffTheOpenFile,
            AllOfIt, AloneOrSpoiled, Packing, Has, Plain
<1>3. CASE /\ logFile' = f /\ fileDate' = today /\ linked'
           /\ disk' = IF f \in DOMAIN disk THEN disk ELSE AppLogs!With(disk, f, <<>>)
    <2>1. f \in LogFiles /\ f[2] = today /\ today \in Nat \ {0}
        BY DEF LogsInv, LogsTypeOK, LogFiles
    <2>2. /\ DOMAIN disk' = DOMAIN disk \cup {f}
          /\ \A g \in DOMAIN disk : disk'[g] = disk[g]
          /\ f \notin DOMAIN disk => disk'[f] = <<>>
        BY <1>3, <2>1 DEF AppLogs!With
    <2> HIDE DEF f
    <2>3. LogsTypeOK(keepers)'
        BY <1>1, <1>3, <2>1, <2>2, EmptySeq DEF LogsInv, LogsTypeOK
    <2>4. FilesInv'
        BY <1>1, <1>3, <2>1, <2>2 DEF LogsInv, LogsTypeOK, FilesInv, Has, LogFiles
    <2>5. LinesInv'
        BY <1>1, <2>1, <2>2 DEF LogsInv, LinesInv, Has, Plain
    <2>6. OffTheOpenFile(keepers)'
        BY <1>1, <1>3, <2>1 DEF LogsInv, LogsTypeOK, OffTheOpenFile, Plain, LogFiles
    <2>7. AllOfIt(keepers)' /\ AloneOrSpoiled(keepers)'
        BY <1>1 DEF LogsInv, AllOfIt, AloneOrSpoiled, Packing, Has, Plain
    <2> QED
        BY <2>3, <2>4, <2>5, <2>6, <2>7 DEF LogsInv
<1> QED
    BY <1>2, <1>3 DEF AppLogs!LogOpens, DottedLogs!LogOpens, AppLogs!With, DottedLogs!With,
        f

(* ... or cannot, and none is open ...                                      *)
LEMMA OpensNoFile ==
    ASSUME NEW keepers, LogsInv(keepers), AppLogs!LogOpenFails \/ DottedLogs!LogOpenFails
    PROVE  LogsInv(keepers)'
<1>1. /\ UNCHANGED <<today, nameBase, writing, disk, archives, archiver, home, spoiled>>
      /\ logFile' = <<>> /\ fileDate' = today /\ ~writing
    BY DEF AppLogs!LogOpenFails, DottedLogs!LogOpenFails, AppLogs!processVars,
        DottedLogs!processVars
<1>2. LogsTypeOK(keepers)' /\ FilesInv'
    BY <1>1 DEF LogsInv, LogsTypeOK, FilesInv
<1>3. LinesInv'
    BY <1>1 DEF LogsInv, LinesInv, Has, Plain
<1>4. OffTheOpenFile(keepers)'
    BY <1>1 DEF LogsInv, LogsTypeOK, OffTheOpenFile, Plain, LogFiles
<1>5. AllOfIt(keepers)' /\ AloneOrSpoiled(keepers)'
    BY <1>1 DEF LogsInv, AllOfIt, AloneOrSpoiled, Packing, Has, Plain
<1> QED
    BY <1>2, <1>3, <1>4, <1>5 DEF LogsInv

(* ... or writes a line ...                                                 *)
LEMMA WritesLine ==
    ASSUME NEW keepers, LogsInv(keepers), AppLogs!LogWrites \/ DottedLogs!LogWrites
    PROVE  LogsInv(keepers)'
<1> DEFINE n == Len(home)
<1> USE DEF LogsInv
<1>1. /\ UNCHANGED <<today, nameBase, logFile, linked, fileDate, archives, archiver, spoiled>>
      /\ ~writing' /\ home' = Append(home, logFile)
      /\ disk' = IF linked THEN [disk EXCEPT ![logFile] = Append(@, n + 1)] ELSE disk
    BY DEF AppLogs!LogWrites, DottedLogs!LogWrites, AppLogs!processVars,
        DottedLogs!processVars
<1>2. /\ logFile # <<>> /\ logFile \in LogFiles /\ logFile[2] = fileDate /\ fileDate <= today
      /\ Plain(logFile) => linked
      /\ linked => Has(disk, logFile)
    BY DEF AppLogs!LogWrites, DottedLogs!LogWrites, FilesInv
<1>3. n \in Nat /\ Len(home') = n + 1 /\ home' \in Seq(LogFiles) /\ home'[n + 1] = logFile
    BY <1>1, <1>2, AppendEntries DEF LogsTypeOK
<1>4. \A i \in 1 .. n + 1 : i = n + 1 \/ (i \in 1 .. n /\ home'[i] = home[i])
    BY <1>1, <1>2, <1>3, AppendEntries DEF LogsTypeOK
<1>5. /\ DOMAIN disk' = DOMAIN disk
      /\ \A g \in DOMAIN disk : g # logFile => disk'[g] = disk[g]
    BY <1>1
<1>6. ASSUME linked
      PROVE  /\ disk[logFile] \in Seq(Nat) /\ disk'[logFile] = Append(disk[logFile], n + 1)
             /\ disk'[logFile] \in Seq(Nat) /\ Holds(disk'[logFile], n + 1)
             /\ \A i \in Nat : Holds(disk[logFile], i) => Holds(disk'[logFile], i)
    <2>1. disk[logFile] \in Seq(Nat) /\ disk'[logFile] = Append(disk[logFile], n + 1)
        BY <1>1, <1>2, <1>6 DEF Has, LogsTypeOK
    <2> DEFINE s == disk[logFile]  t == disk'[logFile]
    <2> HIDE DEF s, t
    <2>2. /\ t \in Seq(Nat) /\ Len(t) = Len(s) + 1 /\ t[Len(s) + 1] = n + 1 /\ Len(s) \in Nat
          /\ \A j \in 1 .. Len(s) : t[j] = s[j]
        BY <1>3, <2>1, AppendEntries, s \in Seq(Nat), t = Append(s, n + 1) DEF s, t
    <2>3. Holds(t, n + 1) /\ \A i \in Nat : Holds(s, i) => Holds(t, i)
        BY <2>2 DEF Holds
    <2> QED
        BY <2>1, <2>2, <2>3 DEF s, t
<1> HIDE DEF n
<1>7. LogsTypeOK(keepers)'
    <2>1. \A g \in DOMAIN disk' : g \in LogFiles /\ disk'[g] \in Seq(Nat)
        BY <1>1, <1>5, <1>6 DEF LogsTypeOK
    <2> QED
        BY <2>1, <1>1, <1>3 DEF LogsTypeOK
<1>8. FilesInv'
    BY <1>1, <1>2, <1>5 DEF FilesInv, Has, Plain
<1>9. LinesInv'
    <2> SUFFICES ASSUME NEW i \in 1 .. n + 1, Plain(home'[i])
                 PROVE  /\ home'[i][2] <= today
                        /\ home'[i][2] = today => Has(disk', home'[i])
                        /\ home'[i] \notin spoiled /\ Has(disk', home'[i]) =>
                              Holds(disk'[home'[i]], i)
                        /\ home'[i] \notin spoiled /\ ~Has(disk', home'[i]) =>
                              /\ Has(archives, home'[i])
                              /\ Holds(archives[home'[i]], i)
        BY <1>1, <1>3 DEF LinesInv, Has, Plain, Holds
    <2>1. CASE i = n + 1
        BY <2>1, <1>1, <1>2, <1>3, <1>5, <1>6 DEF Has
    <2>2. CASE i \in 1 .. n /\ home'[i] = home[i]
        <3>1. /\ home[i][2] <= today
              /\ home[i][2] = today => Has(disk, home[i])
              /\ home[i] \notin spoiled /\ Has(disk, home[i]) => Holds(disk[home[i]], i)
              /\ home[i] \notin spoiled /\ ~Has(disk, home[i]) =>
                    Has(archives, home[i]) /\ Holds(archives[home[i]], i)
            BY <2>2 DEF LinesInv, n, Plain
        <3>2. Holds(disk[home[i]], i) /\ Has(disk, home[i]) => Holds(disk'[home[i]], i)
            BY <2>2, <1>1, <1>3, <1>5, <1>6 DEF Has
        <3> QED
            BY <3>1, <3>2, <2>2, <1>5 DEF Has
    <2> QED
        BY <2>1, <2>2, <1>4
<1>10. OffTheOpenFile(keepers)'
    BY <1>1 DEF OffTheOpenFile, Plain
<1>11. AllOfIt(keepers)'
    <2> SUFFICES ASSUME NEW a \in keepers, NEW i \in 1 .. n + 1,
                        home'[i] = archiver[a].file, Plain(home'[i]),
                        home'[i] \notin spoiled
                 PROVE  /\ archiver[a].step = "opened" => Holds(archiver[a].data, i)
                        /\ archiver[a].step = "copied" =>
                              Has(archives, home'[i]) /\ Holds(archives[home'[i]], i)
        BY <1>1, <1>3 DEF AllOfIt, Has, Plain, Holds
    <2>1. CASE i = n + 1
        BY <2>1, <1>2, <1>3 DEF OffTheOpenFile
    <2>2. CASE i \in 1 .. n /\ home'[i] = home[i]
        BY <2>2 DEF AllOfIt, n
    <2> QED
        BY <2>1, <2>2, <1>4
<1>12. AloneOrSpoiled(keepers)'
    BY <1>1 DEF AloneOrSpoiled, Packing
<1> QED
    BY <1>7, <1>8, <1>9, <1>10, <1>11, <1>12

(* Its own words, so that the provers need not open them among the rest.   *)
LEMMA IsAllOfIt ==
    ASSUME NEW keepers,
           \A b \in keepers : \A i \in 1 .. Len(home') :
               home'[i] = archiver'[b].file /\ Plain(home'[i]) /\ home'[i] \notin spoiled' =>
                   /\ archiver'[b].step = "opened" => Holds(archiver'[b].data, i)
                   /\ archiver'[b].step = "copied" =>
                         Has(archives', home'[i]) /\ Holds(archives'[home'[i]], i)
    PROVE  AllOfIt(keepers)'
BY DEF AllOfIt, Has, Plain, Holds

(* ... old files are given to archivers ...                                 *)
LEMMA QueuesFiles ==
    ASSUME NEW keepers, LogsInv(keepers), NEW tasks \in [keepers -> {<<>>} \cup AppLogs!OldFiles],
           archiver' = [a \in keepers |->
                           IF tasks[a] = <<>> THEN archiver[a]
                           ELSE [step |-> "queued", file |-> tasks[a], data |-> <<>>]],
           UNCHANGED <<today, messageHandler, nameBase, logFile, linked, fileDate, writing,
                       disk, archives, home, spoiled>>
    PROVE  LogsInv(keepers)'
<1> USE DEF LogsInv
<1>1. \A a \in keepers :
          \/ archiver'[a] = archiver[a]
          \/ /\ archiver'[a] = [step |-> "queued", file |-> tasks[a], data |-> <<>>]
             /\ Has(disk, tasks[a]) /\ tasks[a] \in LogFiles
             /\ Plain(tasks[a]) => tasks[a][2] < today /\ tasks[a][2] # fileDate
    <2> SUFFICES ASSUME NEW a \in keepers, tasks[a] # <<>>
                 PROVE  /\ Has(disk, tasks[a]) /\ tasks[a] \in LogFiles
                        /\ Plain(tasks[a]) => tasks[a][2] < today /\ tasks[a][2] # fileDate
        OBVIOUS
    <2>1. tasks[a] \in DOMAIN disk /\ AppLogs!IsOld(tasks[a])
        BY DEF AppLogs!OldFiles
    <2>2. /\ tasks[a] \in LogFiles /\ tasks[a][2] <= today /\ tasks[a][2] \in Nat
          /\ today \in Nat
        BY <2>1 DEF LogsTypeOK, FilesInv, LogFiles
    <2> QED
        BY <2>1, <2>2 DEF AppLogs!IsOld, Plain, Has
<1>2. LogsTypeOK(keepers)'
    <2>1. \A a \in keepers : archiver'[a] \in ArchiverStates
        BY <1>1, EmptySeq DEF LogsTypeOK, ArchiverStates
    <2>2. archiver' \in [keepers -> ArchiverStates]
        BY <2>1
    <2>3. \A a \in keepers : archiver'[a].step # "idle" => archiver'[a].file \in LogFiles
        BY <1>1 DEF LogsTypeOK
    <2> QED
        BY <2>2, <2>3 DEF LogsTypeOK
<1>3. FilesInv' /\ LinesInv'
    BY DEF FilesInv, LinesInv, Has, Plain
<1>4. OffTheOpenFile(keepers)'
    BY <1>1 DEF OffTheOpenFile, Plain
<1>5. AllOfIt(keepers)'
    BY <1>1 DEF AllOfIt, Plain, Has
<1>6. AloneOrSpoiled(keepers)'
    <2>1. \A a \in keepers : archiver'[a] = archiver[a] \/ archiver'[a].step = "queued"
        BY <1>1
    <2> QED
        BY <2>1 DEF AloneOrSpoiled, Packing
<1> QED
    BY <1>2, <1>3, <1>4, <1>5, <1>6

(* ... an archiver begins with its file ...                                 *)
LEMMA OpensArchive ==
    ASSUME NEW keepers, LogsInv(keepers), NEW a \in keepers, archiver[a].step = "queued",
           Has(disk, archiver[a].file),
           archiver' = [archiver EXCEPT ![a].step = "opened",
                                        ![a].data = disk[archiver[a].file]],
           archives' = AppLogs!With(archives, archiver[a].file, <<>>),
           spoiled \subseteq spoiled',
           \A b \in keepers \ {a} : Packing(b) /\ archiver[b].file = archiver[a].file =>
               archiver[a].file \in spoiled',
           UNCHANGED <<today, nameBase, logFile, linked, fileDate, writing, disk, home>>
    PROVE  LogsInv(keepers)'
<1> DEFINE f == archiver[a].file
<1>1. archiver[a] \in ArchiverStates /\ f \in LogFiles /\ disk[f] \in Seq(Nat)
    BY DEF LogsInv, LogsTypeOK, Has
<1>2. /\ archiver'[a] = [step |-> "opened", file |-> f, data |-> disk[f]]
      /\ \A b \in keepers : b # a => archiver'[b] = archiver[b]
      /\ archiver' \in [keepers -> ArchiverStates]
    BY <1>1 DEF LogsInv, LogsTypeOK, ArchiverStates
<1>3. /\ \A g : g # f => (Has(archives', g) <=> Has(archives, g))
      /\ \A g : g # f /\ Has(archives, g) => archives'[g] = archives[g]
    BY DEF AppLogs!With, Has
<1>4. /\ spoiled \subseteq spoiled'
      /\ \A b \in keepers : b # a /\ Packing(b) /\ archiver[b].file = f => f \in spoiled'
    BY DEF Packing
<1>5. Has(disk, f)
    OBVIOUS
<1> HIDE DEF f
<1>6. LogsTypeOK(keepers)'
    <2>1. \A b \in keepers : archiver'[b].step # "idle" => archiver'[b].file \in LogFiles
        BY <1>1, <1>2 DEF LogsInv, LogsTypeOK
    <2> QED
        BY <1>2, <2>1 DEF LogsInv, LogsTypeOK
<1>7. FilesInv'
    BY DEF LogsInv, FilesInv, Has, Plain
<1>8. LinesInv'
    BY <1>3, <1>4, <1>5 DEF LogsInv, LinesInv, Has, Plain
<1>9. OffTheOpenFile(keepers)'
    <2>1. \A b \in keepers : archiver'[b].file = archiver[b].file
                             /\ (archiver'[b].step # "idle" => archiver[b].step # "idle")
        BY <1>2 DEF f
    <2> QED
        BY <2>1 DEF LogsInv, OffTheOpenFile, Plain
<1>10. AllOfIt(keepers)'
    <2> SUFFICES ASSUME NEW b \in keepers, NEW i \in 1 .. Len(home),
                        home[i] = archiver'[b].file, Plain(home[i]), home[i] \notin spoiled'
                 PROVE  /\ archiver'[b].step = "opened" => Holds(archiver'[b].data, i)
                        /\ archiver'[b].step = "copied" =>
                              Has(archives', home[i]) /\ Holds(archives'[home[i]], i)
        BY IsAllOfIt
    <2>1. CASE b = a
        BY <2>1, <1>2, <1>4, <1>5 DEF LogsInv, LinesInv
    <2>2. CASE b # a
        <3>1. archiver'[b] = archiver[b] /\ home[i] \notin spoiled
            BY <2>2, <1>2, <1>4
        <3>2. /\ archiver[b].step = "opened" => Holds(archiver[b].data, i)
              /\ archiver[b].step = "copied" =>
                    Has(archives, home[i]) /\ Holds(archives[home[i]], i)
            BY <3>1 DEF LogsInv, AllOfIt
        <3>3. archiver[b].step = "copied" => home[i] # f
            BY <2>2, <3>1, <1>4 DEF Packing
        <3> QED
            BY <3>1, <3>2, <3>3, <1>3
    <2> QED
        BY <2>1, <2>2
<1>11. AloneOrSpoiled(keepers)'
    <2> SUFFICES ASSUME NEW b \in keepers, NEW c \in keepers, b # c,
                        archiver'[b].step \in {"opened", "copied"},
                        archiver'[c].step \in {"opened", "copied"},
                        archiver'[b].file = archiver'[c].file
                 PROVE  archiver'[b].file \in spoiled'
        BY DEF AloneOrSpoiled, Packing
    <2>1. CASE b = a
        BY <2>1, <1>2, <1>4 DEF Packing
    <2>2. CASE c = a
        BY <2>2, <1>2, <1>4 DEF Packing
    <2>3. CASE b # a /\ c # a
        BY <2>3, <1>2, <1>4 DEF LogsInv, AloneOrSpoiled, Packing
    <2> QED
        BY <2>1, <2>2, <2>3
<1> QED
    BY <1>6, <1>7, <1>8, <1>9, <1>10, <1>11 DEF LogsInv

(* What an archiver that has nothing, or is done, leaves.                  *)
LEMMA BecomesIdle ==
    ASSUME NEW keepers, LogsInv(keepers), NEW a \in keepers,
           archiver' = [archiver EXCEPT ![a] = [step |-> "idle", file |-> <<>>, data |-> <<>>]]
    PROVE  /\ archiver' \in [keepers -> ArchiverStates]
           /\ archiver'[a].step = "idle"
           /\ \A b \in keepers : archiver'[b] = archiver[b] \/ archiver'[b].step = "idle"
<1>1. [step |-> "idle", file |-> <<>>, data |-> <<>>] \in ArchiverStates
    BY EmptySeq DEF ArchiverStates
<1> QED
    BY <1>1 DEF LogsInv, LogsTypeOK

(* ... or finds none ...                                                    *)
LEMMA OpensNothing ==
    ASSUME NEW keepers, LogsInv(keepers), NEW a \in keepers,
           archiver' = [archiver EXCEPT ![a] = [step |-> "idle", file |-> <<>>, data |-> <<>>]],
           UNCHANGED <<today, nameBase, logFile, linked, fileDate, writing, disk, archives,
                       home, spoiled>>
    PROVE  LogsInv(keepers)'
<1>1. /\ archiver' \in [keepers -> ArchiverStates]
      /\ \A b \in keepers : archiver'[b] = archiver[b] \/ archiver'[b].step = "idle"
    BY BecomesIdle
<1>2. LogsTypeOK(keepers)'
    BY <1>1 DEF LogsInv, LogsTypeOK
<1>3. FilesInv' /\ LinesInv'
    BY DEF LogsInv, FilesInv, LinesInv, Has, Plain
<1>4. OffTheOpenFile(keepers)' /\ AloneOrSpoiled(keepers)'
    BY <1>1 DEF LogsInv, OffTheOpenFile, AloneOrSpoiled, Packing, Plain
<1>5. AllOfIt(keepers)'
    <2> SUFFICES ASSUME NEW b \in keepers, NEW i \in 1 .. Len(home), archiver'[b] = archiver[b],
                        home[i] = archiver[b].file, Plain(home[i]), home[i] \notin spoiled
                 PROVE  /\ archiver[b].step = "opened" => Holds(archiver[b].data, i)
                        /\ archiver[b].step = "copied" =>
                              Has(archives, home[i]) /\ Holds(archives[home[i]], i)
        BY <1>1 DEF AllOfIt, Has, Plain, Holds
    <2> QED
        BY DEF LogsInv, AllOfIt
<1> QED
    BY <1>2, <1>3, <1>4, <1>5 DEF LogsInv

(* ... copies it ...                                                        *)
LEMMA CopiesFile ==
    ASSUME NEW keepers, LogsInv(keepers), NEW a \in keepers, archiver[a].step = "opened",
           archiver' = [archiver EXCEPT ![a].step = "copied"],
           \/ /\ archives' = AppLogs!With(archives, archiver[a].file,
                                          IF Has(disk, archiver[a].file)
                                          THEN disk[archiver[a].file] ELSE archiver[a].data)
              /\ spoiled' = spoiled
           \/ spoiled' = spoiled \cup {archiver[a].file} /\ archives' = archives,
           UNCHANGED <<today, nameBase, logFile, linked, fileDate, writing, disk, home>>
    PROVE  LogsInv(keepers)'
<1> USE DEF LogsInv
<1> DEFINE f == archiver[a].file
<1>1. archiver[a] \in ArchiverStates /\ f \in LogFiles
    BY DEF LogsTypeOK
<1>2. /\ archiver'[a] = [archiver[a] EXCEPT !.step = "copied"]
      /\ \A b \in keepers : b # a => archiver'[b] = archiver[b]
      /\ archiver' \in [keepers -> ArchiverStates]
    BY <1>1 DEF LogsTypeOK, ArchiverStates
<1>3. /\ spoiled \subseteq spoiled'
      /\ \A g : g # f => (Has(archives', g) <=> Has(archives, g))
      /\ \A g : g # f /\ Has(archives, g) => archives'[g] = archives[g]
    BY DEF AppLogs!With, Has
(* Wherever the lines of f come from, they are all there.                  *)
<1>4. \A i \in 1 .. Len(home) : home[i] = f /\ Plain(f) /\ f \notin spoiled' =>
          Has(archives', f) /\ Holds(archives'[f], i)
    <2> SUFFICES ASSUME NEW i \in 1 .. Len(home), home[i] = f, Plain(f), f \notin spoiled'
                 PROVE  Has(archives', f) /\ Holds(archives'[f], i)
        OBVIOUS
    <2>1. /\ f \in DOMAIN archives' /\ f \notin spoiled
          /\ archives'[f] = IF Has(disk, f) THEN disk[f] ELSE archiver[a].data
        BY DEF AppLogs!With
    <2>2. Has(disk, f) => Holds(disk[f], i)
        BY <2>1 DEF LinesInv
    <2>3. Holds(archiver[a].data, i)
        BY <2>1 DEF AllOfIt
    <2> QED
        BY <2>1, <2>2, <2>3 DEF Has
<1> HIDE DEF f
<1>5. LogsTypeOK(keepers)'
    <2>1. \A b \in keepers : archiver'[b].step # "idle" => archiver'[b].file \in LogFiles
        BY <1>1, <1>2 DEF LogsTypeOK, ArchiverStates, f
    <2> QED
        BY <1>2, <2>1 DEF LogsTypeOK
<1>6. FilesInv'
    BY DEF FilesInv, Has, Plain
<1>7. LinesInv'
    <2> SUFFICES ASSUME NEW i \in 1 .. Len(home), Plain(home[i])
                 PROVE  /\ home[i][2] <= today
                        /\ home[i][2] = today => Has(disk, home[i])
                        /\ home[i] \notin spoiled' /\ Has(disk, home[i]) =>
                              Holds(disk[home[i]], i)
                        /\ home[i] \notin spoiled' /\ ~Has(disk, home[i]) =>
                              Has(archives', home[i]) /\ Holds(archives'[home[i]], i)
        BY DEF LinesInv, Has, Plain, Holds
    <2>1. CASE home[i] = f
        BY <2>1, <1>3, <1>4 DEF LinesInv
    <2>2. CASE home[i] # f
        BY <2>2, <1>3 DEF LinesInv
    <2> QED
        BY <2>1, <2>2
<1>8. \A b \in keepers : /\ archiver'[b].file = archiver[b].file
                         /\ archiver'[b].data = archiver[b].data
                         /\ b = a \/ archiver'[b].step = archiver[b].step
    BY <1>1, <1>2 DEF ArchiverStates
<1>9. archiver'[a].step = "copied"
    BY <1>1, <1>2 DEF ArchiverStates
<1>10. OffTheOpenFile(keepers)' /\ AloneOrSpoiled(keepers)'
    BY <1>3, <1>8 DEF OffTheOpenFile, AloneOrSpoiled, Packing, Plain
<1>11. AllOfIt(keepers)'
    <2> SUFFICES ASSUME NEW b \in keepers, NEW i \in 1 .. Len(home),
                        home[i] = archiver'[b].file, Plain(home[i]), home[i] \notin spoiled'
                 PROVE  /\ archiver'[b].step = "opened" => Holds(archiver'[b].data, i)
                        /\ archiver'[b].step = "copied" =>
                              Has(archives', home[i]) /\ Holds(archives'[home[i]], i)
        BY DEF AllOfIt, Has, Plain, Holds
    <2>1. home[i] = f => Has(archives', home[i]) /\ Holds(archives'[home[i]], i)
        BY <1>4
    <2>2. CASE b = a
        BY <2>1, <2>2, <1>8, <1>9 DEF f
    <2>3. CASE b # a
        <3>1. /\ archiver[b].step = "opened" => Holds(archiver[b].data, i)
              /\ archiver[b].step = "copied" =>
                    Has(archives, home[i]) /\ Holds(archives[home[i]], i)
            BY <1>3, <1>8 DEF AllOfIt
        <3> QED
            BY <2>1, <2>3, <3>1, <1>3, <1>8
    <2> QED
        BY <2>2, <2>3
<1> QED
    BY <1>5, <1>6, <1>7, <1>10, <1>11

(* ... and removes it; ...                                                  *)
LEMMA RemovesFile ==
    ASSUME NEW keepers, LogsInv(keepers), NEW a \in keepers, archiver[a].step = "copied",
           archiver' = [archiver EXCEPT ![a] = [step |-> "idle", file |-> <<>>, data |-> <<>>]],
           disk' = AppLogs!Without(disk, archiver[a].file),
           linked' = (linked /\ logFile # archiver[a].file),
           UNCHANGED <<today, nameBase, logFile, fileDate, writing, archives, home, spoiled>>
    PROVE  LogsInv(keepers)'
<1> USE DEF LogsInv
<1> DEFINE f == archiver[a].file
<1>1. /\ archiver' \in [keepers -> ArchiverStates]
      /\ \A b \in keepers : archiver'[b] = archiver[b] \/ archiver'[b].step = "idle"
    BY BecomesIdle
<1>2. /\ f \in LogFiles /\ f[2] \in Nat /\ today \in Nat
      /\ Plain(f) => f[2] < today /\ f[2] # fileDate
    BY DEF LogsTypeOK, OffTheOpenFile, LogFiles
<1>3. /\ \A g : Has(disk', g) <=> Has(disk, g) /\ g # f
      /\ \A g : Has(disk', g) => disk'[g] = disk[g]
    BY DEF AppLogs!Without, Has
<1>4. \A i \in 1 .. Len(home) : home[i] = f /\ Plain(f) /\ f \notin spoiled =>
          Has(archives, f) /\ Holds(archives[f], i)
    BY DEF AllOfIt
<1> HIDE DEF f
<1>5. LogsTypeOK(keepers)'
    BY <1>1, <1>3 DEF LogsTypeOK, Has
<1>6. FilesInv'
    <2>1. logFile # <<>> /\ Plain(logFile) => linked'
        BY <1>2 DEF FilesInv, f
    <2>2. logFile # <<>> /\ linked' => Has(disk', logFile)
        BY <1>3 DEF FilesInv, f
    <2> QED
        BY <2>1, <2>2, <1>3 DEF FilesInv, Has, Plain
<1>7. LinesInv'
    <2> SUFFICES ASSUME NEW i \in 1 .. Len(home), Plain(home[i])
                 PROVE  /\ home[i][2] <= today
                        /\ home[i][2] = today => Has(disk', home[i])
                        /\ home[i] \notin spoiled /\ Has(disk', home[i]) =>
                              Holds(disk'[home[i]], i)
                        /\ home[i] \notin spoiled /\ ~Has(disk', home[i]) =>
                              Has(archives, home[i]) /\ Holds(archives[home[i]], i)
        BY DEF LinesInv, Has, Plain, Holds
    <2>1. CASE home[i] = f
        BY <2>1, <1>2, <1>3, <1>4 DEF LinesInv
    <2>2. CASE home[i] # f
        BY <2>2, <1>3 DEF LinesInv
    <2> QED
        BY <2>1, <2>2
<1>8. OffTheOpenFile(keepers)' /\ AloneOrSpoiled(keepers)'
    BY <1>1 DEF OffTheOpenFile, AloneOrSpoiled, Packing, Plain
<1>9. AllOfIt(keepers)'
    BY <1>1 DEF AllOfIt, Has, Plain
<1> QED
    BY <1>5, <1>6, <1>7, <1>8, <1>9

(* ... and a day passes.                                                    *)
LEMMA DayPasses ==
    ASSUME NEW keepers, LogsInv(keepers), today' = today + 1,
           UNCHANGED <<nameBase, logFile, linked, fileDate, writing, disk, archives, archiver,
                       home, spoiled>>
    PROVE  LogsInv(keepers)'
<1> USE DEF LogsInv
<1>1. today \in Nat \ {0} /\ today' \in Nat \ {0} /\ fileDate \in Nat
    BY DEF LogsTypeOK
<1>2. \A f \in LogFiles : f[2] \in Nat
    BY DEF LogFiles
<1>3. LogsTypeOK(keepers)'
    BY <1>1 DEF LogsTypeOK
<1>4. FilesInv'
    BY <1>1, <1>2 DEF LogsTypeOK, FilesInv, Has, Plain
<1>5. LinesInv'
    <2>1. \A i \in 1 .. Len(home) : home[i] \in LogFiles
        BY DEF LogsTypeOK
    <2> QED
        BY <2>1, <1>1, <1>2 DEF LinesInv, Has, Plain
<1>6. OffTheOpenFile(keepers)'
    BY <1>1, <1>2 DEF LogsTypeOK, OffTheOpenFile, Plain
<1>7. AllOfIt(keepers)' /\ AloneOrSpoiled(keepers)'
    BY DEF AllOfIt, AloneOrSpoiled, Packing, Has, Plain
<1> QED
    BY <1>3, <1>4, <1>5, <1>6, <1>7

(* The disk stays, and the archivers are gone.                             *)
LEMMA Restarts ==
    ASSUME NEW keepers, LogsInv(keepers), nameBase' = NoName, logFile' = <<>>, linked' = FALSE,
           fileDate' = 0, writing' = FALSE,
           archiver' = [a \in keepers |-> [step |-> "idle", file |-> <<>>, data |-> <<>>]],
           UNCHANGED <<today, disk, archives, home, spoiled>>
    PROVE  LogsInv(keepers)'
<1> USE DEF LogsInv
<1>1. [step |-> "idle", file |-> <<>>, data |-> <<>>] \in ArchiverStates
    BY EmptySeq DEF ArchiverStates
<1>2. LogsTypeOK(keepers)'
    BY <1>1 DEF LogsTypeOK
<1>3. FilesInv' /\ LinesInv'
    BY DEF LogsTypeOK, FilesInv, LinesInv, Has, Plain
<1>4. OffTheOpenFile(keepers)' /\ AllOfIt(keepers)' /\ AloneOrSpoiled(keepers)'
    BY DEF OffTheOpenFile, AllOfIt, AloneOrSpoiled, Packing
<1> QED
    BY <1>2, <1>3, <1>4

(* Every step of the logs keeps LogsInv.                                    *)
LEMMA LogsSteps ==
    ASSUME NEW keepers, LogsInv(keepers),
           \/ keepers = Archivers /\ [AppLogs!Next]_logVars
           \/ keepers = OtherArchivers /\ [DottedLogs!Next]_logVars
    PROVE  LogsInv(keepers)'
<1> USE DEF AppLogs!fileVars, DottedLogs!fileVars, AppLogs!processVars,
        DottedLogs!processVars, AppLogs!Idle, DottedLogs!Idle
<1>1. ASSUME AppLogs!UninstallFileHandler \/ DottedLogs!UninstallFileHandler
      PROVE  LogsInv(keepers)'
    <2>1. /\ nameBase' = nameBase /\ nameBase \in LogNames \cup OtherNames \cup {NoName}
          /\ UNCHANGED <<today, logFile, linked, fileDate, writing, disk, archives, archiver,
                         home, spoiled>>
        BY <1>1 DEF AppLogs!UninstallFileHandler, DottedLogs!UninstallFileHandler, LogsInv,
            LogsTypeOK
    <2> QED
        BY <2>1, HandlerChanges
<1>2. ASSUME NEW name \in LogNames \cup OtherNames \cup {NoName},
             AppLogs!InstallFileHandler(name) \/ DottedLogs!InstallFileHandler(name)
      PROVE  LogsInv(keepers)'
    <2>1. /\ nameBase' = name
          /\ UNCHANGED <<today, logFile, linked, fileDate, writing, disk, archives, archiver,
                         home, spoiled>>
        BY <1>2 DEF AppLogs!InstallFileHandler, DottedLogs!InstallFileHandler
    <2> QED
        BY <2>1, HandlerChanges
<1>3. ASSUME NEW passes, \/ keepers = Archivers /\ AppLogs!Compress(passes)
                         \/ keepers = OtherArchivers /\ DottedLogs!Compress(passes),
             UNCHANGED <<today, messageHandler, nameBase, logFile, linked, fileDate, writing,
                         disk, archives, home, spoiled>>
      PROVE  LogsInv(keepers)'
    <2>1. PICK tasks \in [keepers -> {<<>>} \cup AppLogs!OldFiles] :
              archiver' = [a \in keepers |->
                              IF tasks[a] = <<>> THEN archiver[a]
                              ELSE [step |-> "queued", file |-> tasks[a], data |-> <<>>]]
        <3>2. CASE keepers = Archivers /\ AppLogs!Compress(passes)
            <4>1. PICK tasks \in [Archivers -> {<<>>} \cup AppLogs!OldFiles] :
                      archiver' = [a \in Archivers |->
                                      IF tasks[a] = <<>> THEN archiver[a]
                                      ELSE [step |-> "queued", file |-> tasks[a], data |-> <<>>]]
                BY <3>2 DEF AppLogs!Compress
            <4> QED
                BY <3>2, <4>1
        <3>3. CASE keepers = OtherArchivers /\ DottedLogs!Compress(passes)
            <4>1. PICK tasks \in [OtherArchivers -> {<<>>} \cup DottedLogs!OldFiles] :
                      archiver' = [a \in OtherArchivers |->
                                      IF tasks[a] = <<>> THEN archiver[a]
                                      ELSE [step |-> "queued", file |-> tasks[a], data |-> <<>>]]
                BY <3>3 DEF DottedLogs!Compress
            <4>2. DottedLogs!OldFiles = AppLogs!OldFiles
                BY DEF DottedLogs!OldFiles, AppLogs!OldFiles, DottedLogs!IsOld, AppLogs!IsOld
            <4> QED
                BY <3>3, <4>1, <4>2
        <3> QED
            BY <1>3, <3>2, <3>3
    <2> QED
        BY <2>1, <1>3, QueuesFiles
<1>4. ASSUME \/ keepers = Archivers /\ (AppLogs!SetLogsStoragePath \/ AppLogs!ArchiveTimer)
             \/ /\ keepers = OtherArchivers
                /\ DottedLogs!SetLogsStoragePath \/ DottedLogs!ArchiveTimer
      PROVE  LogsInv(keepers)'
    BY <1>3, <1>4 DEF AppLogs!SetLogsStoragePath, AppLogs!ArchiveTimer,
        DottedLogs!SetLogsStoragePath, DottedLogs!ArchiveTimer
<1>5. ASSUME NEW a \in keepers, \/ keepers = Archivers /\ AppLogs!ArchiverOpens(a)
                                \/ keepers = OtherArchivers /\ DottedLogs!ArchiverOpens(a)
      PROVE  LogsInv(keepers)'
    <2>1. /\ archiver[a].step = "queued"
          /\ UNCHANGED <<today, nameBase, logFile, linked, fileDate, writing, disk, home>>
          /\ \/ /\ archiver' = [archiver EXCEPT
                                   ![a] = [step |-> "idle", file |-> <<>>, data |-> <<>>]]
                /\ UNCHANGED <<archives, spoiled>>
             \/ /\ Has(disk, archiver[a].file)
                /\ archiver' = [archiver EXCEPT ![a].step = "opened",
                                                ![a].data = disk[archiver[a].file]]
                /\ archives' = AppLogs!With(archives, archiver[a].file, <<>>)
                /\ spoiled \subseteq spoiled'
                /\ \A b \in keepers \ {a} :
                       Packing(b) /\ archiver[b].file = archiver[a].file =>
                           archiver[a].file \in spoiled'
        BY <1>5 DEF AppLogs!ArchiverOpens, DottedLogs!ArchiverOpens, AppLogs!With,
            DottedLogs!With, Has, Packing
    <2> QED
        BY <2>1, OpensArchive, OpensNothing
<1>6. ASSUME NEW a \in keepers, NEW ok \in BOOLEAN,
             AppLogs!ArchiverCopies(a, ok) \/ DottedLogs!ArchiverCopies(a, ok)
      PROVE  LogsInv(keepers)'
    <2>1. /\ archiver[a].step = "opened" /\ archiver' = [archiver EXCEPT ![a].step = "copied"]
          /\ UNCHANGED <<today, nameBase, logFile, linked, fileDate, writing, disk, home>>
          /\ \/ /\ archives' = AppLogs!With(archives, archiver[a].file,
                                            IF Has(disk, archiver[a].file)
                                            THEN disk[archiver[a].file]
                                            ELSE archiver[a].data)
                /\ spoiled' = spoiled
             \/ spoiled' = spoiled \cup {archiver[a].file} /\ archives' = archives
        BY <1>6 DEF AppLogs!ArchiverCopies, DottedLogs!ArchiverCopies, AppLogs!With,
            DottedLogs!With, Has
    <2> QED
        BY <2>1, CopiesFile
<1>7. ASSUME NEW a \in keepers, AppLogs!ArchiverRemoves(a) \/ DottedLogs!ArchiverRemoves(a)
      PROVE  LogsInv(keepers)'
    <2>1. /\ archiver[a].step = "copied"
          /\ archiver' = [archiver EXCEPT
                             ![a] = [step |-> "idle", file |-> <<>>, data |-> <<>>]]
          /\ disk' = AppLogs!Without(disk, archiver[a].file)
          /\ linked' = (linked /\ logFile # archiver[a].file)
          /\ UNCHANGED <<today, nameBase, logFile, fileDate, writing, archives, home, spoiled>>
        BY <1>7 DEF AppLogs!ArchiverRemoves, DottedLogs!ArchiverRemoves, AppLogs!Without,
            DottedLogs!Without
    <2> QED
        BY <2>1, RemovesFile
<1>8. ASSUME AppLogs!NextDay \/ DottedLogs!NextDay
      PROVE  LogsInv(keepers)'
    BY <1>8, DayPasses DEF AppLogs!NextDay, DottedLogs!NextDay
<1>9. ASSUME \/ keepers = Archivers /\ AppLogs!Restart
             \/ keepers = OtherArchivers /\ DottedLogs!Restart
      PROVE  LogsInv(keepers)'
    BY <1>9, Restarts DEF AppLogs!Restart, DottedLogs!Restart
<1>10. CASE keepers = Archivers /\ AppLogs!Next
    BY <1>10, <1>1, <1>2, <1>4, <1>5, <1>6, <1>7, <1>8, <1>9, OpensFile,
        OpensNoFile, WritesLine
        DEF AppLogs!Next
<1>11. CASE keepers = OtherArchivers /\ DottedLogs!Next
    BY <1>11, <1>1, <1>2, <1>4, <1>5, <1>6, <1>7, <1>8, <1>9, OpensFile,
        OpensNoFile, WritesLine
        DEF DottedLogs!Next
<1>12. CASE UNCHANGED logVars
    <2>1. nameBase' = nameBase /\ nameBase \in LogNames \cup OtherNames \cup {NoName}
        BY <1>12 DEF logVars, LogsInv, LogsTypeOK
    <2> QED
        BY <1>12, <2>1, HandlerChanges DEF logVars
<1> QED
    BY <1>10, <1>11, <1>12

(* A line that its file or its archive holds is not lost.                  *)
LEMMA HeldIsNotLost ==
    ASSUME NEW keepers, LogsInv(keepers)
    PROVE  AppLogs!NoLineIsLost /\ DottedLogs!NoLineIsLost
<1> SUFFICES ASSUME NEW i \in 1 .. Len(home), Plain(home[i]), home[i] \notin spoiled
             PROVE  i \in AppLogs!Lines(disk, home[i]) \cup AppLogs!Lines(archives, home[i])
    BY DEF AppLogs!NoLineIsLost, DottedLogs!NoLineIsLost, AppLogs!Lines, DottedLogs!Lines,
        Plain
<1>1. \/ Has(disk, home[i]) /\ Holds(disk[home[i]], i)
      \/ Has(archives, home[i]) /\ Holds(archives[home[i]], i)
    BY DEF LogsInv, LinesInv
<1> QED
    BY <1>1 DEF AppLogs!Lines, Has, Holds

(* logs.cpp: no line logged under a name without a dot is lost to an       *)
(* archiver, a midnight or a crash, even if other names have dots.         *)
THEOREM LinesAlwaysKept == ServicesSpec => []LinesAreKept
<1> DEFINE Inv == /\ part = "logs" => LogsInv(Archivers)
                  /\ part = "dottedLogs" => LogsInv(OtherArchivers)
<1>1. ServicesInit => Inv
  <2>1. AppLogs!Init => LogsInv(Archivers)
    BY LogsStart DEF AppLogs!Init, AppLogs!Idle
  <2>2. DottedLogs!Init => LogsInv(OtherArchivers)
    BY LogsStart DEF DottedLogs!Init, DottedLogs!Idle
  <2> QED BY <2>1, <2>2 DEF ServicesInit
<1>2. Inv /\ [ServicesNext]_servicesVars => Inv'
  BY LogsSteps, StepsOfServices
<1>3. Inv => LinesAreKept
  <2>1. ASSUME Inv, part = "logs" PROVE AppLogs!NoLineIsLost
    BY <2>1, HeldIsNotLost
  <2>2. ASSUME Inv, part = "dottedLogs" PROVE DottedLogs!NoLineIsLost
    BY <2>2, HeldIsNotLost
  <2> QED BY <2>1, <2>2 DEF LinesAreKept
<1> QED BY <1>1, <1>2, <1>3, PTL DEF ServicesSpec

-----------------------------------------------------------------------------
(* The entities: the inductive invariant, and each step of theirs as one   *)
(* of AtomicUpdates.                                                       *)

(* An entity's fields hold what the fields may hold. *)
LEMMA ContentsType == Contents \subseteq [Fields -> Versions]
BY DEF Contents

(* Initially no lock is held and all entities are whole.                    *)
LEMMA EntitiesStart == EntitiesInit => EntitiesInv
<1> SUFFICES ASSUME EntitiesInit PROVE EntitiesInv
  OBVIOUS
<1> USE EntitiesAssumption DEF EntitiesInit
<1>1. EntitiesTypeOK
  BY ContentsType DEF EntitiesTypeOK
<1>2. LocksAreExact
  BY DEF LocksAreExact
<1>3. CopiesAgree
  BY DEF CopiesAgree
<1>4. NoTornEntity
  BY DEF NoTornEntity
<1> QED
  BY <1>1, <1>2, <1>3, <1>4 DEF EntitiesInv

(* While a thread updates an entity no other one updates it, nor the one   *)
(* it is updated from.                                                     *)
LEMMA OneUpdate ==
  ASSUME EntitiesInv, NEW t \in Threads, NEW u \in Threads,
         pc[t] = "updating", pc[u] = "updating", t /= u
  PROVE  /\ mine[t] /= mine[u] /\ mine[t] /= other[u] /\ other[t] /= mine[u]
         /\ other[t] /= other[u]
BY DEF EntitiesInv, EntitiesTypeOK, LocksAreExact

(* Every step of the threads keeps EntitiesInv.                             *)
LEMMA EntitiesSteps == EntitiesInv /\ [EntitiesNext]_entityVars => EntitiesInv'
<1> SUFFICES ASSUME EntitiesInv, [EntitiesNext]_entityVars PROVE EntitiesInv'
  OBVIOUS
<1> USE EntitiesAssumption
<1>a. /\ EntitiesTypeOK /\ LocksAreExact /\ CopiesAgree /\ NoTornEntity
  BY DEF EntitiesInv
<1>1. ASSUME NEW t \in Threads, NEW e \in Entity, NEW o \in Entity, UpdateFrom(t, e, o)
      PROVE  EntitiesInv'
  <2> USE <1>a, <1>1 DEF UpdateFrom, EntitiesTypeOK
  <2>1. EntitiesTypeOK'
    OBVIOUS
  <2>2. LocksAreExact'
    BY DEF LocksAreExact
  <2>3. CopiesAgree'
    BY DEF CopiesAgree
  <2>4. NoTornEntity'
    BY DEF NoTornEntity, Contents
  <2> QED
    BY <2>1, <2>2, <2>3, <2>4 DEF EntitiesInv
<1>2. ASSUME NEW t \in Threads, Lock(t) PROVE EntitiesInv'
  <2> USE <1>a, <1>2 DEF Lock, EntitiesTypeOK
  <2>1. EntitiesTypeOK'
    OBVIOUS
  <2>2. LocksAreExact'
    BY DEF LocksAreExact
  <2>3. CopiesAgree'
    BY DEF CopiesAgree
  <2>4. NoTornEntity'
    BY DEF NoTornEntity, Contents
  <2> QED
    BY <2>1, <2>2, <2>3, <2>4 DEF EntitiesInv
<1>3. ASSUME NEW t \in Threads, TryLock(t) PROVE EntitiesInv'
  <2> USE <1>a, <1>3 DEF TryLock, EntitiesTypeOK
  <2>1. EntitiesTypeOK'
    OBVIOUS
  <2>2. LocksAreExact'
    BY DEF LocksAreExact
  <2>3. CopiesAgree'
    BY DEF CopiesAgree
  <2>4. NoTornEntity'
    <3> SUFFICES ASSUME NEW e \in Entity,
                        \A u \in Threads : ~(pc'[u] = "updating" /\ mine'[u] = e)
                 PROVE  content'[e] \in Contents
      BY DEF NoTornEntity, Contents
    <3>1. \A u \in Threads : ~(pc[u] = "updating" /\ mine[u] = e)
      OBVIOUS
    <3> QED
      BY <3>1 DEF NoTornEntity
  <2> QED
    BY <2>1, <2>2, <2>3, <2>4 DEF EntitiesInv
<1>4. ASSUME NEW t \in Threads, BackOff(t) PROVE EntitiesInv'
  <2> USE <1>a, <1>4 DEF BackOff, EntitiesTypeOK
  <2>1. EntitiesTypeOK'
    OBVIOUS
  <2>2. LocksAreExact'
    BY DEF LocksAreExact
  <2>3. CopiesAgree'
    BY DEF CopiesAgree
  <2>4. NoTornEntity'
    BY DEF NoTornEntity, Contents
  <2> QED
    BY <2>1, <2>2, <2>3, <2>4 DEF EntitiesInv
<1>5. ASSUME NEW t \in Threads, NEW f \in Fields, CopyField(t, f) PROVE EntitiesInv'
  <2> USE <1>a, <1>5 DEF CopyField, EntitiesTypeOK
  <2>1. EntitiesTypeOK'
    OBVIOUS
  <2>2. LocksAreExact'
    BY DEF LocksAreExact
  <2>3. mine[t] /= other[t] /\ content' = [content EXCEPT ![mine[t]] = content'[mine[t]]]
    BY DEF LocksAreExact
  <2>4. CopiesAgree'
    <3> SUFFICES ASSUME NEW u \in Threads, pc'[u] = "updating", NEW g \in copied'[u]
                 PROVE  content'[mine[u]][g] = content'[other[u]][g]
      BY DEF CopiesAgree
    <3>1. CASE u = t
      <4>1. content'[other[t]] = content[other[t]]
        BY <2>3
      <4>2. content'[mine[t]][g] = IF g = f THEN content[other[t]][f]
                                   ELSE content[mine[t]][g]
        BY <3>1
      <4> QED
        BY <3>1, <4>1, <4>2 DEF CopiesAgree
    <3>2. CASE u /= t
      <4>1. mine[u] /= mine[t] /\ other[u] /= mine[t]
        BY <3>2, OneUpdate
      <4>2. content'[mine[u]] = content[mine[u]] /\ content'[other[u]] = content[other[u]]
        BY <4>1, <2>3
      <4> QED
        BY <3>2, <4>2 DEF CopiesAgree
    <3> QED
      BY <3>1, <3>2
  <2>5. NoTornEntity'
    <3> SUFFICES ASSUME NEW e \in Entity,
                        \A u \in Threads : ~(pc'[u] = "updating" /\ mine'[u] = e)
                 PROVE  content'[e] \in Contents
      BY DEF NoTornEntity, Contents
    <3>1. e /= mine[t]
      OBVIOUS
    <3>2. content'[e] = content[e]
      BY <3>1
    <3> QED
      BY <3>2 DEF NoTornEntity
  <2> QED
    BY <2>1, <2>2, <2>4, <2>5 DEF EntitiesInv
<1>6. ASSUME NEW t \in Threads, Unlock(t) PROVE EntitiesInv'
  <2> USE <1>a, <1>6 DEF Unlock, EntitiesTypeOK
  <2>1. EntitiesTypeOK'
    OBVIOUS
  <2>2. LocksAreExact'
    BY DEF LocksAreExact
  <2>3. CopiesAgree'
    BY DEF CopiesAgree
  <2>4. NoTornEntity'
    <3> SUFFICES ASSUME NEW e \in Entity,
                        \A u \in Threads : ~(pc'[u] = "updating" /\ mine'[u] = e)
                 PROVE  content'[e] \in Contents
      BY DEF NoTornEntity, Contents
    <3>1. CASE e = mine[t]
      <4>1. \A u \in Threads : ~(pc[u] = "updating" /\ mine[u] = other[t])
        BY OneUpdate DEF LocksAreExact
      <4>2. content[other[t]] \in Contents
        BY <4>1 DEF NoTornEntity
      <4>3. \A f \in Fields : content[mine[t]][f] = content[other[t]][f]
        BY DEF CopiesAgree
      <4>4. content[mine[t]] = content[other[t]]
        BY <4>3
      <4> QED
        BY <3>1, <4>2, <4>4
    <3>2. CASE e /= mine[t]
      <4>1. \A u \in Threads : ~(pc[u] = "updating" /\ mine[u] = e)
        BY <3>2
      <4> QED
        BY <4>1 DEF NoTornEntity
    <3> QED
      BY <3>1, <3>2
  <2> QED
    BY <2>1, <2>2, <2>3, <2>4 DEF EntitiesInv
<1>7. ASSUME NEW e \in Entity, MarkDirty(e) PROVE EntitiesInv'
  <2> USE <1>a, <1>7 DEF MarkDirty, EntitiesTypeOK
  <2>1. EntitiesTypeOK'
    OBVIOUS
  <2>2. LocksAreExact'
    BY DEF LocksAreExact
  <2>3. (CopiesAgree /\ NoTornEntity)'
    BY DEF CopiesAgree, NoTornEntity, Contents
  <2> QED
    BY <2>1, <2>2, <2>3 DEF EntitiesInv
<1>8. CASE UNCHANGED entityVars
  BY <1>a, <1>8 DEF entityVars, EntitiesInv, EntitiesTypeOK, LocksAreExact, CopiesAgree,
                    NoTornEntity, Contents
<1> QED
  BY <1>1, <1>2, <1>3, <1>4, <1>5, <1>6, <1>7, <1>8 DEF EntitiesNext

(* The invariant: locks are held by who works with the entity, and an      *)
(* entity nobody updates is whole (NetworkDataEntity::updateFrom).         *)
THEOREM EntitiesKeepInv == EntitiesSpec => []EntitiesInv
BY EntitiesStart, EntitiesSteps, PTL DEF EntitiesSpec
-----------------------------------------------------------------------------
(* What an entity stands for, without a choice: the content of the one it  *)
(* is being updated from, else its own.                                    *)
StandsFor ==
    \A e \in Entity :
        /\ \A t \in Threads : pc[t] = "updating" /\ mine[t] = e =>
                                  Standing(e) = content[other[t]]
        /\ (\A t \in Threads : ~(pc[t] = "updating" /\ mine[t] = e)) =>
               Standing(e) = content[e]

(* Every entity stands for what it is or is being updated to ...            *)
LEMMA Stands == EntitiesInv => StandsFor
<1> SUFFICES ASSUME EntitiesInv, NEW e \in Entity
             PROVE  /\ \A t \in Threads : pc[t] = "updating" /\ mine[t] = e =>
                                              Standing(e) = content[other[t]]
                    /\ (\A t \in Threads : ~(pc[t] = "updating" /\ mine[t] = e)) =>
                           Standing(e) = content[e]
  BY DEF StandsFor
<1> DEFINE s == {t \in Threads : pc[t] = "updating" /\ mine[t] = e}
<1>1. Standing(e) = IF s = {} THEN content[e] ELSE content[other[CHOOSE t \in s : TRUE]]
  BY DEF Standing
<1>2. ASSUME NEW t \in Threads, pc[t] = "updating", mine[t] = e
      PROVE  Standing(e) = content[other[t]]
  <2>1. t \in s
    BY <1>2
  <2>2. (CHOOSE u \in s : TRUE) \in s
    BY <2>1
  <2>3. (CHOOSE u \in s : TRUE) = t
    BY <1>2, <2>2, OneUpdate
  <2> QED
    BY <1>1, <2>1, <2>3
<1>3. ASSUME \A t \in Threads : ~(pc[t] = "updating" /\ mine[t] = e)
      PROVE  Standing(e) = content[e]
  BY <1>1, <1>3
<1> QED
  BY <1>2, <1>3

(* ... after a step as before it.                                           *)
LEMMA StandsPrimed == EntitiesInv' => StandsFor'
BY Stands, PTL

(* The entities start as the abstract ones do.                              *)
LEMMA AtomicInit == EntitiesInit => Atomic!Init
<1> SUFFICES ASSUME EntitiesInit PROVE Atomic!Init
  OBVIOUS
<1>1. \A e \in Entity : Standing(e) = content[e]
  BY EntitiesStart, Stands DEF EntitiesInit, StandsFor
<1> QED
  BY <1>1 DEF EntitiesInit, Atomic!Init

(* Every step changes what the entities stand for as an atomic update, or  *)
(* not at all: the step that takes the second lock is the update.          *)
LEMMA AtomicNext ==
    EntitiesInv /\ EntitiesInv' /\ [EntitiesNext]_entityVars =>
        [Atomic!Next]_[e \in Entity |-> Standing(e)]
<1> SUFFICES ASSUME EntitiesInv, EntitiesInv', [EntitiesNext]_entityVars
             PROVE  Atomic!Next \/ UNCHANGED [e \in Entity |-> Standing(e)]
  BY Zenon
<1>a. StandsFor /\ StandsFor' /\ EntitiesTypeOK /\ EntitiesTypeOK' /\ LocksAreExact
  BY Stands, StandsPrimed DEF EntitiesInv
<1>s. ASSUME \A e \in Entity : Standing(e)' = Standing(e)
      PROVE  UNCHANGED [e \in Entity |-> Standing(e)]
  BY <1>s
(* A step that leaves the updating threads, their entities and contents. *)
<1>k. ASSUME \A t \in Threads : /\ pc'[t] = "updating" <=> pc[t] = "updating"
                                /\ pc[t] = "updating" => /\ mine'[t] = mine[t]
                                                         /\ other'[t] = other[t],
             content' = content
      PROVE  \A e \in Entity : Standing(e)' = Standing(e)
  <2> SUFFICES ASSUME NEW e \in Entity PROVE Standing(e)' = Standing(e)
    OBVIOUS
  <2>1. CASE \A t \in Threads : ~(pc[t] = "updating" /\ mine[t] = e)
    BY <1>a, <1>k, <2>1 DEF StandsFor
  <2>2. ASSUME NEW t \in Threads, pc[t] = "updating", mine[t] = e
        PROVE  Standing(e)' = Standing(e)
    BY <1>a, <1>k, <2>2 DEF StandsFor
  <2> QED
    BY <2>1, <2>2
<1>1. ASSUME NEW t \in Threads, NEW e \in Entity, NEW o \in Entity, UpdateFrom(t, e, o)
      PROVE  \A i \in Entity : Standing(i)' = Standing(i)
  BY <1>a, <1>k, <1>1 DEF UpdateFrom, EntitiesTypeOK
<1>2. ASSUME NEW t \in Threads, Lock(t)
      PROVE  \A i \in Entity : Standing(i)' = Standing(i)
  BY <1>a, <1>k, <1>2 DEF Lock, EntitiesTypeOK
<1>3. ASSUME NEW t \in Threads, TryLock(t) PROVE Atomic!Next
  <2> USE <1>a, <1>3 DEF TryLock, EntitiesTypeOK
  <2>1. mine[t] \in Entity /\ other[t] \in Entity /\ mine[t] /= other[t]
    BY DEF LocksAreExact
  <2>2. \A u \in Threads : pc[u] = "updating" =>
            mine[u] /= other[t] /\ mine[u] /= mine[t]
    BY EntitiesAssumption DEF LocksAreExact
  <2>3. Standing(other[t]) = content[other[t]]
    BY <2>1, <2>2 DEF StandsFor
  <2>4. Standing(mine[t])' = content[other[t]]
    <3>1. pc'[t] = "updating" /\ mine'[t] = mine[t] /\ other'[t] = other[t]
          /\ content' = content
      OBVIOUS
    <3> QED
      BY <2>1, <3>1 DEF StandsFor
  <2>5. ASSUME NEW i \in Entity, i /= mine[t] PROVE Standing(i)' = Standing(i)
    <3>1. CASE \A u \in Threads : ~(pc[u] = "updating" /\ mine[u] = i)
      <4>1. \A u \in Threads : ~(pc'[u] = "updating" /\ mine'[u] = i)
        BY <3>1, <2>5
      <4>2. Standing(i) = content[i]
        BY <3>1 DEF StandsFor
      <4>3. Standing(i)' = content'[i]
        BY <4>1 DEF StandsFor
      <4> QED
        BY <4>2, <4>3
    <3>2. ASSUME NEW u \in Threads, pc[u] = "updating", mine[u] = i
          PROVE  Standing(i)' = Standing(i)
      <4>1. pc'[u] = "updating" /\ mine'[u] = i /\ other'[u] = other[u]
            /\ content' = content
        BY <3>2
      <4> QED
        BY <3>2, <4>1 DEF StandsFor
    <3> QED
      BY <3>1, <3>2
  <2>6. [i \in Entity |-> Standing(i)]' =
            [[i \in Entity |-> Standing(i)] EXCEPT ![mine[t]] =
                [i \in Entity |-> Standing(i)][other[t]]]
    BY <2>1, <2>3, <2>4, <2>5
  <2> QED
    BY <2>1, <2>6 DEF Atomic!Next, Atomic!UpdateFrom
<1>4. ASSUME NEW t \in Threads, BackOff(t)
      PROVE  \A i \in Entity : Standing(i)' = Standing(i)
  BY <1>a, <1>k, <1>4 DEF BackOff, EntitiesTypeOK
<1>5. ASSUME NEW t \in Threads, NEW f \in Fields, CopyField(t, f)
      PROVE  \A i \in Entity : Standing(i)' = Standing(i)
  <2> USE <1>a, <1>5 DEF CopyField, EntitiesTypeOK
  <2> SUFFICES ASSUME NEW i \in Entity PROVE Standing(i)' = Standing(i)
    OBVIOUS
  <2>1. \A j \in Entity : j /= mine[t] => content'[j] = content[j]
    OBVIOUS
  <2>2. CASE \A u \in Threads : ~(pc[u] = "updating" /\ mine[u] = i)
    BY <2>1, <2>2 DEF StandsFor
  <2>3. ASSUME NEW u \in Threads, pc[u] = "updating", mine[u] = i
        PROVE  Standing(i)' = Standing(i)
    <3>1. other[u] \in Entity /\ other[u] /= mine[t]
      BY <2>3 DEF LocksAreExact
    <3>2. pc'[u] = "updating" /\ mine'[u] = i /\ other'[u] = other[u]
      BY <2>3
    <3> QED
      BY <2>1, <2>3, <3>1, <3>2 DEF StandsFor
  <2> QED
    BY <2>2, <2>3
<1>6. ASSUME NEW t \in Threads, Unlock(t)
      PROVE  \A i \in Entity : Standing(i)' = Standing(i)
  <2> USE <1>a, <1>6 DEF Unlock, EntitiesTypeOK
  <2> SUFFICES ASSUME NEW i \in Entity PROVE Standing(i)' = Standing(i)
    OBVIOUS
  <2>1. CASE i = mine[t]
    <3>1. \A u \in Threads : ~(pc'[u] = "updating" /\ mine'[u] = i)
      BY <2>1, OneUpdate
    <3>2. content[mine[t]] = content[other[t]]
      <4>1. \A f \in Fields : content[mine[t]][f] = content[other[t]][f]
        BY DEF EntitiesInv, CopiesAgree
      <4> QED
        BY <4>1
    <3> QED
      BY <2>1, <3>1, <3>2 DEF StandsFor
  <2>2. CASE i /= mine[t]
    <3>1. CASE \A u \in Threads : ~(pc[u] = "updating" /\ mine[u] = i)
      <4>1. \A u \in Threads : ~(pc'[u] = "updating" /\ mine'[u] = i)
        BY <3>1
      <4> QED
        BY <3>1, <4>1 DEF StandsFor
    <3>2. ASSUME NEW u \in Threads, pc[u] = "updating", mine[u] = i
          PROVE  Standing(i)' = Standing(i)
      <4>1. pc'[u] = "updating" /\ mine'[u] = i /\ other'[u] = other[u]
            /\ content' = content
        BY <2>2, <3>2
      <4> QED
        BY <3>2, <4>1 DEF StandsFor
    <3> QED
      BY <3>1, <3>2
  <2> QED
    BY <2>1, <2>2
<1>7. ASSUME NEW e \in Entity, MarkDirty(e)
      PROVE  \A i \in Entity : Standing(i)' = Standing(i)
  BY <1>a, <1>k, <1>7 DEF MarkDirty
<1>8. CASE UNCHANGED entityVars
  BY <1>8, <1>a, <1>k, <1>s DEF entityVars
<1> QED
  BY <1>s, <1>1, <1>2, <1>3, <1>4, <1>5, <1>6, <1>7, <1>8 DEF EntitiesNext

(* Threads that update entities from each other at the same time, with the *)
(* locks of networkdataentity.cpp, change them as if every update were one *)
(* step.                                                                   *)
THEOREM EntitiesImplement == EntitiesSpec => ImplementsAtomicUpdates
<1>1. EntitiesInv /\ EntitiesInv' /\ [EntitiesNext]_entityVars =>
          [Atomic!Next]_[e \in Entity |-> Standing(e)]
  BY AtomicNext
<1> QED
  BY <1>1, AtomicInit, EntitiesKeepInv, PTL
  DEF EntitiesSpec, ImplementsAtomicUpdates, Atomic!Spec
=============================================================================
