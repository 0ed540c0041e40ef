---------------------------- MODULE Application ----------------------------
(***************************************************************************)
(* CoreApplication (coreapplication.cpp) from start to start: migrations   *)
(* from the versions the settings remember to those of the program that    *)
(* is started, then the language, then the initializers.  The program may  *)
(* crash or end at any point, and be followed by a newer or an older one.  *)
(*                                                                         *)
(* Migrations of the application and of the library are kept in one map    *)
(* by the packed version of the release they came with; a program has      *)
(* those of its own versions and of all before.  Migration ids are numbers *)
(* in the order of that map.                                               *)
(***************************************************************************)
EXTENDS Naturals

CONSTANTS
    Migrations,     \* ids, natural numbers
    VersionOf,      \* the version each is registered for
    OfApp,          \* those of the application; the others are the library's
    MovesTo,        \* the app version a migration itself stores, 0 for none
    Releases,       \* version numbers of programs
    Initializers, Languages

VARIABLES
    phase,      \* down, migrating, ready, up
    target,     \* applicationVersion and proofVersion of the program
    stored,     \* __app_version__ and __proof_version__ in the settings
    packed,     \* the versions execMigrations last read
    last,       \* the migration of this round that ran last
    applied,    \* migrations that ran to their end at some time
    passed,     \* those passed over because a migration moved the version
    inits,      \* initializers not run yet
    ran,        \* initializers run by this program
    language,   \* the current language, and that of the translators
    crashFile   \* a crash was recorded in $HOME

appVars == <<phase, target, stored, packed, last, applied, passed, inits, ran,
             language, crashFile>>

VersionPair(a, p) == [app |-> a, proof |-> p]
Lesser(v) == IF v.app < v.proof THEN v.app ELSE v.proof
UpTo(v) == {m \in Migrations : VersionOf[m] <= (IF m \in OfApp THEN v.app ELSE v.proof)}
Registered == UpTo(target)

Init ==
    /\ phase = "down" /\ target = VersionPair(0, 0) /\ stored = VersionPair(0, 0)
    /\ packed = VersionPair(0, 0) /\ last = 0
    /\ applied = {} /\ passed = {}
    /\ inits = {} /\ ran = {}
    /\ language = [current |-> CHOOSE l \in Languages : TRUE,
                   translators |-> CHOOSE l \in Languages : TRUE]
    /\ crashFile = FALSE

(* One of the two versions is enough.                                      *)
MutUpToDate(v, t) == v.app >= t.app \/ v.proof >= t.proof

UpToDate(v, t) == v.app >= t.app /\ v.proof >= t.proof

(* The constructor, up to execMigrations, which has nothing to do when     *)
(* both versions are not older than the program's.                         *)
Start ==
    /\ phase = "down"
    /\ \E a, p \in Releases :
          /\ target' = VersionPair(a, p)
          /\ phase' = IF UpToDate(stored, VersionPair(a, p)) THEN "ready" ELSE "migrating"
    /\ packed' = stored /\ last' = 0
    /\ \E I \in SUBSET Initializers : inits' = I
    /\ ran' = {}
    /\ UNCHANGED <<stored, applied, passed, language, crashFile>>

(* The migrations behind the point the round starts from.                  *)
ToRun == {m \in Registered : VersionOf[m] > Lesser(packed) /\ m > last}

(* A migration that changes a stored version ends the round; the next one  *)
(* starts from the new versions.  What it stores counts as done: the       *)
(* application's migrations up to there are passed over.                   *)
RunMigration ==
    /\ phase = "migrating"
    /\ \E m \in ToRun :
          /\ \A x \in ToRun : m <= x
          /\ applied' = applied \cup {m}
          /\ stored' = IF MovesTo[m] = 0 THEN stored ELSE [stored EXCEPT !.app = MovesTo[m]]
          /\ packed' = stored'
          /\ last' = IF stored' = packed THEN m ELSE 0
          /\ passed' = IF stored' = packed THEN passed
                       ELSE passed \cup {x \in Migrations \cap OfApp : VersionOf[x] <= stored'.app}
    /\ UNCHANGED <<phase, target, inits, ran, language, crashFile>>

StoreVersions ==
    /\ phase = "migrating" /\ ToRun = {}
    /\ stored' = target /\ phase' = "ready"
    /\ UNCHANGED <<target, packed, last, applied, passed, inits, ran, language, crashFile>>

InitTranslator == language' = [language EXCEPT !.translators = language.current]
PostInit == ran' = inits /\ inits' = {}

(* What ends the constructor.                                              *)
Complete ==
    /\ phase = "ready" /\ phase' = "up"
    /\ InitTranslator /\ PostInit
    /\ UNCHANGED <<target, stored, packed, last, applied, passed, crashFile>>

(* An initializer is kept for postInit, or run at once after it.           *)
AddInitializer ==
    \E i \in Initializers \ (inits \cup ran) :
        /\ phase \in {"migrating", "ready", "up"}
        /\ IF phase = "up" THEN ran' = ran \cup {i} /\ UNCHANGED inits
                           ELSE inits' = inits \cup {i} /\ UNCHANGED ran
        /\ UNCHANGED <<phase, target, stored, packed, last, applied, passed, language,
                       crashFile>>

SetLanguage ==
    /\ phase = "up"
    /\ \E l \in Languages : language' = [current |-> l, translators |-> l]
    /\ UNCHANGED <<phase, target, stored, packed, last, applied, passed, inits, ran, crashFile>>

(* The translators go with the process, the language is in the settings.   *)
Ended == phase # "down" /\ phase' = "down"
            /\ UNCHANGED <<target, stored, packed, last, applied, passed, inits, ran, language>>

Quit == phase = "up" /\ Ended /\ UNCHANGED crashFile
SignalHandler == Ended /\ crashFile' = TRUE

Next == Start \/ RunMigration \/ StoreVersions \/ Complete \/ AddInitializer
          \/ SetLanguage \/ Quit \/ SignalHandler

Spec == Init /\ [][Next]_appVars

-----------------------------------------------------------------------------
TypeOK ==
    /\ phase \in {"down", "migrating", "ready", "up"}
    /\ {target, stored, packed} \subseteq [app : Nat, proof : Nat]
    /\ last \in Migrations \cup {0} /\ applied \cup passed \subseteq Migrations
    /\ inits \cup ran \subseteq Initializers /\ crashFile \in BOOLEAN
    /\ language \in [current : Languages, translators : Languages]

(* When a program is up, every migration it knows has run to its end, in   *)
(* this start or an earlier one, whatever crashes, upgrades and downgrades *)
(* of the application and the library came in between, but for those that  *)
(* a migration skipped by storing a later version itself.                  *)
NoMigrationIsLost ==
    phase \in {"ready", "up"} => Registered \subseteq applied \cup passed

(* Initializers run only after the migrations are over, and when the       *)
(* program is up none is left and the translators are of its language.     *)
ReadyWhenUp ==
    /\ TypeOK
    /\ phase = "migrating" => ran = {}
    /\ phase = "up" => inits = {} /\ language.translators = language.current
=============================================================================
