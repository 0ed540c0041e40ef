------------------------------ MODULE Settings ------------------------------
(***************************************************************************)
(* Settings and SettingsGroup (settings.cpp, settingsgroup.cpp): local     *)
(* values of the application over global ones of all applications of the   *)
(* library, each storage with its file.  The main group and one group in   *)
(* it are modelled; every group of the local storage is linked to the      *)
(* group of that name in the global one, and follows it by its signals.    *)
(*                                                                         *)
(* Public methods run on the thread of the settings, one at a time         *)
(* (safeCall with Call::Block); they call each other and react to signals  *)
(* inside, so each is an operator from a state s to the next one.          *)
(***************************************************************************)
EXTENDS FiniteSetsExt

CONSTANTS Keys, Values, Null

VARIABLE settings
(* own[x][g][k]  values of storage x itself, group g, key k                *)
(* names[g]      valuesNames of the local group                            *)
(* exists        storages in which the group "sub" exists                  *)
(* groupNames    groupsNames of the local main group                       *)
(* file[x][g][k] the QSettings of storage x                                *)
(* told[g][k]    the value valueChanged of the local group said last       *)
(* quiet         own local values set last without a signal                *)
(* dangling      the local "sub" is linked to a global one that is deleted *)

Storages == {"local", "global"}
Groups == {"main", "sub"}
NoValues == [k \in Keys |-> Null]
Empty == [x \in Storages |-> [g \in Groups |-> NoValues]]

(* value(): the local value, or else the global one.                       *)
Value(s, g, k) == IF s.own["local"][g][k] # Null THEN s.own["local"][g][k]
                                                 ELSE s.own["global"][g][k]
Named(s, x, g) == IF x = "local" THEN s.names[g]
                                 ELSE {k \in Keys : s.own["global"][g][k] # Null}

(* The handler each local group connects to its global one: it passes the  *)
(* change on when it has no value of its own.                              *)
FollowGlobal(s, g, k, v) ==
    IF g = "sub" /\ "local" \notin s.exists THEN s
    ELSE IF s.own["local"][g][k] # Null
           THEN [s EXCEPT !.names[g] = IF v = Null THEN @ ELSE @ \cup {k}]
           ELSE [s EXCEPT !.names[g] = IF v = Null THEN @ \ {k} ELSE @ \cup {k},
                          !.told[g][k] = v]

(* groupValueChanged: what a group announces goes to the file, or out of   *)
(* it when it is null.                                                     *)
Save(s, x, g, k, v) == [s EXCEPT !.file[x][g][k] = v]

SetGlobal(s, g, k, v) ==
    IF s.own["global"][g][k] = v THEN s
    ELSE FollowGlobal(Save([s EXCEPT !.own["global"][g][k] = v], "global", g, k, v),
                      g, k, v)

(* A deleted value takes its name along, whatever the global group has.    *)
MutSetLocalDropsName(s, g, k, v) ==
    IF s.own["local"][g][k] = v THEN s
    ELSE [Save(s, "local", g, k, v) EXCEPT
             !.own["local"][g][k] = v, !.told[g][k] = v, !.quiet = @ \ {<<g, k>>},
             !.names[g] = IF v # Null THEN @ \cup {k} ELSE @ \ {k}]

(* A change to the value the global group has is not announced, and so     *)
(* not written to the file either: Settings saves what it is told.         *)
SetLocal(s, g, k, v) ==
    IF s.own["local"][g][k] = v THEN s
    ELSE IF v # Null /\ s.own["global"][g][k] = v
           THEN [s EXCEPT !.own["local"][g][k] = v, !.names[g] = @ \cup {k},
                          !.quiet = @ \cup {<<g, k>>}]
           ELSE [Save(s, "local", g, k, v) EXCEPT
                    !.own["local"][g][k] = v, !.told[g][k] = v, !.quiet = @ \ {<<g, k>>},
                    !.names[g] = IF v # Null THEN @ \cup {k}
                                 ELSE (@ \ {k}) \cup Named(s, "global", g)]

Set(s, x, g, k, v) == IF x = "local" THEN SetLocal(s, g, k, v)
                                     ELSE SetGlobal(s, g, k, v)

SetAll(s, x, g, ks, vs) == FoldSet(LAMBDA k, t : Set(t, x, g, k, vs[k]), s, ks)

AddGlobalGroup(s) ==
    [s EXCEPT !.exists = @ \cup {"global"}, !.groupNames = @ \cup {"sub"}]

(* A local group is linked to a global one, which is made if need be, and  *)
(* knows from the start the names this one has.                            *)
AddLocalGroup(s) ==
    IF "local" \in s.exists THEN s
    ELSE LET t == AddGlobalGroup(s)
         IN  [t EXCEPT !.exists = @ \cup {"local"},
                       !.names["sub"] = Named(s, "global", "sub"),
                       !.told["sub"] = s.own["global"]["sub"]]

(* groupRemoved of the global group ends the local one too, unless that    *)
(* one still has values.                                                   *)
DeleteGlobalGroup(s) ==
    IF "global" \notin s.exists THEN s
    ELSE LET t == SetAll(s, "global", "sub", Keys, NoValues)
         IN  IF "local" \in t.exists /\ t.names["sub"] # {}
               THEN [t EXCEPT !.exists = {"local"}, !.dangling = TRUE]
               ELSE [t EXCEPT !.exists = {}, !.groupNames = {}]

(* A local group without values takes an empty global one along; one that  *)
(* was left over from a global one goes alone.                             *)
DeleteLocalGroup(s) ==
    IF "local" \notin s.exists THEN s
    ELSE LET t == SetAll(s, "local", "sub", s.names["sub"], NoValues)
         IN  IF "global" \notin t.exists
               THEN [t EXCEPT !.exists = {}, !.names["sub"] = {}, !.groupNames = {},
                              !.dangling = FALSE]
             ELSE IF Named(t, "global", "sub") = {} THEN DeleteGlobalGroup(t)
             ELSE [t EXCEPT !.exists = {"global"}, !.names["sub"] = {}]

DeleteGroup(s, x) == IF x = "local" THEN DeleteLocalGroup(s) ELSE DeleteGlobalGroup(s)

(* fillGroupFromSettings: what the file does not have is deleted.          *)
FillValues(s, x, g) ==
    SetAll(s, x, g, Named(s, x, g) \cup {k \in Keys : s.file[x][g][k] # Null},
           s.file[x][g])

Fill(s, x) ==
    LET t == FillValues(s, x, "main")
        made == IF x = "local" THEN AddLocalGroup(t) ELSE AddGlobalGroup(t)
    IN  IF t.file[x]["sub"] # NoValues THEN FillValues(made, x, "sub")
                                       ELSE DeleteGroup(t, x)

(* A global group deleted here is there until the event loop runs: the     *)
(* local one linked to it is still filled.                                 *)
ReadSettings(s) == Fill(Fill(s, "global"), "local")

Fresh(file) ==
    [own |-> Empty, names |-> [g \in Groups |-> {}], exists |-> {}, groupNames |-> {},
     file |-> file, told |-> Empty["local"], quiet |-> {}, dangling |-> FALSE]

Init == settings = ReadSettings(Fresh(Empty))

-----------------------------------------------------------------------------
(* Using a local group whose global one is gone is undefined: no action.   *)
Usable(g) == IF g = "main" THEN TRUE
             ELSE "local" \in settings.exists /\ ~settings.dangling

SetValue ==
    \E x \in Storages, g \in Groups, k \in Keys, v \in Values \cup {Null} :
        Usable(g) /\ settings' = Set(settings, x, g, k, v)

(* value(key, default, policy) adds the default where the policy says so.  *)
ValueOrDefault ==
    \E x \in Storages, g \in Groups, k \in Keys, v \in Values :
        /\ Usable(g) /\ Value(settings, g, k) = Null
        /\ settings' = Set(settings, x, g, k, v)

(* group() finds or makes the group, addGroup() makes it; with the policy  *)
(* DoNothing only for a global group, which changes nothing else here.     *)
Group == ~settings.dangling /\ settings' = AddLocalGroup(settings)

RemoveGroup ==
    /\ ~settings.dangling
    /\ \E x \in Storages : settings' = DeleteGroup(settings, x)

(* copyTo of the group to the main one.                                    *)
CopyTo ==
    /\ Usable("sub")
    /\ settings' = SetAll(settings, "local", "main", settings.names["sub"],
                          [k \in Keys |-> Value(settings, "sub", k)])

Sync == ~settings.dangling /\ settings' = ReadSettings(settings)

(* The application ends and is started again.                              *)
Restart == settings' = ReadSettings(Fresh(settings.file))

(* Another application writes the global file; sync() will read it.        *)
OtherApplication ==
    \E g \in Groups, k \in Keys, v \in Values \cup {Null} :
        settings' = [settings EXCEPT !.file["global"][g][k] = v]

Next == SetValue \/ ValueOrDefault \/ Group \/ RemoveGroup \/ CopyTo
          \/ Sync \/ Restart \/ OtherApplication

Spec == Init /\ [][Next]_settings

-----------------------------------------------------------------------------
Linked(g) == g = "main" \/ ("local" \in settings.exists /\ ~settings.dangling)

(* What the local group lists in values() and groups() is what it has      *)
(* itself or the global one has, although it only follows the signals of   *)
(* that one and of its own changes.                                        *)
NamesAreExact ==
    /\ \A g \in Groups : Linked(g) =>
          settings.names[g] = {k \in Keys : Value(settings, g, k) # Null}
    /\ ~settings.dangling =>
          settings.groupNames = IF settings.exists = {} THEN {} ELSE {"sub"}
    /\ "local" \in settings.exists => settings.dangling \/ "global" \in settings.exists

(* A value of the local storage is in its file, and listeners were told    *)
(* the value that value() returns, so that a restart changes nothing: but  *)
(* for a value set last to what the global group had, of which the file    *)
(* and the listeners have the one before, and for a value that was deleted *)
(* over a global one, of which listeners only know that it was deleted.    *)
AnnouncedValuesAreKept ==
    \A g \in Groups, k \in Keys :
        (Linked(g) /\ <<g, k>> \notin settings.quiet) =>
            /\ settings.file["local"][g][k] = settings.own["local"][g][k]
            /\ \/ settings.told[g][k] = Value(settings, g, k)
               \/ /\ settings.told[g][k] = Null
                  /\ settings.own["local"][g][k] = Null
=============================================================================
