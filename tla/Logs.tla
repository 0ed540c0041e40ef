--------------------------------- MODULE Logs ---------------------------------
(***************************************************************************)
(* Logs (logs.cpp): the message handler that writes a file per day, and   *)
(* the archivers that pack the files of other days and remove them.       *)
(* A file is <<name, day>>; a line is a number.  Crashes and restarts of  *)
(* the program may come at any point.                                      *)
(***************************************************************************)
EXTENDS Naturals, Sequences, FiniteSets

CONSTANTS Names,      \* names given to installFileHandler
          Dotted,     \* those with a dot in them
          NoName,     \* the empty name
          Archivers,  \* tasks of the thread pool (bound)
          LastDay,    \* bound: the last day
          MaxLines    \* bound: lines logged

VARIABLES today,
          messageHandler,  \* "base" or "file"
          nameBase,        \* logFileNameBase
          logFile,         \* currentLogFile, <<>> when none is open
          linked,          \* it still has its name on disk
          fileDate,        \* currentLogFileDate, 0 before the first try
          writing,         \* a thread is between opening and writing
          stored,          \* setLogsStoragePath was called: timer connections
          disk,            \* the lines of each file there is
          archives,        \* the lines of each .gz there is
          archiver,        \* per task: step, file, what it has read
          home,            \* per line: the file it was written to
          spoiled          \* files with a failed write or two archivers

logVars == <<today, messageHandler, nameBase, logFile, linked, fileDate, writing,
             stored, disk, archives, archiver, home, spoiled>>
processVars == <<messageHandler, nameBase, stored>>
fileVars == <<logFile, linked, fileDate, writing>>

With(files, f, lines) ==
    [g \in DOMAIN files \cup {f} |-> IF g = f THEN lines ELSE files[g]]
Without(files, f) == [g \in DOMAIN files \ {f} |-> files[g]]

Idle == [step |-> "idle", file |-> <<>>, data |-> <<>>]

(* After setup(), which installs baseHandler. *)
Init == /\ today = 1 /\ messageHandler = "base" /\ nameBase = NoName
        /\ logFile = <<>> /\ linked = FALSE /\ fileDate = 0 /\ writing = FALSE
        /\ stored = 0
        /\ disk = [f \in {} |-> <<>>] /\ archives = disk
        /\ archiver = [a \in Archivers |-> Idle]
        /\ home = <<>> /\ spoiled = {}

-----------------------------------------------------------------------------
(* An empty name uninstalls the handler and then installs it all the same; *)
(* a new name is used from the next file on.                               *)
InstallFileHandler(name) ==
    /\ messageHandler' = "file" /\ nameBase' = name
    /\ UNCHANGED <<today, fileVars, stored, disk, archives, archiver, home, spoiled>>

UninstallFileHandler ==
    /\ messageHandler = "file" /\ messageHandler' = "base"
    /\ UNCHANGED <<today, nameBase, fileVars, stored, disk, archives, archiver, home,
                   spoiled>>

-----------------------------------------------------------------------------
(* fileHandler, under its mutex: the file of another day is closed and the *)
(* one of today opened for appending...                                     *)
LogOpens ==
    /\ messageHandler = "file" /\ nameBase /= NoName /\ ~writing
    /\ Len(home) < MaxLines
    /\ writing' = TRUE
    /\ IF logFile /= <<>> /\ today = fileDate
       THEN UNCHANGED <<logFile, linked, fileDate, disk>>
       ELSE /\ logFile' = <<nameBase, today>> /\ fileDate' = today /\ linked' = TRUE
            /\ disk' = IF logFile' \in DOMAIN disk THEN disk ELSE With(disk, logFile', <<>>)
    /\ UNCHANGED <<today, processVars, archives, archiver, home, spoiled>>

(* (a file that cannot be opened leaves none open, and the line is dropped) *)
LogOpenFails ==
    /\ messageHandler = "file" /\ nameBase /= NoName /\ ~writing
    /\ logFile = <<>> \/ today /= fileDate
    /\ logFile' = <<>> /\ linked' = FALSE /\ fileDate' = today
    /\ UNCHANGED <<today, processVars, writing, disk, archives, archiver, home, spoiled>>

(* ...and the line written, maybe after midnight. *)
LogWrites ==
    /\ writing /\ writing' = FALSE
    /\ home' = Append(home, logFile)
    /\ disk' = IF linked THEN [disk EXCEPT ![logFile] = Append(@, Len(home) + 1)]
               ELSE disk
    /\ UNCHANGED <<today, processVars, logFile, linked, fileDate, archives,
                   archiver, spoiled>>

-----------------------------------------------------------------------------
(* Without the date of the open file.                                      *)
MutIsOld(f) == \/ f[1] \in Dotted
               \/ f[2] /= today

(* compressOldFiles compares everything after the FIRST dot of the name    *)
(* with the date of today and of the open file.                            *)
IsOld(f) == \/ f[1] \in Dotted
            \/ f[2] \notin {today, fileDate}

OldFiles == {f \in DOMAIN disk : IsOld(f)}

(* One task per old file and pass, for as many tasks as the bound allows.  *)
Compress(passes) ==
    \E tasks \in [Archivers -> {<<>>} \cup OldFiles] :
        /\ \A a \in Archivers : tasks[a] /= <<>> => archiver[a] = Idle
        /\ \A f \in OldFiles :
               \/ Cardinality({a \in Archivers : tasks[a] = f}) = passes
               \/ \A a \in Archivers : archiver[a] /= Idle \/ tasks[a] /= <<>>
        /\ \A f \in OldFiles : Cardinality({a \in Archivers : tasks[a] = f}) <= passes
        /\ archiver' = [a \in Archivers |->
                           IF tasks[a] = <<>> THEN archiver[a]
                           ELSE [step |-> "queued", file |-> tasks[a], data |-> <<>>]]

(* setLogsStoragePath connects the timer once more at every call. *)
SetLogsStoragePath ==
    /\ stored < 2   \* bound: calls
    /\ stored' = stored + 1 /\ Compress(1)
    /\ UNCHANGED <<today, messageHandler, nameBase,
                   fileVars, disk, archives, home, spoiled>>

ArchiveTimer == /\ stored > 0 /\ Compress(stored) /\ archiver' /= archiver
                /\ UNCHANGED <<today, processVars, fileVars, disk, archives,
                               home, spoiled>>

-----------------------------------------------------------------------------
(* DetachedArchiver::run: opens the file and truncates the archive... *)
ArchiverOpens(a) ==
    LET f == archiver[a].file IN
    /\ archiver[a].step = "queued"
    /\ IF f \notin DOMAIN disk
       THEN archiver' = [archiver EXCEPT ![a] = Idle] /\ UNCHANGED <<archives, spoiled>>
       ELSE /\ archiver' = [archiver EXCEPT ![a].step = "opened", ![a].data = disk[f]]
            /\ archives' = With(archives, f, <<>>)
            /\ spoiled' = IF \E b \in Archivers \ {a} : /\ archiver[b].file = f
                                                         /\ archiver[b].step /= "queued"
                          THEN spoiled \cup {f} ELSE spoiled
    /\ UNCHANGED <<today, processVars, fileVars, disk, home>>

(* ...copies it, without a look at what gzwrite returns... *)
ArchiverCopies(a, written) ==
    LET f == archiver[a].file IN
    /\ archiver[a].step = "opened"
    /\ archiver' = [archiver EXCEPT ![a].step = "copied"]
    /\ IF written
       THEN /\ archives' = With(archives, f, IF f \in DOMAIN disk THEN disk[f]
                                             ELSE archiver[a].data)
            /\ UNCHANGED spoiled
       ELSE spoiled' = spoiled \cup {f} /\ UNCHANGED archives
    /\ UNCHANGED <<today, processVars, fileVars, disk, home>>

(* ...and removes it. *)
ArchiverRemoves(a) ==
    LET f == archiver[a].file IN
    /\ archiver[a].step = "copied"
    /\ archiver' = [archiver EXCEPT ![a] = Idle]
    /\ disk' = Without(disk, f)
    /\ linked' = (linked /\ logFile /= f)
    /\ UNCHANGED <<today, processVars, logFile, fileDate, writing, archives,
                   home, spoiled>>

-----------------------------------------------------------------------------
NextDay == /\ today < LastDay /\ today' = today + 1
           /\ UNCHANGED <<processVars, fileVars, disk, archives, archiver, home,
                          spoiled>>

(* The process ends, at any point, and starts again; the disk stays. *)
Restart == /\ messageHandler' = "base"
           /\ nameBase' = NoName /\ stored' = 0
           /\ logFile' = <<>> /\ linked' = FALSE /\ fileDate' = 0 /\ writing' = FALSE
           /\ archiver' = [a \in Archivers |-> Idle]
           /\ UNCHANGED <<today, disk, archives, home, spoiled>>

Next == \/ UninstallFileHandler
        \/ \E name \in Names \cup {NoName} : InstallFileHandler(name)
        \/ LogOpens \/ LogOpenFails \/ LogWrites \/ SetLogsStoragePath \/ ArchiveTimer
        \/ \E a \in Archivers : \/ ArchiverOpens(a) \/ ArchiverRemoves(a)
                                \/ \E ok \in BOOLEAN : ArchiverCopies(a, ok)
        \/ NextDay \/ Restart

Spec == Init /\ [][Next]_logVars
-----------------------------------------------------------------------------
Lines(files, f) == IF f \in DOMAIN files THEN {files[f][i] : i \in 1..Len(files[f])} ELSE {}

(* A line that was written is in its file or in the file's archive, across *)
(* midnights, archivers, crashes and restarts: unless the name has a dot   *)
(* in it, a write to the archive failed, or two archivers met at the file. *)
NoLineIsLost ==
    \A i \in 1..Len(home) :
        home[i][1] \notin Dotted /\ home[i] \notin spoiled =>
            i \in Lines(disk, home[i]) \cup Lines(archives, home[i])
=============================================================================
