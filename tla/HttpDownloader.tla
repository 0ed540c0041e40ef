---------------------------- MODULE HttpDownloader ----------------------------
(***************************************************************************)
(* HttpDownloader (httpdownloader.cpp): one download, by download() or by *)
(* downloadTo().  The reply lives on the network thread.  The continuation *)
(* of RestClient::get runs there when it was attached in time and on the  *)
(* caller's thread when the reply was there first.  downloadTo handles    *)
(* the reply's signals on the network thread, download() has them queued  *)
(* to the downloader's thread.                                             *)
(***************************************************************************)
EXTENDS Naturals, Sequences

CONSTANT Pieces   \* bound: pieces the body comes in

VARIABLES mode,      \* "none", "download", "downloadTo"
          stage,     \* "asked", "replied", "checked", "connected", "done"
          response,  \* the reply: "none", "running", "ok", "failed", "gone"
          arrived,   \* pieces of the body that came
          buffered,  \* those nobody has read yet
          written,   \* what dest, or the result, got
          lost,      \* dest took less than it was given
          promise, fills,
          queued,    \* signals on their way to the downloader's thread
          deleting,  \* deleteLater of the reply was called
          alive,     \* the downloader is
          missed,    \* the reply finished between isFinished and connect
          touchedGone

vars == <<mode, stage, response, arrived, buffered, written, lost, promise, fills,
          queued, deleting, alive, missed, touchedGone>>

Init == /\ mode = "none" /\ stage = "none" /\ response = "none"
        /\ arrived = 0 /\ buffered = <<>> /\ written = <<>> /\ lost = FALSE
        /\ promise = "pending" /\ fills = 0 /\ queued = <<>>
        /\ deleting = FALSE /\ alive = TRUE /\ missed = FALSE
        /\ touchedGone = FALSE

Fill(outcome) == promise' = outcome /\ fills' = fills + 1

Finished == response \in {"ok", "failed"}

(* A bad URL or a destination one cannot write to fails at once. *)
Ask(m, usable) ==
    /\ mode = "none" /\ mode' = m
    /\ IF usable THEN stage' = "asked" /\ UNCHANGED <<promise, fills>>
       ELSE stage' = "done" /\ Fill("failed")
    /\ UNCHANGED <<response, arrived, buffered, written, lost, queued, deleting, alive,
                   missed, touchedGone>>

(* RestClient::get (external here): no reply... *)
GetFails == /\ stage = "asked" /\ stage' = "done" /\ Fill("failed")
            /\ UNCHANGED <<mode, response, arrived, buffered, written, lost, queued,
                           deleting, alive, missed, touchedGone>>

(* ...or one, whose continuation runs on either thread. *)
GetReplies(here) ==
    /\ stage = "asked"
    /\ stage' = IF here THEN "connected" ELSE "replied"
    /\ response' = "running"
    /\ UNCHANGED <<mode, arrived, buffered, written, lost, promise, fills, queued,
                   deleting, alive, missed, touchedGone>>

-----------------------------------------------------------------------------
(* What is there is read, and for downloadTo given to dest->write, whose    *)
(* result nobody looks at: dest may take less, part by part.               *)
CopyData(there) ==
    /\ buffered' = <<>>
    /\ \/ written' = written \o there /\ UNCHANGED lost
       \/ /\ mode = "downloadTo" /\ there /= <<>> /\ lost' = TRUE
          /\ \E kept \in SUBSET (1..Pieces) :
                /\ \E i \in DOMAIN there : there[i] \notin kept
                /\ written' = written \o SelectSeq(there, LAMBDA piece : piece \in kept)

(* The slots of the reply's signals, given what became of it.  Each one     *)
(* returns at once when the promise is filled, except that the slot of     *)
(* sslErrors calls deleteLater all the same.                               *)
Answer(signal, outcome) ==
    IF signal = "finished" /\ outcome = "ok"
    THEN CopyData(buffered) /\ Fill("ok")
    ELSE UNCHANGED <<written, lost, buffered>> /\ Fill("failed")

(* Without the look at the promise.                                        *)
MutSlot(signal, outcome) == deleting' = TRUE /\ Answer(signal, outcome)

Slot(signal, outcome) ==
    IF promise = "pending"
    THEN deleting' = TRUE /\ Answer(signal, outcome)
    ELSE /\ deleting' = (deleting \/ signal = "ssl")
         /\ UNCHANGED <<written, lost, buffered, promise, fills>>

(* The continuation on the caller's thread: isFinished first... *)
CallerChecks ==
    /\ stage = "replied"
    /\ IF Finished THEN stage' = "done" /\ Slot("finished", response)
       ELSE /\ stage' = "checked"
            /\ UNCHANGED <<written, lost, buffered, promise, fills, deleting>>
    /\ UNCHANGED <<mode, response, arrived, queued, alive, missed, touchedGone>>

(* ...and the connections after it, while the network thread goes on. *)
CallerConnects ==
    /\ stage = "checked" /\ stage' = "connected"
    /\ missed' = Finished
    /\ UNCHANGED <<mode, response, arrived, buffered, written, lost, promise, fills,
                   queued, deleting, alive, touchedGone>>

-----------------------------------------------------------------------------
(* The network thread.  Signals reach the slots of downloadTo at once,     *)
(* those of download() by the downloader's event loop, while it lives.     *)
Emit(signals, outcome) ==
    \/ /\ stage = "connected" /\ mode = "download"
       /\ queued' = IF alive THEN queued \o signals ELSE queued
       /\ UNCHANGED <<written, lost, buffered, promise, fills, deleting>>
    \/ /\ stage = "connected" /\ mode = "downloadTo"
       /\ Slot(signals[1], outcome) /\ UNCHANGED queued
    \/ /\ stage /= "connected"
       /\ UNCHANGED <<queued, written, lost, buffered, promise, fills, deleting>>

(* downloadProgress: downloadTo copies what is there. *)
Piece ==
    /\ response = "running" /\ arrived < Pieces
    /\ arrived' = arrived + 1
    /\ IF stage = "connected" /\ mode = "downloadTo" /\ promise = "pending"
       THEN CopyData(Append(buffered, arrived + 1))
       ELSE buffered' = Append(buffered, arrived + 1) /\ UNCHANGED <<written, lost>>
    /\ UNCHANGED <<mode, stage, response, promise, fills, queued, deleting,
                   alive, missed, touchedGone>>

Finish == /\ response = "running" /\ arrived = Pieces
          /\ response' = "ok" /\ Emit(<<"finished">>, "ok")
          /\ UNCHANGED <<mode, stage, arrived, alive, missed, touchedGone>>

(* An error, RestClient's timeout among them, and the end after it: what   *)
(* the second signal finds is already answered.                            *)
Fail == /\ response = "running"
        /\ response' = "failed" /\ Emit(<<"error", "finished">>, "failed")
        /\ UNCHANGED <<mode, stage, arrived, alive, missed, touchedGone>>

SslErrors == /\ response = "running" /\ arrived = 0
             /\ promise = "pending" /\ queued = <<>>   \* one handshake a reply
             /\ Emit(<<"ssl">>, "failed")
             /\ UNCHANGED <<mode, stage, response, arrived, alive, missed, touchedGone>>

DeleteReply == /\ deleting /\ response /= "gone" /\ response' = "gone"
               /\ UNCHANGED <<mode, stage, arrived, buffered, written, lost, promise, fills,
                              queued, deleting, alive, missed, touchedGone>>

-----------------------------------------------------------------------------
(* The downloader's thread: the slots of download(). *)
RunQueued ==
    /\ alive /\ queued /= <<>>
    /\ queued' = Tail(queued)
    /\ Slot(Head(queued), response)
    /\ touchedGone' = (touchedGone \/ (/\ response = "gone"
                                       /\ promise = "pending" \/ Head(queued) = "ssl"))
    /\ UNCHANGED <<mode, stage, response, arrived, alive, missed>>

DestroyDownloader == /\ alive /\ stage \in {"connected", "done"}
                     /\ alive' = FALSE /\ queued' = <<>>
                     /\ UNCHANGED <<mode, stage, response, arrived, buffered, written, lost,
                                    promise, fills, deleting, missed, touchedGone>>

Next == \/ \E m \in {"download", "downloadTo"}, usable \in BOOLEAN : Ask(m, usable)
        \/ GetFails \/ \E here \in BOOLEAN : GetReplies(here)
        \/ CallerChecks \/ CallerConnects
        \/ Piece \/ Finish \/ Fail \/ SslErrors \/ DeleteReply
        \/ RunQueued \/ DestroyDownloader

Spec == Init /\ [][Next]_vars
-----------------------------------------------------------------------------
(* The promise is filled once, with success only when the destination, or  *)
(* the result, holds the whole body in order, unless the destination took  *)
(* less than it was given, whichever thread ran the continuation and       *)
(* whatever signals crossed; and no slot uses a reply that is gone.        *)
DownloadIsExact ==
    /\ fills <= 1 /\ ~touchedGone
    /\ promise = "ok" /\ ~lost => written = [i \in 1..Pieces |-> i]

(* Once the reply has ended and no signal is on its way, the download is   *)
(* answered, unless the reply ended between the caller's check and its     *)
(* connections or the downloader was destroyed.                            *)
EndedIsAnswered ==
    (/\ stage \in {"connected", "done"} /\ response /= "running"
     /\ queued = <<>> /\ ~missed /\ alive) => promise /= "pending"
=============================================================================
