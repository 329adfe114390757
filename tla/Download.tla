------------------------------ MODULE Download -------------------------------
(***************************************************************************)
(* httpsGetFile of src/canary.ts with consumeResponse of                   *)
(* src/http-response.ts: one release asset streamed to a file under a byte *)
(* limit and a total time budget, with back-pressure from the file to the  *)
(* response, and the partial file removed before the promise rejects.      *)
(*                                                                         *)
(* Bytes are counted in abstract units.  A handler that finds the promise  *)
(* settled does nothing and is not an action.                              *)
(***************************************************************************)
EXTENDS Naturals

CONSTANTS
    Limit,         \* MAX_RELEASE_ASSET_BYTES
    MaxBody,       \* bound: the longest body a server sends
    Framings,      \* how a server marks the end of a body
    Worlds         \* the worlds considered: which faults may happen in each

ASSUME DownloadAssumption ==
    /\ Limit \in Nat
    /\ MaxBody \in Nat
    /\ Framings \subseteq {"length", "chunked", "close"}
    /\ Worlds \subseteq SUBSET {"network", "disk", "timeout", "rm"}

VARIABLES
    call,          \* "idle", "pending", "closing", "removing", "resolved", "rejected"
    timer,         \* the total time budget: "none", "armed", "off"
    faults,        \* what may go wrong in this world
    body,          \* the length of the body the server would send
    framing,
    response,      \* "none", "flowing", "paused", "ended", "destroyed"
    received,      \* what consumeResponse has counted
    file,          \* the write stream: "none", "live", "ending", "finished", "doomed", "closed"
    opened,        \* its open(2) has completed
    written,       \* what write() has been given
    flushed,       \* what has reached the file
    exists         \* the file is on the disk

netVars == <<faults, body, framing, response, received>>
fileVars == <<file, opened, written, flushed, exists>>
downloadVars == <<call, timer, netVars, fileVars>>

DownloadInit ==
    /\ call = "idle"
    /\ timer = "none"
    /\ faults \in Worlds
    /\ body \in 0..MaxBody
    /\ framing \in Framings
    /\ response = "none"
    /\ received = 0
    /\ file = "none"
    /\ opened = FALSE
    /\ written = 0
    /\ flushed = 0
    /\ exists = FALSE

-----------------------------------------------------------------------------
(* fail: everything is stopped, and the partial file is removed once the    *)
(* stream that writes it is closed.                                         *)

(* slip: the file is removed while the stream may still be writing to it *)
FailAtOnce ==
    /\ timer' = "off"
    /\ response' = IF response = "none" THEN "none" ELSE "destroyed"
    /\ file' = IF file \in {"live", "ending"} THEN "doomed" ELSE file
    /\ call' = "removing"

(* slip: the stream is waited for but not destroyed *)
FailWithoutDestroy ==
    /\ timer' = "off"
    /\ response' = IF response = "none" THEN "none" ELSE "destroyed"
    /\ UNCHANGED file
    /\ call' = IF file \in {"live", "ending"} THEN "closing" ELSE "removing"

Fail ==
    /\ timer' = "off"
    /\ response' = IF response = "none" THEN "none" ELSE "destroyed"
    /\ file' = IF file \in {"live", "ending"} THEN "doomed" ELSE file
    /\ call' = IF file \in {"live", "ending"} THEN "closing" ELSE "removing"

RejectUrl ==
    /\ call = "idle"
    /\ Fail
    /\ UNCHANGED <<faults, body, framing, received, opened, written, flushed, exists>>

Start ==
    /\ call = "idle"
    /\ call' = "pending"
    /\ timer' = "armed"
    /\ UNCHANGED <<netVars, fileVars>>

(* https.get throws, the request errs, or the status is not 200 *)
NoBody ==
    /\ "network" \in faults
    /\ call = "pending"
    /\ response = "none"
    /\ Fail
    /\ UNCHANGED <<faults, body, framing, received, opened, written, flushed, exists>>

(* 200: the file is created; a Content-Length over the limit fails at once *)
Respond ==
    /\ call = "pending"
    /\ response = "none"
    /\ IF framing = "length" /\ body > Limit
       THEN /\ timer' = "off"
            /\ response' = "destroyed"
            /\ file' = "doomed"
            /\ call' = "closing"
       ELSE /\ file' = "live"
            /\ response' = "flowing"
            /\ UNCHANGED <<call, timer>>
    /\ UNCHANGED <<faults, body, framing, received, opened, written, flushed, exists>>

-----------------------------------------------------------------------------
(* consumeResponse                                                          *)

(* slip: the chunk is written before the limit is looked at *)
DataThenLimit(n) ==
    /\ call = "pending"
    /\ response = "flowing"
    /\ received + n <= body
    /\ received' = received + n
    /\ written' = written + n
    /\ IF received + n > Limit THEN Fail
       ELSE response' \in {"flowing", "paused"} /\ UNCHANGED <<call, timer, file>>
    /\ UNCHANGED <<faults, body, framing, opened, flushed, exists>>

(* a chunk; write() returns false when the stream's buffer is full *)
Data(n) ==
    /\ call = "pending"
    /\ response = "flowing"
    /\ received + n <= body
    /\ received' = received + n
    /\ IF received + n > Limit
       THEN Fail /\ UNCHANGED written
       ELSE /\ written' = written + n
            /\ response' \in {"flowing", "paused"}
            /\ UNCHANGED <<call, timer, file>>
    /\ UNCHANGED <<faults, body, framing, opened, flushed, exists>>

(* 'end' of a complete body: destination.end() *)
End ==
    /\ response' = "ended"
    /\ file' = "ending"
    /\ UNCHANGED <<call, timer, faults, body, framing, received, opened, written, flushed, exists>>

ResponseEnds ==
    /\ call = "pending"
    /\ response = "flowing"
    /\ received = body
    /\ End

(* The connection breaks: 'aborted', 'close', or an 'end' of an incomplete  *)
(* body.  A body that only the closing of the connection ends looks whole.  *)
ResponseBreaks ==
    /\ "network" \in faults
    /\ call = "pending"
    /\ response \in {"flowing", "paused"}
    /\ \/ framing = "close" /\ response = "flowing" /\ End
       \/ Fail /\ UNCHANGED <<faults, body, framing, received, opened, written, flushed, exists>>

-----------------------------------------------------------------------------
(* The file                                                                 *)

FileOpens ==
    /\ file \in {"live", "ending", "doomed"}
    /\ ~opened
    /\ opened' = TRUE
    /\ exists' = TRUE
    /\ UNCHANGED <<call, timer, netVars, file, written, flushed>>

(* open(2) or a write fails; the stream destroys itself, then emits 'error' *)
FileFails ==
    /\ "disk" \in faults
    /\ call = "pending"
    /\ file \in {"live", "ending"}
    /\ file' = "closed"
    /\ timer' = "off"
    /\ response' = "destroyed"
    /\ call' = "removing"
    /\ UNCHANGED <<faults, body, framing, received, opened, written, flushed, exists>>

(* slip: 'drain' does not resume the response *)
FlushOnly ==
    /\ file \in {"live", "ending"}
    /\ opened
    /\ flushed < written
    /\ flushed' = written
    /\ UNCHANGED <<call, timer, netVars, file, opened, written, exists>>

(* buffered chunks reach the file; 'drain' resumes a paused response *)
Flush ==
    /\ file \in {"live", "ending"}
    /\ opened
    /\ flushed < written
    /\ flushed' = written
    /\ response' = IF response = "paused" THEN "flowing" ELSE response
    /\ UNCHANGED <<call, timer, faults, body, framing, received, file, opened, written, exists>>

(* 'finish': succeed.  The stream closes its descriptor afterwards. *)
Finish ==
    /\ call = "pending"
    /\ file = "ending"
    /\ opened
    /\ flushed = written
    /\ file' = "finished"
    /\ timer' = "off"
    /\ call' = "resolved"
    /\ UNCHANGED <<netVars, opened, written, flushed, exists>>

(* 'close' of a finished or a destroyed stream; a stream that is destroyed   *)
(* while open(2) runs closes after it                                       *)
FileCloses ==
    /\ \/ file = "finished"
       \/ file = "doomed" /\ (opened \/ "disk" \in faults)
    /\ file' = "closed"
    /\ call' = IF call = "closing" THEN "removing" ELSE call
    /\ UNCHANGED <<timer, netVars, opened, written, flushed, exists>>

-----------------------------------------------------------------------------
TotalTimeout ==
    /\ "timeout" \in faults
    /\ timer = "armed"
    /\ Fail
    /\ UNCHANGED <<faults, body, framing, received, opened, written, flushed, exists>>

(* fs.rm; its own error is what the promise rejects with *)
RemovePartial ==
    /\ call = "removing"
    /\ call' = "rejected"
    /\ exists' \in IF "rm" \in faults THEN {FALSE, exists} ELSE {FALSE}
    /\ UNCHANGED <<timer, netVars, file, opened, written, flushed>>

DownloadNext ==
    \/ RejectUrl \/ Start \/ NoBody \/ Respond
    \/ \E n \in 1..MaxBody : Data(n)
    \/ ResponseEnds \/ ResponseBreaks
    \/ FileOpens \/ FileFails \/ Flush \/ Finish \/ FileCloses
    \/ TotalTimeout \/ RemovePartial

DownloadSpec == DownloadInit /\ [][DownloadNext]_downloadVars

(* Node fires the timer and completes what it started on the file.  Nothing  *)
(* obliges the server to answer or to send anything, except in the world    *)
(* without faults, where it serves the whole body.                          *)
FairDownloadSpec ==
    /\ DownloadSpec
    /\ WF_downloadVars(TotalTimeout)
    /\ WF_downloadVars(FileOpens) /\ WF_downloadVars(Flush) /\ WF_downloadVars(Finish) /\ WF_downloadVars(FileCloses)
    /\ WF_downloadVars(RemovePartial)
    /\ WF_downloadVars(faults = {} /\ Respond)
    /\ WF_downloadVars(faults = {} /\ \E n \in 1..MaxBody : Data(n))
    /\ WF_downloadVars(faults = {} /\ ResponseEnds)

-----------------------------------------------------------------------------
(* Properties                                                              *)

Settled == call \in {"resolved", "rejected"}

DownloadTypeOK ==
    /\ call \in {"idle", "pending", "closing", "removing", "resolved", "rejected"}
    /\ timer \in {"none", "armed", "off"}
    /\ faults \in Worlds
    /\ body \in Nat
    /\ framing \in Framings
    /\ response \in {"none", "flowing", "paused", "ended", "destroyed"}
    /\ received \in Nat
    /\ file \in {"none", "live", "ending", "finished", "doomed", "closed"}
    /\ opened \in BOOLEAN
    /\ written \in Nat
    /\ flushed \in Nat
    /\ exists \in BOOLEAN

(* The promise resolves only with a file that is whole, on the disk and     *)
(* within the limit, to which nothing is written any more; only a body that *)
(* ends with its connection can be short, which is left to the digest of    *)
(* verifyInstalledBinary.                                                   *)
OnlyWholeFiles ==
    call = "resolved" =>
        /\ exists /\ file \in {"finished", "closed"}
        /\ flushed = received /\ flushed <= Limit
        /\ framing # "close" => flushed = body

(* A rejected download leaves no partial file and no stream that could      *)
(* still create one ("rejecting before delivering any over-budget chunk",   *)
(* removePartial waits for 'close').                                        *)
NothingLeftBehind ==
    /\ call = "rejected" /\ "rm" \notin faults => ~exists
    /\ call = "rejected" => file \in {"none", "closed"}

(* All or nothing: the whole file, or none.                                 *)
WholeOrGone == OnlyWholeFiles /\ NothingLeftBehind

(* What a pending promise waits for comes, whatever the server does: the    *)
(* total timeout is armed, a paused response has bytes on their way to the  *)
(* disk, whose 'drain' resumes it, an ended one has ended its file, and a   *)
(* failure waits for the 'close' of a stream that was destroyed.            *)
NeverStalls ==
    /\ call = "pending" => timer = "armed"
    /\ response = "paused" => file = "live" /\ flushed < written
    /\ call = "pending" /\ response = "ended" => file = "ending"
    /\ call = "closing" => file = "doomed"

(* Not one unit over the limit is ever handed to the file, and nothing is   *)
(* kept running for a promise that is settled, nor one that is pending left *)
(* without the time limit or waiting for nothing.                           *)
WithinBudget ==
    /\ written <= Limit
    /\ framing = "length" /\ body > Limit => written = 0
    /\ Settled => timer # "armed" /\ response \notin {"flowing", "paused"}
    /\ NeverStalls

(* httpsGetFile keeps the promise its callers rely on.  A file is whole when *)
(* it holds everything the response had until it ended, all of the body if  *)
(* its length was announced; a response the client destroyed has no end.    *)
FetchOutcome ==
    IF call \in {"closing", "removing"} THEN "pending"
    ELSE IF call = "resolved" THEN "delivered"
    ELSE IF call = "rejected" THEN "refused" ELSE call

FileOnDisk ==
    IF ~exists THEN "none"
    ELSE IF response = "ended" /\ flushed = received /\ (framing # "close" => flushed = body)
    THEN "whole" ELSE "partial"

Promised == INSTANCE AtomicFetch WITH
    fetch <- FetchOutcome, file <- FileOnDisk, stubborn <- "rm" \in faults

KeepsFetchPromise == Promised!Spec

(* "total time budget": every download settles, whatever the server does.   *)
EveryDownloadSettles ==
    call = "pending" ~> Settled

(* A body within the limit that the server sends whole arrives, however     *)
(* often the file makes the response wait.                                  *)
EveryServedFileArrives ==
    (call = "pending" /\ body <= Limit /\ faults = {}) ~> (call = "resolved")
==============================================================================
