------------------------------ MODULE RunCheck -------------------------------
(***************************************************************************)
(* runCheck of src/runner.ts: one child process started with a time bound, *)
(* its two output pipes, the timeout and SIGKILL timers, the forwarded     *)
(* cancellation signals, and the promise the call settles.  It runs        *)
(* `stellar-canary check`, `stellar-canary version`, `cargo --version` and *)
(* `cargo install`.                                                        *)
(*                                                                         *)
(* Every handler is one action (the JavaScript event loop runs a handler   *)
(* to its end); the order in which timers, data, exit, close and           *)
(* cancellation arrive is free.  Time is not counted: an armed timer may   *)
(* fire at any later moment.  Output comes in units; of stderr the n-th    *)
(* that the child writes is n, so that a text says which of them it holds. *)
(***************************************************************************)
EXTENDS Integers, Sequences, FiniteSets

CONSTANTS
    Timeouts,      \* the timeoutMs arguments considered
    MaxTimerMs,    \* Node's setTimeout limit
    StdoutLimit,   \* MAX_STDOUT_CAPTURE_BYTES
    StderrLimit,   \* MAX_STDERR_CAPTURE_BYTES
    Notice,        \* length of STDERR_DROPPED_NOTICE
    MaxChunk,      \* the largest chunk one 'data' event carries
    MaxStderr,     \* bound: how much the child writes to stderr
    MaxCancels,    \* bound: how many signals the workflow runner sends
    Heirs          \* whether a descendant may outlive the child holding its pipes

ASSUME RunCheckAssumption ==
    /\ Timeouts \subseteq Int
    /\ MaxTimerMs \in Nat
    /\ StdoutLimit \in Nat
    /\ StderrLimit \in Nat
    /\ Notice \in Nat
    /\ Notice <= StderrLimit
    /\ MaxChunk \in Nat
    /\ MaxStderr \in Nat
    /\ MaxCancels \in Nat
    /\ Heirs \subseteq BOOLEAN

VARIABLES
    (* the world outside the call *)
    proc,            \* the child: "none", "failed" (did not spawn), "running", "exited"
    stubborn,        \* the child ignores SIGINT and SIGTERM
    heir,            \* a descendant of the child keeps the write ends of its pipes
    signalled,       \* signals the running child has received
    exitedBy,        \* how it ended: "none", "code", or the signal that ended it
    pipes,           \* the output streams that are still open in the Action
    cancels,         \* signals the workflow runner has sent to the Action
    stdoutSeen,      \* how much stdout 'data' events have carried (history)
    (* the locals of runCheck *)
    call,            \* the promise: "idle", "pending", or how it was settled
    timeoutTimer,    \* timeoutHandle: "none", "armed", "fired", "cleared"
    killTimers,      \* the SIGKILL timers that will still fire, by who armed them
    sigkillHandle,   \* the one sigkillHandle refers to ("none": undefined)
    forwarding,      \* forwardSignal is installed on SIGINT and SIGTERM
    timedOut,
    stdoutExceeded,
    stdoutBytes,
    stderrBytes,
    stderr,          \* the retained text
    stderrTruncated

envVars == <<proc, stubborn, heir, signalled, exitedBy, pipes, cancels, stdoutSeen>>
outVars == <<stdoutBytes, stderrBytes, stderr, stderrTruncated>>
timerVars == <<timeoutTimer, killTimers, sigkillHandle, forwarding>>
vars == <<envVars, call, timerVars, timedOut, stdoutExceeded, outVars>>

Signals == {"SIGINT", "SIGTERM"}             \* SIGNALS_TO_FORWARD
Streams == {"stdout", "stderr"}
Armers == {"timeout", "overflow"}            \* the two places that arm a SIGKILL timer
Settlements == {"invalid", "spawnError", "overflow", "timeout", "result"}
Settled == call \in Settlements

(* Node's child.kill delivers nothing once the child has exited *)
Kill(sig) == signalled' = IF proc = "running" THEN signalled \cup {sig} ELSE signalled

Init ==
    /\ proc = "none"
    /\ stubborn \in BOOLEAN
    /\ heir \in Heirs
    /\ signalled = {}
    /\ exitedBy = "none"
    /\ pipes = {}
    /\ cancels = 0
    /\ stdoutSeen = 0
    /\ call = "idle"
    /\ timeoutTimer = "none"
    /\ killTimers = {}
    /\ sigkillHandle = "none"
    /\ forwarding = FALSE
    /\ timedOut = FALSE
    /\ stdoutExceeded = FALSE
    /\ stdoutBytes = 0
    /\ stderrBytes = 0
    /\ stderr = << >>
    /\ stderrTruncated = FALSE

-----------------------------------------------------------------------------
(* The call: the argument check, then spawn, the timeout timer and the     *)
(* signal listeners in one synchronous stretch.                            *)

RejectInvalid(t) ==
    /\ call = "idle"
    /\ t <= 0 \/ t > MaxTimerMs
    /\ call' = "invalid"
    /\ UNCHANGED <<envVars, timerVars, timedOut, stdoutExceeded, outVars>>

Start(t) ==
    /\ call = "idle"
    /\ t > 0
    /\ t <= MaxTimerMs
    /\ call' = "pending"
    /\ proc' \in {"running", "failed"}
    /\ pipes' = Streams
    /\ timeoutTimer' = "armed"
    /\ forwarding' = TRUE
    /\ UNCHANGED <<stubborn, heir, signalled, exitedBy, cancels, stdoutSeen,
                   killTimers, sigkillHandle, timedOut, stdoutExceeded, outVars>>

(* spawn throws (an argument list too long, say): the promise's executor     *)
(* rejects before a timer or a listener exists.                              *)
SpawnThrows(t) ==
    /\ call = "idle"
    /\ t > 0
    /\ t <= MaxTimerMs
    /\ call' = "spawnError"
    /\ UNCHANGED <<envVars, timerVars, timedOut, stdoutExceeded, outVars>>

(* slip: the timeout is left armed *)
CleanupKeepsTimeout ==
    /\ killTimers' = killTimers \ {sigkillHandle}
    /\ forwarding' = FALSE
    /\ UNCHANGED <<timeoutTimer, sigkillHandle>>

(* cleanup, called once, by whichever handler settles the call *)
Cleanup ==
    /\ timeoutTimer' = IF timeoutTimer = "armed" THEN "cleared" ELSE timeoutTimer
    /\ killTimers' = killTimers \ {sigkillHandle}
    /\ forwarding' = FALSE
    /\ UNCHANGED sigkillHandle

-----------------------------------------------------------------------------
(* Timers                                                                  *)

(* slip: the deadline rejects at once instead of waiting for 'close' *)
OnTimeoutRejects ==
    /\ timeoutTimer = "armed"
    /\ proc # "failed"
    /\ timedOut' = TRUE
    /\ call' = "timeout"
    /\ Kill("SIGTERM")
    /\ timeoutTimer' = "fired"
    /\ forwarding' = FALSE
    /\ UNCHANGED <<proc, stubborn, heir, exitedBy, pipes, cancels, stdoutSeen,
                   killTimers, sigkillHandle, stdoutExceeded, outVars>>

(* slip: SIGTERM without an escalation *)
OnTimeoutTermOnly ==
    /\ timeoutTimer = "armed"
    /\ proc # "failed"
    /\ timeoutTimer' = "fired"
    /\ timedOut' = TRUE
    /\ Kill("SIGTERM")
    /\ UNCHANGED <<proc, stubborn, heir, exitedBy, pipes, cancels, stdoutSeen, call,
                   forwarding, killTimers, sigkillHandle, stdoutExceeded, outVars>>

(* A failed spawn reports 'error' on the next tick, before any timer.      *)
OnTimeout ==
    /\ timeoutTimer = "armed"
    /\ proc # "failed"
    /\ timeoutTimer' = "fired"
    /\ timedOut' = TRUE
    /\ killTimers' = killTimers \cup {"timeout"}
    /\ sigkillHandle' = "timeout"
    /\ Kill("SIGTERM")
    /\ UNCHANGED <<proc, stubborn, heir, exitedBy, pipes, cancels, stdoutSeen,
                   call, forwarding, stdoutExceeded, outVars>>

OnKillTimer(a) ==
    /\ a \in killTimers
    /\ killTimers' = killTimers \ {a}
    /\ Kill("SIGKILL")
    /\ UNCHANGED <<proc, stubborn, heir, exitedBy, pipes, cancels, stdoutSeen, call,
                   timeoutTimer, sigkillHandle, forwarding, timedOut,
                   stdoutExceeded, outVars>>

-----------------------------------------------------------------------------
(* Output                                                                  *)

OnStdoutData(n) ==
    /\ "stdout" \in pipes
    /\ proc \in {"running", "exited"}
    /\ ~stdoutExceeded
    /\ stdoutSeen' = stdoutSeen + n
    /\ \/ /\ stdoutBytes + n <= StdoutLimit
          /\ stdoutBytes' = stdoutBytes + n
          /\ UNCHANGED <<signalled, pipes, killTimers, sigkillHandle, stdoutExceeded>>
       \/ /\ stdoutBytes + n > StdoutLimit
          /\ stdoutExceeded' = TRUE
          /\ pipes' = pipes \ {"stdout"}
          /\ killTimers' = IF sigkillHandle = "none"
                           THEN killTimers \cup {"overflow"} ELSE killTimers
          /\ sigkillHandle' = IF sigkillHandle = "none" THEN "overflow" ELSE sigkillHandle
          /\ Kill("SIGTERM")
          /\ UNCHANGED stdoutBytes
    /\ UNCHANGED <<proc, stubborn, heir, exitedBy, cancels, call, timeoutTimer,
                   forwarding, timedOut, stderrBytes, stderr, stderrTruncated>>

(* what the child writes from one unit of stderr to another *)
Written(first, last) == [k \in 1..(last - first + 1) |-> first + k - 1]

SliceTail(text, max) ==
    IF Len(text) <= max THEN text ELSE SubSeq(text, Len(text) - max + 1, Len(text))

(* slip: the oldest units are kept *)
RetainedStderrHead(text, total) ==
    IF total > StderrLimit /\ 2 * Len(text) > 3 * StderrLimit
    THEN SubSeq(text, 1, StderrLimit) ELSE text

RetainedStderr(text, total) ==
    IF total > StderrLimit /\ 2 * Len(text) > 3 * StderrLimit
    THEN SliceTail(text, StderrLimit) ELSE text

OnStderrData(n) ==
    /\ "stderr" \in pipes
    /\ proc \in {"running", "exited"}
    /\ stderrBytes + n <= MaxStderr
    /\ stderrBytes' = stderrBytes + n
    /\ stderrTruncated' = (stderrTruncated \/ stderrBytes + n > StderrLimit)
    /\ stderr' = RetainedStderr(stderr \o Written(stderrBytes + 1, stderrBytes + n), stderrBytes + n)
    /\ UNCHANGED <<envVars, call, timerVars, timedOut, stdoutExceeded, stdoutBytes>>

(* finalStderr, but for the notice that goes before it once it is truncated *)
FinalStderr == IF stderrTruncated THEN SliceTail(stderr, StderrLimit - Notice) ELSE stderr

-----------------------------------------------------------------------------
(* The process and its pipes (Node and the operating system)               *)

Exit(how) ==
    /\ proc = "running"
    /\ proc' = "exited"
    /\ exitedBy' = how
    /\ UNCHANGED <<stubborn, heir, signalled, pipes, cancels, stdoutSeen, call, timerVars,
                   timedOut, stdoutExceeded, outVars>>

ExitOnItsOwn == Exit("code")

Lethal == signalled \cap (IF stubborn THEN {"SIGKILL"} ELSE Signals \cup {"SIGKILL"})

DieOfSignal == \E sig \in Lethal : Exit(sig)

(* a pipe ends when its last writer is gone *)
PipeEnds(s) ==
    /\ s \in pipes
    /\ \/ proc = "failed"
       \/ proc = "exited" /\ ~heir
    /\ pipes' = pipes \ {s}
    /\ UNCHANGED <<proc, stubborn, heir, signalled, exitedBy, cancels, stdoutSeen, call,
                   timerVars, timedOut, stdoutExceeded, outVars>>

(* the workflow runner cancels the job; the listeners pass the signal on *)
ForwardSignal(sig) ==
    /\ forwarding
    /\ proc # "failed"
    /\ cancels < MaxCancels
    /\ cancels' = cancels + 1
    /\ Kill(sig)
    /\ UNCHANGED <<proc, stubborn, heir, exitedBy, pipes, stdoutSeen, call, timerVars,
                   timedOut, stdoutExceeded, outVars>>

-----------------------------------------------------------------------------
(* Settling the call                                                       *)

OnError ==
    /\ proc = "failed"
    /\ ~Settled
    /\ call' = "spawnError"
    /\ Cleanup
    /\ UNCHANGED <<envVars, timedOut, stdoutExceeded, outVars>>

(* slip: the deadline is looked at before the overflow *)
VerdictTimeoutFirst ==
    IF timedOut THEN "timeout" ELSE IF stdoutExceeded THEN "overflow" ELSE "result"

Verdict ==
    IF stdoutExceeded THEN "overflow" ELSE IF timedOut THEN "timeout" ELSE "result"

(* slip: only a child that ended with an exit code settles the call *)
OnCloseOfCleanExit ==
    /\ proc = "exited"
    /\ pipes = {}
    /\ exitedBy = "code"
    /\ ~Settled
    /\ call' = Verdict
    /\ Cleanup
    /\ UNCHANGED <<envVars, timedOut, stdoutExceeded, outVars>>

(* 'close': the child has exited and both of its streams are closed *)
OnClose ==
    /\ proc = "exited"
    /\ pipes = {}
    /\ ~Settled
    /\ call' = Verdict
    /\ Cleanup
    /\ UNCHANGED <<envVars, timedOut, stdoutExceeded, outVars>>

-----------------------------------------------------------------------------
Next ==
    \/ \E t \in Timeouts : RejectInvalid(t) \/ Start(t) \/ SpawnThrows(t)
    \/ OnTimeout
    \/ \E a \in Armers : OnKillTimer(a)
    \/ \E n \in 1..MaxChunk : OnStdoutData(n) \/ OnStderrData(n)
    \/ ExitOnItsOwn
    \/ DieOfSignal
    \/ \E s \in Streams : PipeEnds(s)
    \/ \E sig \in Signals : ForwardSignal(sig)
    \/ OnError
    \/ OnClose

Spec == Init /\ [][Next]_vars

(* Node fires its timers and delivers its events; a process that received   *)
(* a signal it cannot ignore dies; a pipe nobody writes to ends.  Nothing   *)
(* obliges the child to exit, to write, or the workflow to cancel.          *)
Fairness ==
    /\ WF_vars(OnTimeout)
    /\ \A a \in Armers : WF_vars(OnKillTimer(a))
    /\ WF_vars(DieOfSignal)
    /\ \A s \in Streams : WF_vars(PipeEnds(s))
    /\ WF_vars(OnError)
    /\ WF_vars(OnClose)

FairSpec == Spec /\ Fairness

-----------------------------------------------------------------------------
(* Properties                                                              *)

TypeOK ==
    /\ proc \in {"none", "failed", "running", "exited"}
    /\ stubborn \in BOOLEAN
    /\ heir \in BOOLEAN
    /\ signalled \in SUBSET (Signals \cup {"SIGKILL"})
    /\ exitedBy \in {"none", "code"} \cup Signals \cup {"SIGKILL"}
    /\ pipes \in SUBSET Streams
    /\ cancels \in Nat
    /\ stdoutSeen \in Nat
    /\ call \in {"idle", "pending"} \cup Settlements
    /\ timeoutTimer \in {"none", "armed", "fired", "cleared"}
    /\ killTimers \in SUBSET Armers
    /\ sigkillHandle \in Armers \cup {"none"}
    /\ forwarding \in BOOLEAN
    /\ timedOut \in BOOLEAN
    /\ stdoutExceeded \in BOOLEAN
    /\ stdoutBytes \in Nat
    /\ stderrBytes \in Nat
    /\ stderr \in Seq(Nat)
    /\ stderrTruncated \in BOOLEAN

(* A call that ran a child is settled only when the child is gone: neither  *)
(* a timeout nor an overflow nor a cancelled workflow leaves it behind      *)
(* ("so a cancelled workflow does not leave it orphaned", runCheck's doc).  *)
NoOrphanedChild ==
    Settled => proc \in {"none", "failed", "exited"}

(* The promise resolves only with the complete output of a child that was   *)
(* not timed out: a timer or a chunk arriving between the exit and 'close'  *)
(* still counts, and one arriving later cannot change a settled call.       *)
ResultIsCompleteAndInTime ==
    call = "result" => ~timedOut /\ ~stdoutExceeded /\ stdoutBytes = stdoutSeen

(* SIGTERM is never the end of the story: as long as a child that was told  *)
(* to stop is running, either a SIGKILL timer is armed or SIGKILL was sent; *)
(* and SIGKILL is never sent to a child that was not asked politely first.  *)
EscalationInPlace ==
    proc = "running" =>
        /\ timedOut \/ stdoutExceeded => killTimers # {} \/ "SIGKILL" \in signalled
        /\ killTimers # {} \/ "SIGKILL" \in signalled => "SIGTERM" \in signalled

(* Once the call is settled nothing of it can still act: the timeout timer  *)
(* is disarmed, the listeners are gone, and so is the SIGKILL timer, unless *)
(* both an overflow and the timeout armed one: then the overflow's remains. *)
CleanedUp ==
    Settled =>
        /\ timeoutTimer # "armed"
        /\ ~forwarding
        /\ killTimers # {} => killTimers = {"overflow"} /\ timedOut /\ stdoutExceeded

(* A pending call never waits for the child's good will: the child reports  *)
(* that it did not start, has ended, or faces a timer or a signal that ends *)
(* it, whatever handlers have run before.                                   *)
NeverAbandoned ==
    call = "pending" =>
        \/ proc \in {"failed", "exited"}
        \/ /\ proc = "running"
           /\ timeoutTimer = "armed" \/ killTimers # {} \/ "SIGKILL" \in signalled

(* The child is never left to itself: it is gone when the call is settled,  *)
(* and until then its end is in sight; one that was told to stop has its    *)
(* SIGKILL coming.                                                          *)
Supervised == NoOrphanedChild /\ EscalationInPlace /\ NeverAbandoned

(* A settled call has settled for good: its result is complete and in time, *)
(* and nothing of it is left that could still act.                          *)
SettledForGood == ResultIsCompleteAndInTime /\ CleanedUp

(* What a settled call leaves behind, the forgotten SIGKILL timer too, does *)
(* nothing any more: it settles nothing twice and signals no process.       *)
NothingActsAfterwards == [][Settled => UNCHANGED <<call, proc, signalled>>]_vars

(* What the Action keeps in memory is bounded whatever the child writes and *)
(* in whatever chunks, and the right part of it is reported: all of a       *)
(* stderr within the limit, and of a longer one, with the notice, the       *)
(* newest units that fit beside it, in order ("earlier output is dropped    *)
(* and the tail is retained", MAX_STDERR_CAPTURE_BYTES).                    *)
NewestStderrIsKept ==
    /\ stdoutBytes <= StdoutLimit
    /\ 2 * Len(stderr) <= 3 * StderrLimit
    /\ stderrTruncated <=> stderrBytes > StderrLimit
    /\ FinalStderr = IF stderrBytes <= StderrLimit THEN Written(1, stderrBytes)
                     ELSE Written(stderrBytes - (StderrLimit - Notice) + 1, stderrBytes)

(* runCheck keeps the promise its callers rely on.                          *)
Promise == INSTANCE BoundedCall WITH
    expired <- timedOut, overflowed <- stdoutExceeded

KeepsPromise == Promise!Spec

(* A child that missed its deadline or wrote too much is gone eventually,   *)
(* stubborn or not, and so is every cause for the call to be pending but    *)
(* the pipes.                                                               *)
ChildIsStopped ==
    (timedOut \/ stdoutExceeded) ~> (proc = "exited")

(* Every call settles, even with a child that ignores SIGTERM, as long as   *)
(* no descendant of the child keeps its pipes open.                         *)
EveryUnheldCallSettles ==
    (call = "pending" /\ ~heir) ~> Settled

(* "so it can never hang indefinitely" (cargoInstall): every call settles.  *)
(* A descendant that holds a pipe refutes it.                               *)
EveryCallSettles ==
    (call = "pending") ~> Settled
==============================================================================
