----------------------------- MODULE GithubFetch -----------------------------
(***************************************************************************)
(* githubFetch of src/github.ts: up to MAX_ATTEMPTS requests (requestOnce) *)
(* under one deadline, each with an idle timeout and a hard timer, and a   *)
(* growing delay before a retry.                                           *)
(*                                                                         *)
(* Time is a counter; a timer fires when it is due or up to Late ticks     *)
(* after.  An answer and a timer that are due together come in any order.  *)
(* A request that is settled ignores its later events (settled guard), so  *)
(* only the request of the current attempt has actions.                    *)
(***************************************************************************)
EXTENDS Integers, Sequences

CONSTANTS
    MaxAttempts,   \* MAX_ATTEMPTS
    Overall,       \* OVERALL_TIMEOUT_MS
    Idle,          \* REQUEST_TIMEOUT_MS
    Base, Cap,     \* the first retry delay and the longest
    Late           \* bound: how late the event loop may run a timer

ASSUME FetchAssumption ==
    /\ MaxAttempts \in Nat \ {0}
    /\ Overall \in Nat \ {0}
    /\ Idle \in Nat \ {0}
    /\ Base \in Nat
    /\ Cap \in Nat
    /\ Late \in Nat

(* True of every MaxAttempts; the provers know nothing of ^ by themselves. *)
ASSUME PowerAssumption == \A n \in 1..MaxAttempts : 2^(n - 1) \in Nat

VARIABLES
    now,
    call,          \* "idle", "waiting", "reading", "delaying", "resolved", "thrown"
    deadline,
    attempt,
    lastActivity,  \* when the connection was last active
    idleLimit,     \* the timeout option of the current request
    wake,          \* when the delay before the next attempt ends
    failures,      \* the kind of every attempt's error; the last is lastError
    failedAt       \* when the last attempt failed (history)

vars == <<now, call, deadline, attempt, lastActivity, idleLimit, wake, failures, failedAt>>

Kinds == {"network", "timeout", "server", "rate-limit", "http"}
Transient == {"network", "server", "timeout"}
Requesting == call \in {"waiting", "reading"}
Active == Requesting \/ call = "delaying"

Lesser(a, b) == IF a < b THEN a ELSE b

Init ==
    /\ now = 0
    /\ call = "idle"
    /\ deadline = 0
    /\ attempt = 0
    /\ lastActivity = 0
    /\ idleLimit = 0
    /\ wake = 0
    /\ failures = << >>
    /\ failedAt = 0

-----------------------------------------------------------------------------
(* requestOnce starts: connection, idle timeout and hard timer at once      *)
Request(n, end) ==
    /\ call' = "waiting"
    /\ attempt' = n
    /\ lastActivity' = now
    /\ idleLimit' = Lesser(Idle, end - now)

Fetch ==
    /\ call = "idle"
    /\ deadline' = now + Overall
    /\ Request(1, now + Overall)
    /\ UNCHANGED <<now, wake, failures, failedAt>>

Backoff(n) == Lesser(Base * 2^(n - 1), Cap)

(* slip: every kind of failure is retried *)
RetryDelayOfAny(kind, n) == Backoff(n)

(* -1: the failure is not retried *)
RetryDelay(kind, n) == IF kind \in Transient THEN Backoff(n) ELSE -1

(* slip: the attempts alone decide *)
FailWhateverTheDeadline(kind) ==
    LET delay == RetryDelay(kind, attempt) IN
    /\ failures' = Append(failures, kind)
    /\ failedAt' = now
    /\ IF attempt >= MaxAttempts \/ delay < 0
       THEN call' = "thrown" /\ UNCHANGED wake
       ELSE call' = "delaying" /\ wake' = now + delay
    /\ UNCHANGED <<now, deadline, attempt, lastActivity, idleLimit>>

(* the catch block: throw, or wait for the next attempt *)
Fail(kind) ==
    LET delay == RetryDelay(kind, attempt) IN
    /\ failures' = Append(failures, kind)
    /\ failedAt' = now
    /\ IF attempt >= MaxAttempts \/ delay < 0 \/ delay >= deadline - now
       THEN call' = "thrown" /\ UNCHANGED wake
       ELSE call' = "delaying" /\ wake' = now + delay
    /\ UNCHANGED <<now, deadline, attempt, lastActivity, idleLimit>>

(* The request itself                                                       *)

(* an unsafe URL, a connection that fails, or a status other than 200 *)
Refused ==
    /\ call = "waiting"
    /\ \E kind \in Kinds \ {"timeout"} : Fail(kind)

Answered ==
    /\ call = "waiting"
    /\ call' = "reading"
    /\ lastActivity' = now
    /\ UNCHANGED <<now, deadline, attempt, idleLimit, wake, failures, failedAt>>

Chunk ==
    /\ call = "reading"
    /\ lastActivity' = now
    /\ UNCHANGED <<now, call, deadline, attempt, idleLimit, wake, failures, failedAt>>

BodyComplete ==
    /\ call = "reading"
    /\ call' = "resolved"
    /\ UNCHANGED <<now, deadline, attempt, lastActivity, idleLimit, wake, failures, failedAt>>

(* too long, incomplete, or reset: consumeResponse rejects, or the request  *)
(* reports the broken connection first                                      *)
BodyBroken ==
    /\ call = "reading"
    /\ \E kind \in {"http", "network"} : Fail(kind)

(* when the timers of the current request are due *)
RequestTimers == {lastActivity + idleLimit, deadline}

Timeout ==
    /\ Requesting
    /\ \E t \in RequestTimers : now >= t
    /\ Fail("timeout")

(* the delay is over: the next attempt, or none when no time is left *)
Wake ==
    /\ call = "delaying"
    /\ now >= wake
    /\ \/ now < deadline /\ Request(attempt + 1, deadline)
       \/ now >= deadline /\ call' = "thrown" /\ UNCHANGED <<attempt, lastActivity, idleLimit>>
    /\ UNCHANGED <<now, deadline, wake, failures, failedAt>>

(* time passes unless a timer is as late as timers get *)
Tick ==
    /\ Active
    /\ \A t \in (IF Requesting THEN RequestTimers ELSE {wake}) : now < t + Late
    /\ now' = now + 1
    /\ UNCHANGED <<call, deadline, attempt, lastActivity, idleLimit, wake, failures, failedAt>>

Next ==
    \/ Fetch \/ Refused \/ Answered \/ Chunk \/ BodyComplete \/ BodyBroken
    \/ Timeout \/ Wake \/ Tick

Spec == Init /\ [][Next]_vars

-----------------------------------------------------------------------------
(* Properties                                                              *)

TypeOK ==
    /\ now \in Nat
    /\ call \in {"idle", "waiting", "reading", "delaying", "resolved", "thrown"}
    /\ deadline \in Nat
    /\ attempt \in 0..MaxAttempts
    /\ lastActivity \in Nat
    /\ idleLimit \in Nat
    /\ wake \in Nat
    /\ failures \in Seq(Kinds)
    /\ failedAt \in Nat

(* "Performs a bounded GitHub HTTPS GET": whatever the server drips, and    *)
(* however the retries fall, the call is over by its deadline, but for the  *)
(* lateness of one timer.                                                   *)
OverByTheDeadline ==
    call # "idle" => now <= deadline + Late

(* "retrying only transient failures": a rate limit or a refusal is always  *)
(* the last failure, and the one the caller sees (resolveVersion warns by   *)
(* its kind), and what is thrown has a failure to report.                   *)
PermanentFailureIsFinal ==
    /\ \A i \in 1..Len(failures) : failures[i] \notin Transient =>
          i = Len(failures) /\ call = "thrown"
    /\ call = "thrown" => Len(failures) = attempt

(* A retry follows a transient failure, after its whole delay and only      *)
(* while time is left, and its idle timeout is cut to that time.            *)
RetriesInTime ==
    [][attempt' > attempt /\ attempt > 0 =>
          /\ failures[attempt] \in Transient
          /\ now >= failedAt + Backoff(attempt)
          /\ now < deadline
          /\ now + idleLimit' <= deadline]_vars
==============================================================================
