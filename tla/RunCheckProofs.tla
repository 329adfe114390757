--------------------------- MODULE RunCheckProofs ----------------------------
(***************************************************************************)
(* Proofs about RunCheck: type correctness, the inductive invariant that   *)
(* ties timers, pipes, process and promise together, the safety properties *)
(* it implies, and that RunCheck implements BoundedCall.                   *)
(***************************************************************************)
EXTENDS RunCheck, SequenceTheorems, TLAPS

(* Where a call stands decides what there is of it: before it, nothing;     *)
(* while the timer is armed or a stream of a live child is open, it is      *)
(* pending; once settled, the child is gone and every handler is off.       *)
PhaseInv ==
    /\ call = "idle" =>
          /\ proc = "none"
          /\ timeoutTimer = "none"
          /\ sigkillHandle = "none"
          /\ signalled = {}
          /\ ~forwarding
    /\ proc = "none" => pipes = {} /\ call # "pending"
    /\ timeoutTimer = "armed" => call = "pending"
    /\ timeoutTimer = "fired" => timedOut
    /\ call = "pending" => timeoutTimer \in {"armed", "fired"}
    /\ forwarding => call = "pending"
    /\ proc \in {"running", "exited"} /\ pipes # {} => call = "pending"
    /\ proc = "running" => call = "pending"
    /\ proc = "failed" => ~timedOut /\ ~stdoutExceeded
    /\ call = "result" => ~timedOut /\ ~stdoutExceeded

(* Which SIGKILL timers exist, and which of them the handle reaches: the    *)
(* one the timeout armed always, the one the overflow armed as long as the  *)
(* timeout has not fired after it.                                          *)
TimerInv ==
    /\ sigkillHandle = "none" => killTimers = {} /\ ~timedOut /\ ~stdoutExceeded
    /\ sigkillHandle = "overflow" => stdoutExceeded
    /\ timedOut => sigkillHandle = "timeout"
    /\ "timeout" \in killTimers => sigkillHandle = "timeout"
    /\ "overflow" \in killTimers =>
          stdoutExceeded /\ (sigkillHandle = "overflow" \/ timedOut)
    /\ Settled => sigkillHandle \notin killTimers
    /\ proc = "running" /\ sigkillHandle # "none" =>
          /\ killTimers # {} \/ "SIGKILL" \in signalled
          /\ "SIGTERM" \in signalled
    /\ proc = "running" /\ "SIGKILL" \in signalled => sigkillHandle # "none"

(* What is kept of the output: all of stdout, until it is too much, and of   *)
(* stderr the newest units, never fewer than the limit once it is exceeded. *)
OutputInv ==
    /\ ~stdoutExceeded => stdoutBytes = stdoutSeen
    /\ stdoutBytes <= StdoutLimit
    /\ stderrTruncated <=> stderrBytes > StderrLimit
    /\ Len(stderr) <= stderrBytes
    /\ stderr = Written(stderrBytes - Len(stderr) + 1, stderrBytes)
    /\ IF stderrTruncated THEN Len(stderr) >= StderrLimit ELSE Len(stderr) = stderrBytes
    /\ 2 * Len(stderr) <= 3 * StderrLimit

IInv == TypeOK /\ PhaseInv /\ TimerInv /\ OutputInv

-----------------------------------------------------------------------------
(* Retained text                                                            *)

(* The units from one to another, in order.                                 *)
LEMMA WrittenFacts ==
    ASSUME NEW first \in Nat \ {0}, NEW last \in Nat, first <= last + 1
    PROVE  /\ Written(first, last) \in Seq(Nat)
           /\ Len(Written(first, last)) = last - first + 1
           /\ \A k \in 1..(last - first + 1) : Written(first, last)[k] = first + k - 1
<1>1. last - first + 1 \in Nat /\ \A k \in 1..(last - first + 1) : first + k - 1 \in Nat
  OBVIOUS
<1>2. Written(first, last) \in [1..(last - first + 1) -> Nat]
  BY <1>1 DEF Written
<1> QED
  BY <1>1, <1>2 DEF Written

(* What is written next continues what was written before.                  *)
LEMMA WrittenJoin ==
    ASSUME NEW a \in Nat \ {0}, NEW b \in Nat, NEW c \in Nat, a <= b + 1, b <= c
    PROVE  Written(a, b) \o Written(b + 1, c) = Written(a, c)
<1> DEFINE s == Written(a, b)
           t == Written(b + 1, c)
           u == Written(a, c)
<1>1. /\ s \in Seq(Nat) /\ Len(s) = b - a + 1
      /\ \A k \in 1..(b - a + 1) : s[k] = a + k - 1
  BY WrittenFacts
<1>2. /\ t \in Seq(Nat) /\ Len(t) = c - b
      /\ \A k \in 1..(c - b) : t[k] = b + k
  <2>1. b + 1 \in Nat \ {0} /\ b + 1 <= c + 1 /\ c - (b + 1) + 1 = c - b
    OBVIOUS
  <2>2. \A k \in 1..(c - b) : (b + 1) + k - 1 = b + k
    OBVIOUS
  <2> HIDE DEF t
  <2> QED
    BY <2>1, <2>2, WrittenFacts DEF t
<1>3. /\ u \in Seq(Nat) /\ Len(u) = c - a + 1
      /\ \A k \in 1..(c - a + 1) : u[k] = a + k - 1
  BY WrittenFacts
<1> HIDE DEF s, t, u
<1>4. /\ s \o t \in Seq(Nat)
      /\ Len(s \o t) = Len(s) + Len(t) /\ Len(s) + Len(t) = Len(u)
      /\ \A k \in 1..(Len(s) + Len(t)) :
            (s \o t)[k] = IF k <= Len(s) THEN s[k] ELSE t[k - Len(s)]
  <2>1. s \in Seq(Nat) /\ t \in Seq(Nat)
    BY <1>1, <1>2
  <2>2. Len(s) + Len(t) = Len(u)
    BY <1>1, <1>2, <1>3
  <2> QED
    BY <2>1, <2>2, ConcatProperties, Zenon
<1>5. ASSUME NEW k \in 1..Len(u) PROVE (s \o t)[k] = u[k]
  <2>1. (s \o t)[k] = IF k <= Len(s) THEN s[k] ELSE t[k - Len(s)]
    BY <1>4, Zenon
  <2>2. CASE k <= Len(s)
    BY <1>1, <1>3, <2>1, <2>2
  <2>3. CASE ~(k <= Len(s))
    <3>1. k - Len(s) \in 1..(c - b) /\ b + (k - Len(s)) = a + k - 1
      BY <1>1, <1>3, <2>3
    <3> QED
      BY <1>2, <1>3, <2>1, <2>3, <3>1
  <2> QED
    BY <2>2, <2>3
<1>6. s \o t = u
  BY <1>3, <1>4, <1>5, SeqEqual
<1> QED
  BY <1>6 DEF s, t, u

(* sliceTailSafely keeps the newest units.                                  *)
LEMMA WrittenTail ==
    ASSUME NEW a \in Nat \ {0}, NEW b \in Nat, NEW max \in Nat, a <= b + 1
    PROVE  SliceTail(Written(a, b), max) =
              IF b - a + 1 <= max THEN Written(a, b) ELSE Written(b - max + 1, b)
<1> DEFINE s == Written(a, b)
<1>1. /\ s \in Seq(Nat) /\ Len(s) = b - a + 1
      /\ \A k \in 1..(b - a + 1) : s[k] = a + k - 1
  BY WrittenFacts
<1> HIDE DEF s
<1>2. CASE b - a + 1 <= max
  BY <1>1, <1>2 DEF SliceTail, s
<1>3. CASE ~(b - a + 1 <= max)
  <2> DEFINE m == Len(s) - max + 1
             u == SubSeq(s, m, Len(s))
             t == Written(b - max + 1, b)
  <2>1. m \in Nat /\ m >= 1 /\ Len(s) \in Nat /\ Len(s) - m + 1 = max
    BY <1>1, <1>3
  <2>2. /\ u \in Seq(Nat) /\ Len(u) = max
        /\ \A k \in 1..max : u[k] = s[m + k - 1]
    <3>1. \A i \in m..Len(s) : s[i] \in Nat
      BY <1>1, <2>1
    <3> HIDE DEF m
    <3>2. /\ u \in Seq(Nat)
          /\ Len(u) = IF m <= Len(s) THEN Len(s) - m + 1 ELSE 0
          /\ \A i \in 1..(Len(s) - m + 1) : u[i] = s[m + i - 1]
      BY <2>1, <3>1, SubSeqProperties
    <3> QED
      BY <2>1, <3>2
  <2>3. /\ t \in Seq(Nat) /\ Len(t) = max
        /\ \A k \in 1..max : t[k] = (b - max + 1) + k - 1
    <3>1. b - max + 1 \in Nat \ {0} /\ b - max + 1 <= b + 1 /\ b - (b - max + 1) + 1 = max
      BY <1>3
    <3> HIDE DEF t
    <3> QED
      BY <3>1, WrittenFacts DEF t
  <2>4. \A k \in 1..max : s[m + k - 1] = (b - max + 1) + k - 1
    BY <1>1, <1>3
  <2> HIDE DEF m, u, t
  <2>5. u = t
    BY <2>2, <2>3, <2>4, SeqEqual
  <2> QED
    BY <1>1, <1>3, <2>5 DEF SliceTail, s, m, u, t
<1> QED
  BY <1>2, <1>3

(* What is retained of a text is a text. *)
LEMMA RetainedType ==
    ASSUME NEW text \in Seq(Nat), NEW total \in Nat
    PROVE  RetainedStderr(text, total) \in Seq(Nat)
<1>1. CASE Len(text) <= StderrLimit
  BY <1>1 DEF RetainedStderr, SliceTail
<1>2. CASE ~(Len(text) <= StderrLimit)
  <2> DEFINE m == Len(text) - StderrLimit + 1
  <2>1. m \in Int /\ Len(text) \in Int /\ \A i \in m..Len(text) : text[i] \in Nat
    BY <1>2, RunCheckAssumption
  <2>2. SubSeq(text, m, Len(text)) \in Seq(Nat)
    BY <2>1, SubSeqProperties
  <2> QED
    BY <1>2, <2>2 DEF RetainedStderr, SliceTail
<1> QED
  BY <1>1, <1>2

-----------------------------------------------------------------------------
(* Every variable keeps its type.                                           *)
THEOREM TypeCorrect == Spec => []TypeOK
<1> USE RunCheckAssumption DEF Signals, Streams, Armers, Settlements,
        envVars, outVars, timerVars
<1>1. ASSUME Init PROVE TypeOK
  <2>1. heir \in BOOLEAN
    BY <1>1, Zenon DEF Init, RunCheckAssumption
  <2>2. stderr \in Seq(Nat)
    BY <1>1, EmptySeq, Zenon DEF Init
  <2> QED
    BY <1>1, <2>1, <2>2 DEF Init, TypeOK
<1>2. TypeOK /\ [Next]_vars => TypeOK'
  <2> SUFFICES ASSUME TypeOK, [Next]_vars PROVE TypeOK'
    OBVIOUS
  <2>1. ASSUME NEW t \in Timeouts, RejectInvalid(t) PROVE TypeOK'
    BY <2>1 DEF TypeOK, RejectInvalid
  <2>2. ASSUME NEW t \in Timeouts, Start(t) PROVE TypeOK'
    BY <2>2 DEF TypeOK, Start
  <2>3. ASSUME NEW t \in Timeouts, SpawnThrows(t) PROVE TypeOK'
    BY <2>3 DEF TypeOK, SpawnThrows
  <2>4. CASE OnTimeout
    BY <2>4 DEF TypeOK, OnTimeout, Kill
  <2>5. ASSUME NEW a \in Armers, OnKillTimer(a) PROVE TypeOK'
    BY <2>5 DEF TypeOK, OnKillTimer, Kill
  <2>6. ASSUME NEW n \in 1..MaxChunk, OnStdoutData(n) PROVE TypeOK'
    <3>1. stdoutSeen' \in Nat /\ stdoutBytes' \in Nat
      <4>1. stdoutSeen + n \in Nat /\ stdoutBytes + n \in Nat
        BY DEF TypeOK
      <4>2. stdoutSeen' = stdoutSeen + n /\ stdoutBytes' \in {stdoutBytes, stdoutBytes + n}
        BY <2>6, Zenon DEF OnStdoutData
      <4> QED
        BY <4>1, <4>2 DEF TypeOK
    <3>2. stdoutExceeded' \in BOOLEAN
      BY <2>6, Zenon DEF TypeOK, OnStdoutData
    <3>3. pipes' \in SUBSET Streams /\ sigkillHandle' \in Armers \cup {"none"}
      BY <2>6 DEF TypeOK, OnStdoutData
    <3>4. signalled' \in SUBSET (Signals \cup {"SIGKILL"})
      BY <2>6 DEF TypeOK, OnStdoutData, Kill
    <3>5. killTimers' \in SUBSET Armers
      BY <2>6 DEF TypeOK, OnStdoutData
    <3> QED
      BY <2>6, <3>1, <3>2, <3>3, <3>4, <3>5 DEF TypeOK, OnStdoutData
  <2>7. ASSUME NEW n \in 1..MaxChunk, OnStderrData(n) PROVE TypeOK'
    <3>1. stderr' \in Seq(Nat)
      <4>1. stderrBytes + 1 \in Nat \ {0} /\ stderrBytes + n \in Nat /\ stderrBytes + 1 <= stderrBytes + n + 1
        BY DEF TypeOK
      <4>2. Written(stderrBytes + 1, stderrBytes + n) \in Seq(Nat)
        BY <4>1, WrittenFacts
      <4>3. stderr \o Written(stderrBytes + 1, stderrBytes + n) \in Seq(Nat)
        BY <4>2, ConcatProperties DEF TypeOK
      <4>4. stderrBytes + n \in Nat
        BY <4>1
      <4>5. stderr' = RetainedStderr(stderr \o Written(stderrBytes + 1, stderrBytes + n), stderrBytes + n)
        BY <2>7, Zenon DEF OnStderrData
      <4> QED
        BY <4>3, <4>4, <4>5, RetainedType, Zenon
    <3> QED
      BY <2>7, <3>1 DEF TypeOK, OnStderrData
  <2>8. CASE ExitOnItsOwn
    BY <2>8 DEF TypeOK, ExitOnItsOwn, Exit
  <2>9. CASE DieOfSignal
    BY <2>9 DEF TypeOK, DieOfSignal, Lethal, Exit
  <2>10. ASSUME NEW s \in Streams, PipeEnds(s) PROVE TypeOK'
    BY <2>10 DEF TypeOK, PipeEnds
  <2>11. ASSUME NEW sig \in Signals, ForwardSignal(sig) PROVE TypeOK'
    BY <2>11 DEF TypeOK, ForwardSignal, Kill
  <2>12. CASE OnError
    BY <2>12 DEF TypeOK, OnError, Cleanup
  <2>13. CASE OnClose
    BY <2>13 DEF TypeOK, OnClose, Cleanup, Verdict
  <2>14. CASE UNCHANGED vars
    BY <2>14 DEF TypeOK, vars
  <2> QED
    BY <2>1, <2>2, <2>3, <2>4, <2>5, <2>6, <2>7, <2>8, <2>9, <2>10, <2>11, <2>12,
       <2>13, <2>14 DEF Next
<1> QED
  BY <1>1, <1>2, PTL DEF Spec

-----------------------------------------------------------------------------
(* The parts of the invariant, one lemma each, step by step.                *)
LEMMA PhaseStep == TypeOK /\ PhaseInv /\ TimerInv /\ [Next]_vars => PhaseInv'
<1> SUFFICES ASSUME TypeOK, PhaseInv, TimerInv, [Next]_vars PROVE PhaseInv'
  OBVIOUS
<1> USE RunCheckAssumption DEF TypeOK, PhaseInv, TimerInv, Signals, Streams, Armers,
        Settlements, Settled, envVars, outVars, timerVars
<1>1. ASSUME NEW t \in Timeouts, RejectInvalid(t) PROVE PhaseInv'
  BY <1>1 DEF RejectInvalid
<1>2. ASSUME NEW t \in Timeouts, Start(t) PROVE PhaseInv'
  BY <1>2 DEF Start
<1>3. ASSUME NEW t \in Timeouts, SpawnThrows(t) PROVE PhaseInv'
  BY <1>3 DEF SpawnThrows
<1>4. CASE OnTimeout
  BY <1>4 DEF OnTimeout
<1>5. ASSUME NEW a \in Armers, OnKillTimer(a) PROVE PhaseInv'
  BY <1>5 DEF OnKillTimer
<1>6. ASSUME NEW n \in 1..MaxChunk, OnStdoutData(n) PROVE PhaseInv'
  BY <1>6 DEF OnStdoutData
<1>7. ASSUME NEW n \in 1..MaxChunk, OnStderrData(n) PROVE PhaseInv'
  BY <1>7 DEF OnStderrData
<1>8. CASE ExitOnItsOwn
  BY <1>8 DEF ExitOnItsOwn, Exit
<1>9. CASE DieOfSignal
  BY <1>9 DEF DieOfSignal, Exit
<1>10. ASSUME NEW s \in Streams, PipeEnds(s) PROVE PhaseInv'
  BY <1>10 DEF PipeEnds
<1>11. ASSUME NEW sig \in Signals, ForwardSignal(sig) PROVE PhaseInv'
  BY <1>11 DEF ForwardSignal
<1>12. CASE OnError
  BY <1>12 DEF OnError, Cleanup
<1>13. CASE OnClose
  BY <1>13 DEF OnClose, Cleanup, Verdict
<1>14. CASE UNCHANGED vars
  BY <1>14 DEF vars
<1> QED
  BY <1>1, <1>2, <1>3, <1>4, <1>5, <1>6, <1>7, <1>8, <1>9, <1>10, <1>11, <1>12,
     <1>13, <1>14 DEF Next

(* Every step keeps the timers accounted for.                               *)
LEMMA TimerStep == TypeOK /\ PhaseInv /\ TimerInv /\ [Next]_vars => TimerInv'
<1> SUFFICES ASSUME TypeOK, PhaseInv, TimerInv, [Next]_vars PROVE TimerInv'
  OBVIOUS
<1> USE RunCheckAssumption DEF TypeOK, PhaseInv, TimerInv, Signals, Streams, Armers,
        Settlements, Settled, envVars, outVars, timerVars
<1>1. ASSUME NEW t \in Timeouts, RejectInvalid(t) PROVE TimerInv'
  BY <1>1 DEF RejectInvalid
<1>2. ASSUME NEW t \in Timeouts, Start(t) PROVE TimerInv'
  BY <1>2 DEF Start
<1>3. ASSUME NEW t \in Timeouts, SpawnThrows(t) PROVE TimerInv'
  BY <1>3 DEF SpawnThrows
<1>4. CASE OnTimeout
  BY <1>4 DEF OnTimeout, Kill
<1>5. ASSUME NEW a \in Armers, OnKillTimer(a) PROVE TimerInv'
  BY <1>5 DEF OnKillTimer, Kill
<1>6. ASSUME NEW n \in 1..MaxChunk, OnStdoutData(n) PROVE TimerInv'
  <2>1. call = "pending"
    BY <1>6 DEF OnStdoutData
  <2>2. CASE UNCHANGED <<proc, signalled, killTimers, sigkillHandle, timedOut,
                         stdoutExceeded, call>>
    BY <2>2
  <2>3. CASE stdoutExceeded' /\ sigkillHandle = "none"
    BY <1>6, <2>1, <2>3 DEF OnStdoutData, Kill
  <2>4. CASE stdoutExceeded' /\ sigkillHandle # "none"
    BY <1>6, <2>1, <2>4 DEF OnStdoutData, Kill
  <2> QED
    BY <1>6, <2>2, <2>3, <2>4 DEF OnStdoutData
<1>7. ASSUME NEW n \in 1..MaxChunk, OnStderrData(n) PROVE TimerInv'
  BY <1>7 DEF OnStderrData
<1>8. CASE ExitOnItsOwn
  BY <1>8 DEF ExitOnItsOwn, Exit
<1>9. CASE DieOfSignal
  BY <1>9 DEF DieOfSignal, Exit
<1>10. ASSUME NEW s \in Streams, PipeEnds(s) PROVE TimerInv'
  BY <1>10 DEF PipeEnds
<1>11. ASSUME NEW sig \in Signals, ForwardSignal(sig) PROVE TimerInv'
  BY <1>11 DEF ForwardSignal, Kill
<1>12. CASE OnError
  BY <1>12 DEF OnError, Cleanup
<1>13. CASE OnClose
  BY <1>13 DEF OnClose, Cleanup, Verdict
<1>14. CASE UNCHANGED vars
  BY <1>14 DEF vars
<1> QED
  BY <1>1, <1>2, <1>3, <1>4, <1>5, <1>6, <1>7, <1>8, <1>9, <1>10, <1>11, <1>12,
     <1>13, <1>14 DEF Next

(* Every step keeps the retained stderr within what was written.            *)
LEMMA OutputStep == TypeOK /\ OutputInv /\ [Next]_vars => OutputInv'
<1> SUFFICES ASSUME TypeOK, OutputInv, [Next]_vars PROVE OutputInv'
  OBVIOUS
<1> USE RunCheckAssumption DEF TypeOK, OutputInv, envVars, outVars, timerVars
<1>1. ASSUME NEW n \in 1..MaxChunk, OnStdoutData(n) PROVE OutputInv'
  BY <1>1 DEF OnStdoutData
<1>2. ASSUME NEW n \in 1..MaxChunk, OnStderrData(n) PROVE OutputInv'
  <2> DEFINE total == stderrBytes + n
             first == stderrBytes - Len(stderr) + 1
             text == stderr \o Written(stderrBytes + 1, total)
  <2>1. /\ n \in Nat /\ n > 0 /\ total \in Nat /\ stderrBytes <= total
        /\ Len(stderr) \in Nat /\ first \in Nat \ {0} /\ first <= stderrBytes + 1
    OBVIOUS
  <2>2. text = Written(first, total)
    <3>1. stderr = Written(first, stderrBytes)
      OBVIOUS
    <3> HIDE DEF first, total
    <3> QED
      BY <2>1, <3>1, WrittenJoin
  <2>3. Len(text) = Len(stderr) + n
    <3>1. first <= total + 1 /\ total - first + 1 = Len(stderr) + n
      BY <2>1
    <3> HIDE DEF first, total, text
    <3> QED
      BY <2>1, <2>2, <3>1, WrittenFacts
  <2>4. stderrBytes' = total /\ stderr' = RetainedStderr(text, total)
    BY <1>2 DEF OnStderrData
  <2>5. stderrTruncated' <=> total > StderrLimit
    <3>1. stderrTruncated' <=> (stderrBytes > StderrLimit \/ total > StderrLimit)
      BY <1>2, Zenon DEF OnStderrData, OutputInv
    <3>2. stderrBytes > StderrLimit => total > StderrLimit
      OBVIOUS
    <3> QED
      BY <3>1, <3>2
  <2>6. stdoutBytes' = stdoutBytes /\ stdoutSeen' = stdoutSeen
        /\ stdoutExceeded' = stdoutExceeded
    BY <1>2 DEF OnStderrData
  <2>7. total - first + 1 = Len(text) /\ first <= total + 1 /\ Len(text) <= total
    BY <2>1, <2>3
  <2>8. total <= StderrLimit => Len(text) = total
    BY <2>1, <2>3
  <2>9. total > StderrLimit => Len(text) >= StderrLimit
    BY <2>1, <2>3
  <2> HIDE DEF total, first, text
  <2>10. CASE total > StderrLimit /\ 2 * Len(text) > 3 * StderrLimit
    <3>1. stderr' = Written(total - StderrLimit + 1, total)
      <4>1. Len(text) > StderrLimit
        BY <2>1, <2>3, <2>10
      <4>2. SliceTail(text, StderrLimit) = Written(total - StderrLimit + 1, total)
        BY <2>1, <2>2, <2>7, <4>1, WrittenTail
      <4> QED
        BY <2>4, <2>10, <4>2 DEF RetainedStderr
    <3>2. Len(stderr') = StderrLimit
      <4>1. /\ total - StderrLimit + 1 \in Nat \ {0} /\ total - StderrLimit + 1 <= total + 1
            /\ total - (total - StderrLimit + 1) + 1 = StderrLimit
        BY <2>1, <2>10
      <4> QED
        BY <2>1, <3>1, <4>1, WrittenFacts
    <3> QED
      BY <2>1, <2>4, <2>5, <2>6, <2>10, <3>1, <3>2
  <2>11. CASE ~(total > StderrLimit /\ 2 * Len(text) > 3 * StderrLimit)
    <3>1. stderr' = text
      BY <2>4, <2>11 DEF RetainedStderr
    <3>2. first = total - Len(text) + 1 /\ Len(text) \in Nat
      BY <2>1, <2>3, <2>7
    <3>3. 2 * Len(text) <= 3 * StderrLimit
      BY <2>1, <2>8, <2>11, <3>2
    <3>4. stderr' = Written(stderrBytes' - Len(stderr') + 1, stderrBytes')
      BY <2>2, <2>4, <3>1, <3>2, Zenon
    <3>5. IF stderrTruncated' THEN Len(stderr') >= StderrLimit ELSE Len(stderr') = stderrBytes'
      BY <2>1, <2>4, <2>5, <2>8, <2>9, <3>1
    <3>6. Len(stderr') <= stderrBytes' /\ 2 * Len(stderr') <= 3 * StderrLimit
      BY <2>4, <2>7, <3>1, <3>3
    <3> QED
      BY <2>4, <2>5, <2>6, <3>4, <3>5, <3>6
  <2> QED
    BY <2>10, <2>11
<1>3. ASSUME UNCHANGED <<outVars, stdoutExceeded, stdoutSeen>> PROVE OutputInv'
  BY <1>3
<1> QED
  BY <1>1, <1>2, <1>3 DEF Next, vars, RejectInvalid, Start, SpawnThrows, OnTimeout,
     OnKillTimer, ExitOnItsOwn, DieOfSignal, Exit, PipeEnds, ForwardSignal, OnError, OnClose

(* The three together, with the types, are an invariant of the runner.      *)
THEOREM Invariance == Spec => []IInv
<1>1. Init => PhaseInv /\ TimerInv /\ OutputInv
  <2> SUFFICES ASSUME Init PROVE PhaseInv /\ TimerInv /\ OutputInv
    OBVIOUS
  <2>1. PhaseInv /\ TimerInv
    BY DEF Init, PhaseInv, TimerInv, Settled, Settlements
  <2>2. stderr = << >> /\ Len(stderr) = 0 /\ stderrBytes = 0
    BY EmptySeq DEF Init
  <2>3. stderr = Written(stderrBytes - Len(stderr) + 1, stderrBytes)
    <3>1. /\ Written(1, 0) \in Seq(Nat) /\ Len(Written(1, 0)) = 0
      BY WrittenFacts
    <3>2. Written(1, 0) = << >>
      BY <3>1, EmptySeq
    <3> QED
      BY <2>2, <3>2
  <2> QED
    BY <2>1, <2>2, <2>3, RunCheckAssumption DEF Init, OutputInv
<1> QED
  BY <1>1, TypeCorrect, PhaseStep, TimerStep, OutputStep, PTL DEF Spec, IInv

-----------------------------------------------------------------------------
(* A settled call leaves no running child behind.                           *)
THEOREM NoOrphanedChildHolds == Spec => []NoOrphanedChild
<1>1. IInv => NoOrphanedChild
  BY DEF IInv, TypeOK, PhaseInv, NoOrphanedChild, Settled, Settlements
<1> QED
  BY <1>1, Invariance, PTL

(* Whatever handlers have run, a pending call has something ahead of it     *)
(* that ends its child: before the deadline the timer, after it the SIGKILL *)
(* of the one that fired.                                                   *)
THEOREM NeverAbandonedHolds == Spec => []NeverAbandoned
<1>1. IInv => NeverAbandoned
  BY DEF IInv, TypeOK, PhaseInv, TimerInv, NeverAbandoned
<1> QED
  BY <1>1, Invariance, PTL

(* A resolved call carries all the child wrote, in time.                    *)
THEOREM ResultHolds == Spec => []ResultIsCompleteAndInTime
<1>1. IInv => ResultIsCompleteAndInTime
  BY DEF IInv, PhaseInv, OutputInv, ResultIsCompleteAndInTime
<1> QED
  BY <1>1, Invariance, PTL

(* A child told to stop always faces a pending or delivered SIGKILL.        *)
THEOREM EscalationHolds == Spec => []EscalationInPlace
<1>1. IInv => EscalationInPlace
  BY DEF IInv, TypeOK, TimerInv, EscalationInPlace
<1> QED
  BY <1>1, Invariance, PTL

(* A settled call leaves no armed timer and no listener, but for the one    *)
(* SIGKILL timer an overflow followed by a timeout forgets.                 *)
THEOREM CleanedUpHolds == Spec => []CleanedUp
<1>1. IInv => CleanedUp
  BY DEF IInv, TypeOK, PhaseInv, TimerInv, CleanedUp, Settled, Settlements, Armers
<1> QED
  BY <1>1, Invariance, PTL

(* What is captured is bounded, and what is reported of stderr are its       *)
(* newest units, as many as fit: the two cuts, of the retained text and of   *)
(* the final one, never drop more than the notice needs.                    *)
THEOREM NewestStderrIsKeptHolds == Spec => []NewestStderrIsKept
<1>1. IInv => NewestStderrIsKept
  <2> SUFFICES ASSUME IInv PROVE NewestStderrIsKept
    OBVIOUS
  <2> DEFINE first == stderrBytes - Len(stderr) + 1
             max == StderrLimit - Notice
  <2>1. /\ stderrBytes \in Nat /\ Len(stderr) \in Nat /\ Len(stderr) <= stderrBytes
        /\ stderr = Written(first, stderrBytes) /\ stdoutBytes <= StdoutLimit
        /\ stderrTruncated <=> stderrBytes > StderrLimit
        /\ 2 * Len(stderr) <= 3 * StderrLimit
        /\ IF stderrTruncated THEN Len(stderr) >= StderrLimit ELSE Len(stderr) = stderrBytes
    BY DEF IInv, TypeOK, OutputInv
  <2>2. max \in Nat /\ max <= StderrLimit /\ StderrLimit \in Nat
    BY RunCheckAssumption
  <2>3. first \in Nat \ {0} /\ first <= stderrBytes + 1 /\ stderrBytes - first + 1 = Len(stderr)
    BY <2>1
  <2>4. CASE ~stderrTruncated
    <3>1. first = 1
      BY <2>1, <2>4
    <3> QED
      BY <2>1, <2>2, <2>4, <3>1 DEF NewestStderrIsKept, FinalStderr
  <2>5. CASE stderrTruncated
    <3> HIDE DEF first, max
    <3>1. SliceTail(stderr, max) = IF Len(stderr) <= max THEN stderr
                                   ELSE Written(stderrBytes - max + 1, stderrBytes)
      BY <2>1, <2>2, <2>3, WrittenTail
    <3>2. Len(stderr) <= max => Len(stderr) = max
      BY <2>1, <2>2, <2>5
    <3>3. Len(stderr) <= max => first = stderrBytes - max + 1
      BY <2>1, <3>2 DEF first
    <3>4. SliceTail(stderr, max) = Written(stderrBytes - max + 1, stderrBytes)
      BY <2>1, <3>1, <3>3
    <3> QED
      BY <2>1, <2>2, <2>5, <3>4 DEF NewestStderrIsKept, FinalStderr, max
  <2> QED
    BY <2>4, <2>5
<1> QED
  BY <1>1, Invariance, PTL

-----------------------------------------------------------------------------
(* RunCheck implements BoundedCall: initial states map to initial states    *)
(* and every step to a step of the promise or to a stutter.                 *)
THEOREM Refinement == Spec => KeepsPromise
<1>1. Init => Promise!Init
  BY DEF Init, Promise!Init
<1>2. IInv /\ [Next]_vars => [Promise!Next]_(Promise!vars)
  <2> SUFFICES ASSUME IInv, [Next]_vars PROVE [Promise!Next]_(Promise!vars)
    OBVIOUS
  <2> USE DEF Promise!vars, envVars, timerVars
  <2>1. ASSUME NEW t \in Timeouts, RejectInvalid(t) \/ Start(t) \/ SpawnThrows(t)
        PROVE Promise!Begin
    BY <2>1 DEF RejectInvalid, Start, SpawnThrows, Promise!Begin
  <2>2. CASE OnTimeout
    <3>1. Promise!Expire
      BY <2>2 DEF OnTimeout, IInv, PhaseInv, Promise!Expire
    <3> QED
      BY <3>1 DEF Promise!Next
  <2>3. ASSUME NEW n \in 1..MaxChunk, OnStdoutData(n)
        PROVE Promise!Overflow \/ UNCHANGED Promise!vars
    BY <2>3 DEF OnStdoutData, IInv, PhaseInv, Promise!Overflow
  <2>4. CASE OnError
    <3>1. Promise!FailToStart
      BY <2>4 DEF OnError, IInv, TypeOK, PhaseInv, Settled, Settlements, Promise!FailToStart
    <3> QED
      BY <3>1 DEF Promise!Next
  <2>5. CASE OnClose
    <3>1. call = "pending"
      BY <2>5 DEF OnClose, IInv, TypeOK, PhaseInv, Settled, Settlements
    <3>2. Promise!RejectOverflow \/ Promise!RejectTimeout \/ Promise!Resolve
      BY <2>5, <3>1 DEF OnClose, Verdict, Promise!RejectOverflow, Promise!RejectTimeout,
         Promise!Resolve, IInv, TypeOK
    <3> QED
      BY <3>2 DEF Promise!Next
  <2>6. CASE UNCHANGED <<call, timedOut, stdoutExceeded>>
    BY <2>6
  <2> QED
    BY <2>1, <2>2, <2>3, <2>4, <2>5, <2>6 DEF Next, vars, OnKillTimer, OnStderrData,
       ExitOnItsOwn, DieOfSignal, Exit, PipeEnds, ForwardSignal, Promise!Next
<1> QED
  BY <1>1, <1>2, Invariance, PTL DEF Spec, KeepsPromise, Promise!Spec

(* While a child lives the call stands over it: it is not settled, and once *)
(* a bound has been broken the SIGKILL that ends the child is on its way.   *)
THEOREM SupervisedHolds == Spec => []Supervised
<1> QED
  BY NoOrphanedChildHolds, EscalationHolds, NeverAbandonedHolds, PTL DEF Supervised

(* What runCheck leaves behind cannot settle the promise again nor signal a *)
(* process: not the SIGKILL timer that sigkillHandle has lost, not a late   *)
(* event of a pipe.                                                         *)
THEOREM NothingActsAfterwardsHolds == Spec => NothingActsAfterwards
<1>1. IInv /\ [Next]_vars => [Settled => UNCHANGED <<call, proc, signalled>>]_vars
  <2> SUFFICES ASSUME IInv, Next, Settled PROVE UNCHANGED <<call, proc, signalled>>
    OBVIOUS
  <2>1. proc # "running" /\ call \notin {"idle", "pending"} /\ timeoutTimer # "armed" /\ ~forwarding
    BY DEF IInv, PhaseInv, Settled, Settlements
  <2>2. call' = call
    BY <2>1 DEF Next, RejectInvalid, Start, SpawnThrows, OnTimeout, OnKillTimer, OnStdoutData,
       OnStderrData, ExitOnItsOwn, DieOfSignal, Exit, PipeEnds, ForwardSignal, OnError, OnClose
  <2>3. proc' = proc
    BY <2>1 DEF Next, RejectInvalid, Start, SpawnThrows, OnTimeout, OnKillTimer, OnStdoutData,
       OnStderrData, ExitOnItsOwn, DieOfSignal, Exit, PipeEnds, ForwardSignal, OnError, OnClose, envVars
  <2>4. signalled' = signalled
    BY <2>1 DEF Next, RejectInvalid, Start, SpawnThrows, OnTimeout, OnKillTimer, OnStdoutData,
       OnStderrData, ExitOnItsOwn, DieOfSignal, Exit, PipeEnds, ForwardSignal, OnError, OnClose,
       Kill, envVars
  <2> QED
    BY <2>2, <2>3, <2>4
<1> QED
  BY <1>1, Invariance, PTL DEF Spec, NothingActsAfterwards

(* A resolved call has everything and was in time, and a settled call leaves *)
(* no timeout and no forwarding listener behind.                            *)
THEOREM SettledForGoodHolds == Spec => []SettledForGood
<1> QED
  BY ResultHolds, CleanedUpHolds, PTL DEF SettledForGood
==============================================================================
