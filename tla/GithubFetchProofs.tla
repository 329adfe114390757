-------------------------- MODULE GithubFetchProofs --------------------------
(***************************************************************************)
(* Proofs about GithubFetch: the deadline, the retry rule and what a       *)
(* permanent failure does, for every choice of the limits and delays.  And *)
(* about TagLookup, whose pages it fetches: what the lookup says is true of *)
(* the list, for every list, page size, cap and change of the list.        *)
(***************************************************************************)
EXTENDS TagLookup, SequenceTheorems, TLAPS

(* No attempt but the last one failed for good.                             *)
OnlyTransientBefore(n) == \A i \in 1..n : failures[i] \in Transient

PhaseInv ==
    /\ call # "idle" => attempt >= 1 /\ lastActivity <= now /\ now <= deadline + Late
    /\ call = "idle" => attempt = 0 /\ failures = << >>
    /\ call \in {"waiting", "reading", "resolved"} =>
          Len(failures) = attempt - 1 /\ OnlyTransientBefore(attempt - 1)
    /\ call = "delaying" =>
          /\ Len(failures) = attempt /\ OnlyTransientBefore(attempt)
          /\ attempt < MaxAttempts
          /\ wake = failedAt + Backoff(attempt)
          /\ wake < deadline
          /\ now <= wake + Late
    /\ call = "thrown" => Len(failures) = attempt /\ OnlyTransientBefore(attempt - 1)

IInv == TypeOK /\ PhaseInv

(* 250 * 2 ** (attempt - 1), capped, is a natural number. *)
LEMMA BackoffType == ASSUME NEW n \in 1..MaxAttempts PROVE Backoff(n) \in Nat
<1>1. 2^(n - 1) \in Nat
  BY PowerAssumption
<1>2. \A k \in Nat : Lesser(Base * k, Cap) \in Nat
  BY FetchAssumption DEF Lesser
<1> QED
  BY <1>1, <1>2 DEF Backoff

(* What a failed attempt leaves behind. *)
LEMMA FailStep ==
  ASSUME IInv, Requesting, NEW kind \in Kinds, Fail(kind)
  PROVE  IInv'
<1> USE FetchAssumption DEF IInv, TypeOK, PhaseInv, Requesting, Kinds
<1> DEFINE delay == RetryDelay(kind, attempt)
<1>1. attempt \in 1..MaxAttempts /\ Backoff(attempt) \in Nat
  BY BackoffType
<1>2. failures' = Append(failures, kind) /\ failures' \in Seq(Kinds) /\ Len(failures') = attempt
  BY <1>1 DEF Fail
<1>3. \A i \in 1..(attempt - 1) : failures'[i] \in Transient
  BY <1>1, <1>2 DEF OnlyTransientBefore
<1>4. failures'[attempt] = kind
  BY <1>1, <1>2
<1>5. CASE attempt >= MaxAttempts \/ delay < 0 \/ delay >= deadline - now
  BY <1>1, <1>2, <1>3, <1>5 DEF Fail, OnlyTransientBefore
<1>6. CASE ~(attempt >= MaxAttempts \/ delay < 0 \/ delay >= deadline - now)
  <2>1. kind \in Transient /\ delay = Backoff(attempt)
    BY <1>6 DEF RetryDelay
  <2>2. \A i \in 1..attempt : failures'[i] \in Transient
    BY <1>1, <1>3, <1>4, <2>1
  <2>3. call' = "delaying" /\ wake' = now + Backoff(attempt) /\ failedAt' = now
    BY <1>6, <2>1 DEF Fail
  <2>4. wake' < deadline /\ attempt < MaxAttempts
    BY <1>1, <1>6, <2>1, <2>3
  <2>5. UNCHANGED <<now, deadline, attempt, lastActivity, idleLimit>>
    BY DEF Fail
  <2>6. Backoff(attempt)' = Backoff(attempt)
    BY <2>5 DEF Backoff, Lesser
  <2> QED
    BY <1>1, <1>2, <2>2, <2>3, <2>4, <2>5, <2>6 DEF OnlyTransientBefore
<1> QED
  BY <1>5, <1>6

(* Every step preserves the invariant: a retry is the only way back to      *)
(* "waiting", and it is decided by RetryDelay and the deadline.             *)
LEMMA StepIInv == IInv /\ [Next]_vars => IInv'
<1> USE FetchAssumption DEF IInv, TypeOK, PhaseInv, OnlyTransientBefore, Backoff
<1> SUFFICES ASSUME IInv, [Next]_vars PROVE IInv'
  OBVIOUS
<1>1. CASE Fetch
  BY <1>1 DEF Fetch, Request, Lesser
<1>2. CASE Refused
  BY <1>2, FailStep DEF Refused, Requesting
<1>3. CASE Answered
  BY <1>3 DEF Answered
<1>4. CASE Chunk
  BY <1>4 DEF Chunk
<1>5. CASE BodyComplete
  BY <1>5 DEF BodyComplete
<1>6. CASE BodyBroken
  BY <1>6, FailStep DEF BodyBroken, Requesting, Kinds
<1>7. CASE Timeout
  BY <1>7, FailStep DEF Timeout, Kinds
<1>8. CASE Wake
  BY <1>8 DEF Wake, Request, Lesser
<1>9. CASE Tick
  <2>1. now' = now + 1
    BY <1>9 DEF Tick
  <2>2. UNCHANGED <<call, deadline, attempt, lastActivity, idleLimit, wake, failures, failedAt>>
    BY <1>9 DEF Tick
  <2>3. CASE Requesting
    <3>1. now < deadline + Late
      BY <1>9, <2>3 DEF Tick, RequestTimers
    <3> QED
      BY <2>1, <2>2, <2>3, <3>1 DEF Requesting
  <2>4. CASE call = "delaying"
    <3>1. now < wake + Late
      BY <1>9, <2>4 DEF Tick, Requesting
    <3> QED
      BY <2>1, <2>2, <2>4, <3>1
  <2> QED
    BY <1>9, <2>3, <2>4 DEF Tick, Active
<1>10. CASE UNCHANGED vars
  BY <1>10 DEF vars
<1> QED
  BY <1>1, <1>2, <1>3, <1>4, <1>5, <1>6, <1>7, <1>8, <1>9, <1>10 DEF Next

(* The invariant the properties below rest on. *)
THEOREM Invariance == Spec => []IInv
<1>1. Init => IInv
  BY FetchAssumption DEF Init, IInv, TypeOK, PhaseInv
<1> QED
  BY <1>1, StepIInv, PTL DEF Spec

(* The variables of githubFetch keep their types; attempt its bound. *)
THEOREM TypeCorrect == Spec => []TypeOK
<1>1. IInv => TypeOK
  BY DEF IInv
<1> QED
  BY <1>1, Invariance, PTL

(* githubFetch is over by its deadline, for every limit and every server.   *)
THEOREM OverByTheDeadlineHolds == Spec => []OverByTheDeadline
<1>1. IInv => OverByTheDeadline
  BY DEF IInv, PhaseInv, OverByTheDeadline
<1> QED
  BY <1>1, Invariance, PTL

(* githubFetch never retries a permanent failure and always throws it.      *)
THEOREM PermanentFailureIsFinalHolds == Spec => []PermanentFailureIsFinal
<1>1. IInv => PermanentFailureIsFinal
  <2> SUFFICES ASSUME IInv PROVE PermanentFailureIsFinal
    OBVIOUS
  <2>1. ASSUME NEW i \in 1..Len(failures), failures[i] \notin Transient
        PROVE  i = Len(failures) /\ call = "thrown"
    BY <2>1 DEF IInv, TypeOK, PhaseInv, OnlyTransientBefore
  <2>2. call = "thrown" => Len(failures) = attempt
    BY DEF IInv, PhaseInv
  <2> QED
    BY <2>1, <2>2 DEF PermanentFailureIsFinal
<1> QED
  BY <1>1, Invariance, PTL

(* What RetriesInTime says of a step.                                       *)
Retry ==
    attempt' > attempt /\ attempt > 0 =>
        /\ failures[attempt] \in Transient
        /\ now >= failedAt + Backoff(attempt)
        /\ now < deadline
        /\ now + idleLimit' <= deadline

LEMMA RetryStep == IInv /\ [Next]_vars => [Retry]_vars
<1> SUFFICES ASSUME IInv, Next, attempt' > attempt, attempt > 0 PROVE Retry
  BY DEF Retry
<1>1. ~Fetch
  BY DEF Fetch, IInv, PhaseInv
<1>2. ~(Refused \/ BodyBroken \/ Timeout)
  BY DEF Refused, BodyBroken, Timeout, Fail, IInv, TypeOK
<1>3. ~(Answered \/ Chunk \/ BodyComplete \/ Tick)
  BY DEF Answered, Chunk, BodyComplete, Tick, IInv, TypeOK
<1>4. Wake
  BY <1>1, <1>2, <1>3 DEF Next
<1>5. call = "delaying" /\ now >= wake /\ now < deadline /\ idleLimit' = Lesser(Idle, deadline - now)
  BY <1>4 DEF Wake, Request, IInv, TypeOK
<1>6. failures[attempt] \in Transient
  BY <1>5 DEF IInv, TypeOK, PhaseInv, OnlyTransientBefore
<1> QED
  BY <1>5, <1>6, FetchAssumption DEF IInv, TypeOK, PhaseInv, Lesser, Retry

(* Every retry of githubFetch waits its delay and fits before the deadline. *)
THEOREM RetriesInTimeHolds == Spec => RetriesInTime
<1>1. IInv /\ [Next]_vars => [Retry]_vars
  BY RetryStep
<1> QED
  BY <1>1, Invariance, PTL DEF Spec, RetriesInTime, Retry
-----------------------------------------------------------------------------
(* TagLookup: the commit of a tag                                           *)

TagShas(l) == {l[i].sha : i \in Indexes(l, Tag)}

LookupTypeOK ==
    /\ list \in Seq(Entries)
    /\ lookup \in {"idle", "fetching", "found", "fallback"}
    /\ cursor \in 1..MaxPages
    /\ page # None => page.tags \in Seq(Entries)
    /\ lookup # "fallback" => reason = "none"
    /\ lookup = "idle" => page = None /\ cursor = 1

(* The tag was published with a commit ever since the lookup began, and no  *)
(* other tag was removed.                                                   *)
Throughout == ~removed /\ None \notin held

(* No tag of that name lies within the first n entries.                     *)
Beyond(n) == \A i \in Indexes(list, Tag) : i > n

(* held is what the tag has pointed to; what the served page says of the tag *)
(* was true of the list, and without a match the tag lies beyond the page.  *)
PageInv ==
    lookup = "fetching" =>
        /\ ShaOf(list, Tag) \subseteq held
        /\ page # None => TagShas(page.tags) \ {None} \subseteq held
        /\ Throughout => Beyond((cursor - 1) * PerPage)
        /\ Throughout /\ call \in {"reading", "resolved"} /\ page # None /\ Matches = {} =>
              page.next /\ Beyond(cursor * PerPage)

LookupIInv == IInv /\ LookupTypeOK /\ PageInv /\ LookupIsTrue

(* A slice of the list holds its entries from a + 1 to b, as far as they go. *)
LEMMA SliceFacts ==
    ASSUME NEW l \in Seq(Entries), NEW a \in Nat, NEW b \in Nat
    PROVE  LET s == SubSeq(l, a + 1, Lesser(b, Len(l))) IN
           /\ s \in Seq(Entries)
           /\ \A j \in DOMAIN s : \E i \in DOMAIN l : s[j] = l[i]
           /\ \A i \in DOMAIN l : a < i /\ i <= b => \E j \in DOMAIN s : s[j] = l[i]
<1> DEFINE n == Len(l)
           m == Lesser(b, n)
           s == SubSeq(l, a + 1, m)
<1>1. n \in Nat /\ DOMAIN l = 1..n /\ \A i \in 1..n : l[i] \in Entries
  OBVIOUS
<1>2. m \in Nat /\ m <= n /\ m <= b /\ (m = b \/ m = n)
  BY <1>1 DEF Lesser
<1> HIDE DEF n, m
<1>3. \A i \in (a + 1)..m : l[i] \in Entries
  BY <1>1, <1>2
<1>4. /\ s \in Seq(Entries)
      /\ Len(s) = IF a + 1 <= m THEN m - (a + 1) + 1 ELSE 0
      /\ \A j \in 1..(m - (a + 1) + 1) : s[j] = l[(a + 1) + j - 1]
  <2>1. a + 1 \in Int /\ m \in Int
    BY <1>2
  <2> QED
    BY <1>3, <2>1, SubSeqProperties
<1> HIDE DEF s
<1>5. DOMAIN s = 1..Len(s) /\ Len(s) \in Nat
  BY <1>4
<1>6. ASSUME NEW j \in DOMAIN s PROVE \E i \in DOMAIN l : s[j] = l[i]
  <2>1. j \in 1..(m - a) /\ a + j \in 1..n
    BY <1>1, <1>2, <1>4, <1>5
  <2>2. s[j] = l[a + j]
    BY <1>2, <1>4, <2>1
  <2> QED
    BY <1>1, <2>1, <2>2
<1>7. ASSUME NEW i \in DOMAIN l, a < i, i <= b PROVE \E j \in DOMAIN s : s[j] = l[i]
  <2>1. i \in Nat /\ i <= m /\ i - a \in 1..(m - a) /\ a + (i - a) = i
    BY <1>1, <1>2, <1>7
  <2>2. i - a \in DOMAIN s
    BY <1>2, <1>4, <1>5, <2>1
  <2>3. (a + 1) + (i - a) - 1 = i /\ m - (a + 1) + 1 = m - a
    BY <1>2, <2>1
  <2>4. s[i - a] = l[i]
    BY <1>4, <2>1, <2>3
  <2> QED
    BY <2>2, <2>4
<1> QED
  BY <1>4, <1>6, <1>7 DEF s, m, n

(* After an insertion every entry but the new one is an earlier one, which   *)
(* has not moved towards the front.                                          *)
LEMMA InsertFacts ==
    ASSUME NEW l \in Seq(Entries), NEW i \in 1..(Len(l) + 1), NEW e \in Entries
    PROVE  /\ Insert(l, i, e) \in Seq(Entries)
           /\ \A k \in DOMAIN Insert(l, i, e) :
                 \/ Insert(l, i, e)[k] = e
                 \/ \E j \in DOMAIN l : j <= k /\ Insert(l, i, e)[k] = l[j]
<1> DEFINE n == Len(l)
           before == SubSeq(l, 1, i - 1)
           after == SubSeq(l, i, n)
           front == before \o <<e>>
<1>1. n \in Nat /\ DOMAIN l = 1..n /\ i \in 1..(n + 1) /\ \A j \in 1..n : l[j] \in Entries
  OBVIOUS
<1>2. Insert(l, i, e) = front \o after
  BY DEF Insert
<1> HIDE DEF n
<1>3. /\ before \in Seq(Entries) /\ Len(before) = i - 1
      /\ \A j \in 1..(i - 1) : before[j] = l[j]
  BY <1>1
<1>4. /\ after \in Seq(Entries) /\ Len(after) = (n - i) + 1
      /\ \A j \in 1..((n - i) + 1) : after[j] = l[i + j - 1]
  BY <1>1
<1>5. <<e>> \in Seq(Entries) /\ Len(<<e>>) = 1 /\ <<e>>[1] = e
  OBVIOUS
<1> HIDE DEF before, after
<1>6. /\ front \in Seq(Entries)
      /\ Len(front) = Len(before) + 1
      /\ \A j \in 1..(Len(before) + 1) :
            front[j] = IF j <= Len(before) THEN before[j] ELSE <<e>>[j - Len(before)]
  <2>1. /\ front \in Seq(Entries)
        /\ Len(front) = Len(before) + Len(<<e>>)
        /\ \A j \in 1..(Len(before) + Len(<<e>>)) :
              front[j] = IF j <= Len(before) THEN before[j] ELSE <<e>>[j - Len(before)]
    BY <1>3, <1>5, ConcatProperties, Zenon
  <2> QED
    BY <1>5, <2>1, Zenon
<1>7. \A j \in 1..i : front[j] = IF j <= i - 1 THEN l[j] ELSE e
  <2> SUFFICES ASSUME NEW j \in 1..i PROVE front[j] = IF j <= i - 1 THEN l[j] ELSE e
    OBVIOUS
  <2>1. i \in Nat /\ j \in Nat /\ Len(before) = i - 1 /\ j \in 1..(Len(before) + 1)
    BY <1>1, <1>3
  <2>2. CASE j <= i - 1
    BY <2>1, <2>2, <1>3, <1>6
  <2>3. CASE ~(j <= i - 1)
    <3>1. j - Len(before) = 1
      BY <2>1, <2>3
    <3> QED
      BY <2>1, <2>3, <3>1, <1>5, <1>6
  <2> QED
    BY <2>2, <2>3
<1>8. Len(front) = i
  BY <1>1, <1>3, <1>6
<1> HIDE DEF front
<1>9. /\ front \o after \in Seq(Entries)
      /\ Len(front \o after) = Len(front) + Len(after)
      /\ \A j \in 1..(Len(front) + Len(after)) :
            (front \o after)[j] = IF j <= Len(front) THEN front[j] ELSE after[j - Len(front)]
  BY <1>4, <1>6, ConcatProperties, Zenon
<1>10. Len(front) + Len(after) = n + 1
  BY <1>1, <1>4, <1>8
<1>11. DOMAIN (front \o after) = 1..(n + 1)
  BY <1>9, <1>10
<1>12. ASSUME NEW k \in 1..(n + 1)
       PROVE  \/ (front \o after)[k] = e
              \/ \E j \in 1..n : j <= k /\ (front \o after)[k] = l[j]
  <2>1. k \in Nat /\ i \in Nat /\ n \in Nat /\ 1 <= k /\ k <= n + 1 /\ 1 <= i /\ i <= n + 1
    BY <1>1
  <2>2. (front \o after)[k] = IF k <= i THEN front[k] ELSE after[k - i]
    BY <1>8, <1>9, <1>10
  <2>3. CASE k <= i
    BY <2>1, <2>2, <2>3, <1>7
  <2>4. CASE ~(k <= i)
    <3>1. k - i \in 1..((n - i) + 1) /\ i + (k - i) - 1 = k - 1 /\ k - 1 \in 1..n /\ k - 1 <= k
      BY <2>1, <2>4
    <3>2. after[k - i] = l[k - 1]
      BY <1>4, <3>1
    <3> QED
      BY <2>2, <2>4, <3>1, <3>2
  <2> QED
    BY <2>3, <2>4
<1> QED
  BY <1>1, <1>2, <1>9, <1>11, <1>12

(* What a change of the list keeps: publishing and re-pointing tags moves no *)
(* entry towards the front.                                                  *)
LEMMA ChangeFacts ==
    ASSUME LookupIInv, TagsChange
    PROVE  /\ list' \in Seq(Entries)
           /\ ShaOf(list, Tag)' \subseteq held' /\ held \subseteq held'
           /\ Throughout' => Throughout
           /\ \A n \in Nat : Throughout' /\ Beyond(n) => Beyond(n)'
<1> USE LookupAssumption
<1>1. list \in Seq(Entries) /\ ShaOf(list, Tag) \subseteq held
  BY DEF LookupIInv, LookupTypeOK, PageInv, TagsChange
<1>2. held' = held \cup ShaOf(list', Tag)
  BY DEF TagsChange
<1>3. ASSUME NEW i \in 1..(Len(list) + 1), NEW n \in Names, NEW s \in Shas, Indexes(list, n) = {},
             list' = Insert(list, i, [name |-> n, sha |-> s]), UNCHANGED removed
      PROVE  /\ list' \in Seq(Entries)
             /\ Throughout' => Throughout
             /\ \A m \in Nat : Throughout' /\ Beyond(m) => Beyond(m)'
  <2> DEFINE e == [name |-> n, sha |-> s]
  <2>1. e \in Entries /\ e.name = n
    BY DEF Entries
  <2> HIDE DEF e
  <2>2. list' = Insert(list, i, e)
    BY <1>3 DEF e
  <2>3. /\ list' \in Seq(Entries)
        /\ \A k \in DOMAIN list' : list'[k] = e \/ \E j \in DOMAIN list : j <= k /\ list'[k] = list[j]
    BY <1>1, <2>1, <2>2, InsertFacts
  <2>4. Throughout' => Throughout
    BY <1>2, <1>3 DEF Throughout
  <2>5. ASSUME NEW m \in Nat, Throughout', Beyond(m), NEW k \in Indexes(list', Tag)
        PROVE  k > m
    <3>1. k \in DOMAIN list' /\ list'[k].name = Tag /\ k \in Nat
      BY <2>3, <2>5 DEF Indexes
    <3>2. n # Tag
      BY <1>1, <1>3, <2>4, <2>5 DEF Throughout, ShaOf
    <3>3. PICK j \in DOMAIN list : j <= k /\ list'[k] = list[j]
      BY <2>1, <2>3, <3>1, <3>2
    <3>4. j \in Indexes(list, Tag) /\ j \in Nat
      BY <1>1, <3>1, <3>3 DEF Indexes
    <3> QED
      BY <2>5, <3>1, <3>3, <3>4 DEF Beyond
  <2> QED
    BY <2>3, <2>4, <2>5 DEF Beyond
<1>4. ASSUME NEW i \in DOMAIN list, list' = Delete(list, i), removed' = TRUE
      PROVE  list' \in Seq(Entries) /\ ~Throughout'
  <2>1. SubSeq(list, 1, i - 1) \in Seq(Entries) /\ SubSeq(list, i + 1, Len(list)) \in Seq(Entries)
    BY <1>1
  <2>2. list' \in Seq(Entries)
    BY <1>4, <2>1, ConcatProperties DEF Delete
  <2> QED
    BY <1>4, <2>2 DEF Throughout
<1>5. ASSUME NEW i \in DOMAIN list, NEW s \in Shas, list' = [list EXCEPT ![i].sha = s], UNCHANGED removed
      PROVE  /\ list' \in Seq(Entries)
             /\ Throughout' => Throughout
             /\ \A m \in Nat : Throughout' /\ Beyond(m) => Beyond(m)'
  <2>0. list[i] \in Entries /\ s \in Shas
    BY <1>1
  <2>1. [list[i] EXCEPT !.sha = s] \in Entries /\ [list[i] EXCEPT !.sha = s].name = list[i].name
    <3> DEFINE e == list[i]
    <3>1. e \in [name : Names, sha : Shas \cup {None}]
      BY <2>0 DEF Entries
    <3> HIDE DEF e
    <3>2. [e EXCEPT !.sha = s] \in [name : Names, sha : Shas \cup {None}] /\ [e EXCEPT !.sha = s].name = e.name
      BY <3>1
    <3> QED
      BY <3>2 DEF e, Entries
  <2>2. list' = [list EXCEPT ![i] = [list[i] EXCEPT !.sha = s]]
    BY <1>5
  <2>3. list' \in Seq(Entries)
    BY <1>1, <2>1, <2>2
  <2>4. Indexes(list', Tag) = Indexes(list, Tag)
    BY <1>1, <2>1, <2>2 DEF Indexes
  <2>5. Throughout' => Throughout
    BY <1>2, <1>5 DEF Throughout
  <2>6. Indexes(list, Tag)' = Indexes(list, Tag)
    BY <2>4 DEF Indexes
  <2>7. \A m \in Nat : Beyond(m) => Beyond(m)'
    BY <2>6 DEF Beyond
  <2> QED
    BY <2>3, <2>5, <2>7
<1>6. ShaOf(list, Tag)' \subseteq held' /\ held \subseteq held'
  BY <1>2 DEF ShaOf, Indexes
<1> QED
  BY <1>3, <1>4, <1>5, <1>6 DEF TagsChange

(* What a page says when it is served.                                      *)
LEMMA ServedFacts ==
    ASSUME LookupIInv, PageServed
    PROVE  /\ page' # None => page'.tags \in Seq(Entries)
           /\ page' # None => TagShas(page'.tags) \ {None} \subseteq held
           /\ Throughout /\ page' # None /\ Matches' = {} => page'.next /\ Beyond(cursor * PerPage)
<1> USE LookupAssumption
<1> DEFINE a == (cursor - 1) * PerPage
           b == cursor * PerPage
           s == SubSeq(list, a + 1, Lesser(b, Len(list)))
<1>1. /\ list \in Seq(Entries) /\ cursor \in Nat /\ cursor - 1 \in Nat
      /\ ShaOf(list, Tag) \subseteq held /\ (Throughout => Beyond(a))
  BY DEF LookupIInv, LookupTypeOK, PageInv, PageServed
<1>2. a \in Nat /\ b \in Nat
  BY <1>1
<1>3. page' # None => page'.tags = s /\ page'.next \in {b < Len(list), TRUE}
  BY DEF PageServed, TagsPage
<1> HIDE DEF a, b
<1>4. /\ s \in Seq(Entries)
      /\ \A j \in DOMAIN s : \E i \in DOMAIN list : s[j] = list[i]
      /\ \A i \in DOMAIN list : a < i /\ i <= b => \E j \in DOMAIN s : s[j] = list[i]
  BY <1>1, <1>2, SliceFacts
<1> HIDE DEF s
<1>5. TagShas(s) \subseteq held
  BY <1>1, <1>4 DEF TagShas, ShaOf, Indexes
<1>6. ASSUME Throughout, page' # None, Matches' = {}
      PROVE  page'.next /\ Beyond(b)
  <2>1. \A i \in Indexes(list, Tag) : i \in DOMAIN list /\ list[i].name = Tag /\ list[i].sha # None
    BY <1>1, <1>6 DEF Throughout, ShaOf, Indexes
  <2>2. Matches' = {j \in DOMAIN page'.tags : page'.tags[j].name = Tag /\ page'.tags[j].sha # None}
    BY DEF Matches
  <2>3. \A j \in DOMAIN s : ~(s[j].name = Tag /\ s[j].sha # None)
    BY <1>3, <1>6, <2>2
  <2>4. ASSUME NEW i \in Indexes(list, Tag) PROVE i > b
    BY <1>1, <1>2, <1>4, <1>6, <2>1, <2>3 DEF Beyond
  <2>5. Indexes(list, Tag) # {}
    BY <1>1, <1>6 DEF Throughout, ShaOf
  <2>6. b < Len(list)
    BY <1>1, <1>2, <2>1, <2>4, <2>5
  <2> QED
    BY <1>3, <1>6, <2>4, <2>6 DEF Beyond
<1> QED
  BY <1>3, <1>4, <1>5, <1>6 DEF b

(* The steps that change neither the list nor what is kept of it.           *)
LEMMA UntouchedFacts ==
    ASSUME UNCHANGED <<list, held, removed>>
    PROVE  /\ ShaOf(list, Tag)' = ShaOf(list, Tag) /\ (Throughout' <=> Throughout)
           /\ \A n \in Nat : Beyond(n)' <=> Beyond(n)
  BY DEF ShaOf, Indexes, Throughout, Beyond

(* A call that starts anew is in the state githubFetch begins with.         *)
LEMMA FreshIInv == FreshCall => IInv'
  BY FetchAssumption DEF FreshCall, IInv, TypeOK, PhaseInv

(* Every step of the lookup keeps what githubFetch rests on.                *)
LEMMA LookupKeepsIInv == LookupIInv /\ [LookupNext]_allVars => IInv'
<1> SUFFICES ASSUME LookupIInv, [LookupNext]_allVars PROVE IInv'
  OBVIOUS
<1>1. IInv
  BY DEF LookupIInv
<1>2. [Next]_vars \/ FreshCall
  BY DEF LookupNext, BeginLookup, FetchPage, PageServed, ReadPage, LookupFails, TagsChange, Next,
         FallBack, allVars, vars
<1> QED
  BY <1>1, <1>2, StepIInv, FreshIInv

(* Every step keeps the invariant of the lookup.                            *)
LEMMA LookupStep == LookupIInv /\ [LookupNext]_allVars => LookupIInv'
<1> SUFFICES ASSUME LookupIInv, [LookupNext]_allVars PROVE (LookupTypeOK /\ PageInv /\ LookupIsTrue)'
  BY LookupKeepsIInv DEF LookupIInv
<1> USE LookupAssumption
<1>0. LookupTypeOK /\ PageInv /\ LookupIsTrue
  BY DEF LookupIInv
<1>1. CASE BeginLookup
  <2>1. /\ lookup = "idle" /\ lookup' = "fetching" /\ held' = ShaOf(list, Tag)
        /\ UNCHANGED <<list, cursor, page, reason, sha, removed>>
    BY <1>1 DEF BeginLookup
  <2>2. page = None /\ cursor = 1 /\ reason = "none" /\ list \in Seq(Entries)
    BY <1>0, <2>1 DEF LookupTypeOK
  <2>3. LookupTypeOK' /\ LookupIsTrue'
    BY <1>0, <2>1, <2>2 DEF LookupTypeOK, LookupIsTrue
  <2>4. ShaOf(list, Tag)' = ShaOf(list, Tag) /\ \A i \in Indexes(list, Tag)' : i > 0
    BY <2>1, <2>2 DEF ShaOf, Indexes
  <2>5. Beyond((cursor - 1) * PerPage)'
    BY <2>1, <2>2, <2>4 DEF Beyond
  <2> QED
    BY <2>1, <2>2, <2>3, <2>4, <2>5 DEF PageInv
<1>2. CASE FetchPage
  <2>1. UNCHANGED lookupVars /\ lookup = "fetching"
    BY <1>2 DEF FetchPage
  <2>2. UNCHANGED <<list, lookup, cursor, page, reason, sha, held, removed>>
    BY <2>1 DEF lookupVars
  <2>3. call' \in {"reading", "resolved"} => call = "reading"
    BY <1>2 DEF FetchPage, Fetch, Request, Refused, Chunk, BodyComplete, BodyBroken, Timeout, Fail, Wake, Tick,
         Active, Requesting
  <2>4. LookupTypeOK' /\ LookupIsTrue'
    BY <1>0, <2>2 DEF LookupTypeOK, LookupIsTrue, Indexes
  <2>5. /\ ShaOf(list, Tag)' = ShaOf(list, Tag) /\ Matches' = Matches /\ (Throughout' <=> Throughout)
        /\ (page # None => TagShas(page.tags)' = TagShas(page.tags))
    BY <2>2 DEF ShaOf, Indexes, Matches, TagShas, Throughout
  <2>6. /\ Beyond((cursor - 1) * PerPage)' <=> Beyond((cursor - 1) * PerPage)
        /\ Beyond(cursor * PerPage)' <=> Beyond(cursor * PerPage)
    BY <2>2 DEF Beyond, Indexes
  <2> QED
    BY <1>0, <2>1, <2>2, <2>3, <2>4, <2>5, <2>6 DEF PageInv
<1>3. CASE PageServed
  <2>1. /\ lookup = "fetching" /\ call' = "reading"
        /\ UNCHANGED <<list, lookup, cursor, reason, sha, held, removed>>
    BY <1>3 DEF PageServed, Answered
  <2>2. /\ page' # None => page'.tags \in Seq(Entries)
        /\ page' # None => TagShas(page'.tags) \ {None} \subseteq held
        /\ Throughout /\ page' # None /\ Matches' = {} => page'.next /\ Beyond(cursor * PerPage)
    BY <1>3, ServedFacts
  <2>3. LookupTypeOK' /\ LookupIsTrue'
    BY <1>0, <2>1, <2>2 DEF LookupTypeOK, LookupIsTrue, Indexes
  <2>4. ShaOf(list, Tag)' = ShaOf(list, Tag) /\ (Throughout' <=> Throughout)
    BY <2>1 DEF ShaOf, Indexes, Throughout
  <2>5. /\ Beyond((cursor - 1) * PerPage)' <=> Beyond((cursor - 1) * PerPage)
        /\ Beyond(cursor * PerPage)' <=> Beyond(cursor * PerPage)
    BY <2>1 DEF Beyond, Indexes
  <2>6. page' # None => TagShas(page.tags)' = TagShas(page'.tags)
    BY DEF TagShas, Indexes
  <2> QED
    BY <1>0, <2>1, <2>2, <2>3, <2>4, <2>5, <2>6 DEF PageInv
<1>4. CASE ReadPage
  <2>1. /\ lookup = "fetching" /\ call = "resolved" /\ cursor \in 1..MaxPages
        /\ UNCHANGED <<list, page, held, removed>>
    BY <1>0, <1>4 DEF ReadPage, LookupTypeOK
  <2>2. (Throughout' <=> Throughout) /\ Indexes(list, Tag)' = Indexes(list, Tag) /\ reason = "none"
    BY <1>0, <2>1 DEF Throughout, Indexes, LookupTypeOK
  <2>3. CASE page = None
    BY <1>0, <1>4, <2>1, <2>2, <2>3 DEF ReadPage, FallBack, LookupTypeOK, PageInv, LookupIsTrue
  <2>4. CASE page # None /\ Matches # {}
    <3>1. lookup' = "found" /\ sha' \in {page.tags[i].sha : i \in Matches} /\ UNCHANGED <<cursor, reason>>
      BY <1>4, <2>4 DEF ReadPage
    <3>2. sha' \in TagShas(page.tags) /\ sha' # None
      BY <3>1 DEF Matches, TagShas, Indexes
    <3>3. sha' \in held' \ {None}
      BY <1>0, <2>1, <2>4, <3>2 DEF PageInv
    <3> QED
      BY <1>0, <2>1, <2>2, <3>1, <3>3 DEF LookupTypeOK, PageInv, LookupIsTrue
  <2>5. CASE page # None /\ Matches = {} /\ page.next /\ cursor < MaxPages
    <3>1. call' = "idle" /\ cursor' = cursor + 1 /\ UNCHANGED <<lookup, reason, sha>>
      BY <1>4, <2>5 DEF ReadPage, FreshCall
    <3>2. Throughout => Beyond(cursor * PerPage)
      BY <1>0, <2>1, <2>5 DEF PageInv
    <3>3. cursor' - 1 = cursor /\ cursor' \in 1..MaxPages
      BY <2>1, <2>5, <3>1
    <3>4. Throughout' => Beyond((cursor - 1) * PerPage)'
      BY <2>1, <2>2, <3>2, <3>3 DEF Beyond
    <3>5. ShaOf(list, Tag)' = ShaOf(list, Tag)
      BY <2>1 DEF ShaOf, Indexes
    <3>6. page # None => TagShas(page.tags)' = TagShas(page.tags)
      BY <2>1 DEF TagShas, Indexes
    <3>7. PageInv'
      BY <1>0, <2>1, <3>1, <3>4, <3>5, <3>6 DEF PageInv
    <3>8. LookupTypeOK' /\ LookupIsTrue'
      BY <1>0, <2>1, <2>2, <3>1, <3>3 DEF LookupTypeOK, LookupIsTrue
    <3> QED
      BY <3>7, <3>8
  <2>6. CASE page # None /\ Matches = {} /\ ~(page.next /\ cursor < MaxPages)
    <3>1. lookup' = "fallback" /\ reason' = "not-found" /\ UNCHANGED <<cursor, sha>>
      BY <1>4, <2>6 DEF ReadPage, FallBack
    <3>2. Throughout => page.next /\ Beyond(cursor * PerPage)
      BY <1>0, <2>1, <2>6 DEF PageInv
    <3>3. Throughout => cursor = MaxPages
      BY <2>1, <2>6, <3>2
    <3>4. Throughout' => \A i \in Indexes(list, Tag)' : i > MaxPages * PerPage
      BY <2>2, <3>2, <3>3 DEF Beyond
    <3> QED
      BY <1>0, <2>1, <3>1, <3>4 DEF LookupTypeOK, PageInv, LookupIsTrue, Throughout
  <2> QED
    BY <2>3, <2>4, <2>5, <2>6
<1>5. CASE LookupFails
  <2>1. /\ lookup = "fetching" /\ call = "thrown" /\ lookup' = "fallback" /\ reason' = failures[Len(failures)]
        /\ UNCHANGED <<list, page, held, removed, cursor, sha>>
    BY <1>5 DEF LookupFails, FallBack
  <2>2. failures \in Seq(Kinds) /\ Len(failures) >= 1
    BY <2>1 DEF LookupIInv, IInv, TypeOK, PhaseInv
  <2>3. reason' \in Kinds
    BY <2>1, <2>2
  <2>4. reason' # "not-found"
    BY <2>3 DEF Kinds
  <2> QED
    BY <1>0, <2>1, <2>4 DEF LookupTypeOK, PageInv, LookupIsTrue
<1>6. CASE TagsChange
  <2>1. /\ lookup = "fetching" /\ UNCHANGED <<lookup, cursor, page, reason, sha>> /\ call' = call
    BY <1>6 DEF TagsChange, vars
  <2>2. /\ list' \in Seq(Entries)
        /\ ShaOf(list, Tag)' \subseteq held' /\ held \subseteq held'
        /\ Throughout' => Throughout
        /\ \A n \in Nat : Throughout' /\ Beyond(n) => Beyond(n)'
    BY <1>6, ChangeFacts
  <2>3. cursor \in 1..MaxPages /\ reason = "none"
    BY <1>0, <2>1 DEF LookupTypeOK
  <2>4. (cursor - 1) * PerPage \in Nat /\ cursor * PerPage \in Nat
    BY <2>3
  <2>5. /\ Throughout' /\ Beyond((cursor - 1) * PerPage) => Beyond((cursor - 1) * PerPage)'
        /\ Throughout' /\ Beyond(cursor * PerPage) => Beyond(cursor * PerPage)'
    <3>2. \A n \in Nat : Throughout' /\ Beyond(n) => \A i \in Indexes(list, Tag)' : i > n
      BY <2>2 DEF Beyond
    <3>3. /\ Throughout' /\ Beyond((cursor - 1) * PerPage) =>
                \A i \in Indexes(list, Tag)' : i > (cursor - 1) * PerPage
          /\ Throughout' /\ Beyond(cursor * PerPage) => \A i \in Indexes(list, Tag)' : i > cursor * PerPage
      BY <2>4, <3>2
    <3> QED
      BY <2>1, <3>3 DEF Beyond
  <2>6. Matches' = Matches /\ (page # None => TagShas(page.tags)' = TagShas(page.tags))
    BY <2>1 DEF Matches, TagShas, Indexes
  <2>7. PageInv'
    BY <1>0, <2>1, <2>2, <2>5, <2>6 DEF PageInv
  <2> QED
    BY <1>0, <2>1, <2>2, <2>3, <2>7 DEF LookupTypeOK, LookupIsTrue
<1>7. CASE UNCHANGED allVars
  <2>1. UNCHANGED <<list, lookup, cursor, page, reason, sha, held, removed, call>>
    BY <1>7 DEF allVars, lookupVars, vars
  <2>2. LookupTypeOK' /\ LookupIsTrue'
    BY <1>0, <2>1 DEF LookupTypeOK, LookupIsTrue, Indexes
  <2>3. PageInv'
    BY <1>0, <2>1 DEF PageInv, ShaOf, Indexes, TagShas, Matches, Throughout, Beyond
  <2> QED
    BY <2>2, <2>3
<1> QED
  BY <1>1, <1>2, <1>3, <1>4, <1>5, <1>6, <1>7 DEF LookupNext

(* What the lookup rests on: what githubFetch does on every page, and what  *)
(* the pages read so far say of the list.                                   *)
THEOREM LookupInvariance == LookupSpec => []LookupIInv
<1>1. LookupInit => LookupIInv
  <2> SUFFICES ASSUME LookupInit PROVE LookupIInv
    OBVIOUS
  <2>1. IInv
    BY FetchAssumption DEF LookupInit, Init, IInv, TypeOK, PhaseInv
  <2>2. LookupTypeOK /\ PageInv /\ LookupIsTrue
    BY LookupAssumption DEF LookupInit, LookupTypeOK, PageInv, LookupIsTrue
  <2> QED
    BY <2>1, <2>2 DEF LookupIInv
<1> QED
  BY <1>1, LookupStep, PTL DEF LookupSpec

(* resolveTagCommit: for every list of tags, page size, cap and change of   *)
(* the list between two pages, a commit it returns is one the tag had, and  *)
(* "not found" is said of a tag published throughout only beyond the cap or *)
(* after a removal.                                                         *)
THEOREM LookupIsTrueHolds == LookupSpec => []LookupIsTrue
<1>1. LookupIInv => LookupIsTrue
  BY DEF LookupIInv
<1> QED
  BY <1>1, LookupInvariance, PTL

(* Every request of the lookup is a githubFetch of its own, over by its own *)
(* deadline.                                                                *)
THEOREM EveryPageIsOverByTheDeadline == LookupSpec => []OverByTheDeadline
<1>1. LookupIInv => OverByTheDeadline
  BY DEF LookupIInv, IInv, PhaseInv, OverByTheDeadline
<1> QED
  BY <1>1, LookupInvariance, PTL

(* And each of them retries only in time.                                   *)
THEOREM EveryPageRetriesInTime == LookupSpec => RetriesInTime
<1>1. LookupIInv /\ [LookupNext]_allVars => [Retry]_vars
  <2> SUFFICES ASSUME LookupIInv, [LookupNext]_allVars PROVE [Retry]_vars
    OBVIOUS
  <2>1. IInv
    BY DEF LookupIInv
  <2>2. CASE [Next]_vars
    BY <2>1, <2>2, RetryStep
  <2>3. CASE FreshCall
    BY <2>1, <2>3 DEF FreshCall, Retry, IInv, TypeOK
  <2> QED
    BY <2>2, <2>3 DEF LookupNext, BeginLookup, FetchPage, PageServed, ReadPage, LookupFails, TagsChange, Next,
       FallBack, allVars, vars
<1> QED
  BY <1>1, LookupInvariance, PTL DEF LookupSpec, RetriesInTime, Retry
=============================================================================
