------------------------- MODULE ArtifactUploadProofs -------------------------
(***************************************************************************)
(* Proofs about ArtifactUpload: type correctness, that what a leg publishes*)
(* is its own, and that everything arrives once when nothing breaks, for   *)
(* any number of legs, labels and attempts, and in every world of faults.  *)
(* And about PullRequestComment: that the comments leave the uploads alone,*)
(* that nobody's comment is written over, and that a job's own one is      *)
(* found, for any number of legs, comments, pages and edits.               *)
(***************************************************************************)
EXTENDS PullRequestComment, FiniteSetTheorems, SequenceTheorems, TLAPS

(* Where a leg stands: what is still to be uploaded has no outcome, and a   *)
(* leg that is done uploads nothing.                                        *)
PhaseInv ==
    \A l \in Legs :
        /\ phase[l] = "report" => outcome[l]["report"].status = "pending"
        /\ phase[l] # "done" => outcome[l]["receipt"].status = "pending"
        /\ phase[l] = "done" => name[l] = None

(* The store holds a name once, and what was reported as uploaded.          *)
StoreInv ==
    /\ \A a, b \in store : a.name = b.name => a = b
    /\ \A l \in Legs, p \in Phases :
          outcome[l][p].status = "uploaded" =>
              [name |-> outcome[l][p].name, leg |-> l, for |-> p] \in store

(* Another name is tried, or published, only when the stable one is taken.  *)
StableInv ==
    /\ \A l \in Legs : phase[l] \in Phases =>
          \/ attempt[l] = 1 /\ (name[l] = None \/ name[l] = Stable(phase[l]))
          \/ attempt[l] > 1 /\ Taken(Stable(phase[l]))
    /\ \A l \in Legs, p \in Phases :
          outcome[l][p].status = "uploaded" /\ outcome[l][p].name # Stable(p) =>
              Taken(Stable(p))

(* Without faults every suffix was drawn by one leg for one upload: a name  *)
(* under way that has one is in nobody's way.  The last attempt has one.    *)
Suffixed(l) == name[l] # None /\ name[l].suffix # None

SuffixInv ==
    faults = {} =>
        /\ \A a \in store : a.name.suffix # None => a.name.suffix <= draws
        /\ \A l \in Legs : Suffixed(l) =>
              /\ name[l].suffix <= draws
              /\ \A a \in store : a.name.suffix # name[l].suffix
              /\ \A k \in Legs \ {l} : Suffixed(k) => name[k].suffix # name[l].suffix
        /\ \A l \in Legs :
              name[l] # None /\ attempt[l] = AttemptsOf(phase[l]) => Suffixed(l)

(* Without faults nothing is stored but what was reported, and nothing is   *)
(* reported but uploads.                                                    *)
QuietInv ==
    faults = {} =>
        /\ \A l \in Legs, p \in Phases : outcome[l][p].status \in {"pending", "uploaded"}
        /\ \A a \in store :
              /\ outcome[a.leg][a.for].status = "uploaded"
              /\ outcome[a.leg][a.for].name = a.name

IInv == TypeOK /\ PhaseInv /\ StoreInv /\ StableInv /\ SuffixInv /\ QuietInv

-----------------------------------------------------------------------------
(* Lemmas                                                                   *)

(* What Finish leaves of the leg and of the others.                         *)
LEMMA FinishFacts ==
    ASSUME TypeOK, NEW l \in Legs, phase[l] \in Phases,
           NEW r \in Outcomes, Finish(l, r)
    PROVE  /\ outcome' \in [Legs -> [Phases -> Outcomes]]
           /\ phase' \in [Legs -> Phases \cup {"done"}]
           /\ attempt' \in [Legs -> 1..MaxAttempts]
           /\ name' \in [Legs -> Names \cup {None}]
           /\ phase'[l] = IF phase[l] = "report" THEN "receipt" ELSE "done"
           /\ attempt'[l] = 1
           /\ name'[l] = None
           /\ outcome'[l][phase[l]] = r
           /\ \A p \in Phases : p # phase[l] => outcome'[l][p] = outcome[l][p]
           /\ \A k \in Legs : k # l =>
                 /\ phase'[k] = phase[k] /\ attempt'[k] = attempt[k]
                 /\ name'[k] = name[k] /\ outcome'[k] = outcome[k]
<1>1. 1 \in 1..MaxAttempts
  BY UploadAssumption
<1>2. outcome[l] \in [Phases -> Outcomes]
  BY DEF TypeOK
<1>3. [outcome[l] EXCEPT ![phase[l]] = r] \in [Phases -> Outcomes]
  BY <1>2
<1>4. outcome' = [outcome EXCEPT ![l] = [outcome[l] EXCEPT ![phase[l]] = r]]
  BY DEF Finish
<1>5. /\ outcome' \in [Legs -> [Phases -> Outcomes]]
      /\ outcome'[l][phase[l]] = r
      /\ \A p \in Phases : p # phase[l] => outcome'[l][p] = outcome[l][p]
      /\ \A k \in Legs : k # l => outcome'[k] = outcome[k]
  BY <1>2, <1>3, <1>4 DEF TypeOK
<1>6. /\ phase' \in [Legs -> Phases \cup {"done"}]
      /\ phase'[l] = IF phase[l] = "report" THEN "receipt" ELSE "done"
      /\ \A k \in Legs : k # l => phase'[k] = phase[k]
  BY DEF Finish, TypeOK, Phases
<1>7. /\ attempt' \in [Legs -> 1..MaxAttempts]
      /\ attempt'[l] = 1
      /\ \A k \in Legs : k # l => attempt'[k] = attempt[k]
  BY <1>1 DEF Finish, TypeOK
<1>8. /\ name' \in [Legs -> Names \cup {None}]
      /\ name'[l] = None
      /\ \A k \in Legs : k # l => name'[k] = name[k]
  BY DEF Finish, TypeOK
<1> QED
  BY <1>5, <1>6, <1>7, <1>8

(* What a refusal leaves when it is not the last.                           *)
LEMMA RetryFacts ==
    ASSUME TypeOK, NEW l \in Legs, phase[l] \in Phases,
           attempt[l] # AttemptsOf(phase[l]), Refused(l)
    PROVE  /\ attempt' \in [Legs -> 1..MaxAttempts]
           /\ name' \in [Legs -> Names \cup {None}]
           /\ attempt'[l] = attempt[l] + 1
           /\ attempt'[l] <= AttemptsOf(phase[l])
           /\ name'[l] = None
           /\ phase' = phase /\ outcome' = outcome
           /\ \A k \in Legs : k # l => attempt'[k] = attempt[k] /\ name'[k] = name[k]
<1>1. /\ attempt' = [attempt EXCEPT ![l] = @ + 1]
      /\ name' = [name EXCEPT ![l] = None]
      /\ phase' = phase /\ outcome' = outcome
  BY DEF Refused
<1>2. attempt[l] \in 1..MaxAttempts /\ attempt[l] <= AttemptsOf(phase[l])
  BY DEF TypeOK
<1>3. AttemptsOf(phase[l]) \in 1..MaxAttempts
  BY UploadAssumption DEF AttemptsOf
<1>4. attempt[l] + 1 \in 1..MaxAttempts /\ attempt[l] + 1 <= AttemptsOf(phase[l])
  BY <1>2, <1>3, UploadAssumption
<1> QED
  BY <1>1, <1>4 DEF TypeOK

(* What is kept is an artifact of the leg, beside all there was.            *)
LEMMA KeptFacts ==
    ASSUME TypeOK, NEW l \in Legs, phase[l] \in Phases, name[l] # None
    PROVE  /\ Kept(l) \subseteq Artifacts
           /\ store \subseteq Kept(l)
           /\ [name |-> name[l], leg |-> l, for |-> phase[l]] \in Kept(l)
           /\ \A a \in Kept(l) : \/ a \in store
                                 \/ a = [name |-> name[l], leg |-> l, for |-> phase[l]]
<1>1. name[l] \in Names
  BY DEF TypeOK
<1> QED
  BY <1>1 DEF Kept, Artifacts, TypeOK

(* The names a leg may try.                                                 *)
LEMMA CandidateFacts ==
    ASSUME TypeOK, NEW l \in Legs, phase[l] \in Phases,
           NEW n \in Candidates(phase[l], attempt[l], LabelOf[l])
    PROVE  /\ n \in Names
           /\ attempt[l] = 1 => n = Stable(phase[l])
           /\ attempt[l] = AttemptsOf(phase[l]) => n.suffix # None
           /\ n.suffix # None => n.suffix \in Unique
           /\ n.suffix # None => n.suffix \in Nat
<1>1. /\ LabelOf[l] \in Labels \cup {None}
      /\ None \notin Nat
      /\ draws \in Nat
      /\ MaxAttempts \in Nat /\ MaxAttempts > 2
  BY UploadAssumption DEF TypeOK
<1>2. Unique \subseteq Nat
  BY <1>1 DEF Unique
<1>3. AttemptsOf(phase[l]) > 1
  BY <1>1 DEF AttemptsOf
<1>4. CASE attempt[l] = 1
  BY <1>1, <1>3, <1>4 DEF Candidates, Stable, Names
<1>5. CASE attempt[l] # 1 /\ phase[l] = "report" /\ attempt[l] = 2 /\ LabelOf[l] # None
  <2>1. n = [for |-> phase[l], label |-> LabelOf[l], suffix |-> None]
    BY <1>5 DEF Candidates
  <2>2. AttemptsOf(phase[l]) # 2
    BY <1>1, <1>5 DEF AttemptsOf
  <2> QED
    BY <2>1, <2>2, <1>1, <1>5 DEF Names
<1>6. CASE attempt[l] # 1 /\ ~(phase[l] = "report" /\ attempt[l] = 2 /\ LabelOf[l] # None)
  <2>1. PICK s \in Unique :
           n = [for |-> phase[l], suffix |-> s,
                label |-> IF phase[l] = "report" THEN LabelOf[l] ELSE None]
    BY <1>6 DEF Candidates
  <2>2. s \in Nat
    BY <1>2
  <2> QED
    BY <2>1, <2>2, <1>1, <1>6 DEF Names
<1> QED
  BY <1>4, <1>5, <1>6

(* The steps of a leg that is uploading: it has a phase.                    *)
LEMMA Uploading ==
    ASSUME IInv, NEW l \in Legs, name[l] # None
    PROVE  phase[l] \in Phases
  BY DEF IInv, PhaseInv, TypeOK

-----------------------------------------------------------------------------
(* The invariant holds initially.                                           *)
LEMMA InitInv == Init => IInv
<1> SUFFICES ASSUME Init PROVE IInv
  OBVIOUS
<1>1. PICK w \in Worlds :
         /\ faults = w.faults
         /\ phase = [l \in Legs |-> IF l \in w.legs THEN "report" ELSE "done"]
  BY DEF Init
<1>2. faults \subseteq FaultKinds /\ MaxAttempts \in Nat /\ MaxAttempts > 2
  BY <1>1, UploadAssumption
<1>3. \A l \in Legs : /\ phase[l] \in {"report", "done"} /\ attempt[l] = 1 /\ name[l] = None
                     /\ \A p \in Phases : outcome[l][p] = Outcome("pending", None)
  BY <1>1 DEF Init
<1>4. TypeOK
  <2>1. phase \in [Legs -> Phases \cup {"done"}]
    BY <1>1 DEF Phases
  <2>2. Outcome("pending", None) \in Outcomes
    BY DEF Outcome, Outcomes
  <2>3. /\ attempt \in [Legs -> 1..MaxAttempts]
        /\ name \in [Legs -> Names \cup {None}]
        /\ outcome \in [Legs -> [Phases -> Outcomes]]
    BY <1>2, <2>2 DEF Init
  <2>4. \A p \in Phases : 1 <= AttemptsOf(p)
    BY <1>2 DEF AttemptsOf
  <2> QED
    BY <1>2, <1>3, <2>1, <2>3, <2>4 DEF Init, TypeOK
<1>5. \A l \in Legs, p \in Phases : outcome[l][p].status = "pending"
  BY <1>3 DEF Outcome
<1>6. PhaseInv
  BY <1>3, <1>5 DEF PhaseInv, Phases
<1>7. StoreInv /\ StableInv /\ SuffixInv /\ QuietInv
  BY <1>3, <1>5 DEF Init, StoreInv, StableInv, SuffixInv, Suffixed, QuietInv
<1> QED
  BY <1>4, <1>6, <1>7 DEF IInv

(* A name is chosen.                                                        *)
LEMMA TryInv ==
    ASSUME IInv, NEW l \in Legs, Try(l)
    PROVE  IInv'
<1>1. PICK n \in Candidates(phase[l], attempt[l], LabelOf[l]) :
         /\ name' = [name EXCEPT ![l] = n]
         /\ draws' = IF n.suffix = draws + 1 THEN draws + 1 ELSE draws
  BY DEF Try
<1>2. /\ phase[l] \in Phases
      /\ UNCHANGED <<faults, store, phase, attempt, outcome>>
      /\ draws \in Nat /\ None \notin Nat
      /\ TypeOK
  BY UploadAssumption DEF Try, IInv, TypeOK
<1>3. /\ n \in Names
      /\ attempt[l] = 1 => n = Stable(phase[l])
      /\ attempt[l] = AttemptsOf(phase[l]) => n.suffix # None
      /\ n.suffix # None => n.suffix \in Unique
      /\ n.suffix # None => n.suffix \in Nat
  BY <1>2, CandidateFacts
<1>4. /\ name'[l] = n
      /\ \A k \in Legs : k # l => name'[k] = name[k]
      /\ draws' \in Nat /\ draws <= draws'
  BY <1>1, <1>2 DEF TypeOK
<1>5. TypeOK'
  BY <1>1, <1>2, <1>3, <1>4 DEF TypeOK, Artifacts, AttemptsOf
<1>6. PhaseInv'
  BY <1>2, <1>4 DEF IInv, PhaseInv, Phases
<1>7. StoreInv' /\ QuietInv'
  BY <1>2 DEF IInv, StoreInv, QuietInv
<1>8. StableInv'
  BY <1>2, <1>3, <1>4 DEF IInv, StableInv, Taken, Stable
<1>9. SuffixInv'
  <2> SUFFICES ASSUME faults' = {} PROVE SuffixInv'
    BY DEF SuffixInv
  <2>1. faults = {} /\ SuffixInv
    BY <1>2 DEF IInv
  <2>2. n.suffix # None => n.suffix = draws + 1 /\ draws' = draws + 1
    BY <1>1, <1>3, <2>1 DEF Unique
  <2>3. \A a \in store : a.name.suffix # None => a.name.suffix \in Nat /\ a.name.suffix <= draws
    BY <1>2, <2>1 DEF SuffixInv, TypeOK, Artifacts, Names
  <2>4. \A k \in Legs : Suffixed(k) => name[k].suffix \in Nat /\ name[k].suffix <= draws
    BY <1>2, <2>1 DEF SuffixInv, TypeOK, Names, Suffixed
  <2>5. \A a \in store' : a.name.suffix # None => a.name.suffix <= draws'
    BY <1>2, <1>4, <2>3
  <2>6. \A k \in Legs : k # l => (Suffixed(k)' <=> Suffixed(k))
    BY <1>4 DEF Suffixed
  <2>7. ASSUME NEW k \in Legs, Suffixed(k)'
        PROVE  /\ name'[k].suffix <= draws'
               /\ \A a \in store' : a.name.suffix # name'[k].suffix
               /\ \A j \in Legs \ {k} : Suffixed(j)' => name'[j].suffix # name'[k].suffix
    <3>1. CASE k = l
      <4>1. name'[k].suffix = draws + 1 /\ draws' = draws + 1
        BY <3>1, <1>4, <2>2, <2>7 DEF Suffixed
      <4>2. \A a \in store' : a.name.suffix # name'[k].suffix
        BY <4>1, <1>2, <2>3
      <4>3. \A j \in Legs \ {k} : Suffixed(j)' => name'[j].suffix # name'[k].suffix
        BY <4>1, <1>2, <1>4, <2>4, <2>6, <3>1
      <4> QED
        BY <4>1, <4>2, <4>3, <1>2
    <3>2. CASE k # l
      <4>1. Suffixed(k) /\ name'[k] = name[k]
        BY <3>2, <2>6, <2>7, <1>4
      <4>2. name[k].suffix \in Nat /\ name[k].suffix <= draws
        BY <4>1, <2>4
      <4>3. \A a \in store' : a.name.suffix # name'[k].suffix
        BY <4>1, <2>1, <1>2 DEF SuffixInv
      <4>4. ASSUME NEW j \in Legs \ {k}, Suffixed(j)' PROVE name'[j].suffix # name'[k].suffix
        <5>1. CASE j = l
          BY <5>1, <4>1, <4>2, <4>4, <1>2, <1>4, <2>2 DEF Suffixed
        <5>2. CASE j # l
          BY <5>2, <4>1, <4>4, <1>4, <2>1, <2>6 DEF SuffixInv
        <5> QED
          BY <5>1, <5>2
      <4> QED
        BY <4>1, <4>2, <4>3, <4>4, <1>2, <1>4
    <3> QED
      BY <3>1, <3>2
  <2>8. ASSUME NEW k \in Legs, name'[k] # None, attempt'[k] = AttemptsOf(phase'[k])
        PROVE  Suffixed(k)'
    BY <2>8, <1>2, <1>3, <1>4, <2>1 DEF SuffixInv, Suffixed
  <2> QED
    BY <2>5, <2>7, <2>8 DEF SuffixInv
<1> QED
  BY <1>5, <1>6, <1>7, <1>8, <1>9 DEF IInv

(* An upload is over, with an artifact or without: what of the invariant    *)
(* depends on the names and phases alone.                                   *)
LEMMA FinishInv ==
    ASSUME IInv, NEW l \in Legs, name[l] # None, NEW r \in Outcomes, Finish(l, r),
           store' = store \/ (store' = Kept(l) /\ ~Taken(name[l])),
           r.status \in {"uploaded", "failed"},
           r.status = "uploaded" => r.name = name[l] /\ store' = Kept(l),
           faults = {} => r.status = "uploaded",
           UNCHANGED <<faults, draws>>
    PROVE  IInv'
<1>1. TypeOK /\ phase[l] \in Phases
  BY Uploading DEF IInv
<1>2. /\ outcome' \in [Legs -> [Phases -> Outcomes]]
      /\ phase' \in [Legs -> Phases \cup {"done"}]
      /\ attempt' \in [Legs -> 1..MaxAttempts]
      /\ name' \in [Legs -> Names \cup {None}]
      /\ phase'[l] = IF phase[l] = "report" THEN "receipt" ELSE "done"
      /\ attempt'[l] = 1
      /\ name'[l] = None
      /\ outcome'[l][phase[l]] = r
      /\ \A p \in Phases : p # phase[l] => outcome'[l][p] = outcome[l][p]
      /\ \A k \in Legs : k # l =>
            /\ phase'[k] = phase[k] /\ attempt'[k] = attempt[k]
            /\ name'[k] = name[k] /\ outcome'[k] = outcome[k]
  BY <1>1, FinishFacts
<1>3. /\ Kept(l) \subseteq Artifacts
      /\ store \subseteq Kept(l)
      /\ [name |-> name[l], leg |-> l, for |-> phase[l]] \in Kept(l)
      /\ \A a \in Kept(l) : \/ a \in store
                            \/ a = [name |-> name[l], leg |-> l, for |-> phase[l]]
  BY <1>1, KeptFacts
<1>4. /\ store \subseteq store' /\ store' \subseteq Artifacts
      /\ \A a \in store' : \/ a \in store
                          \/ a = [name |-> name[l], leg |-> l, for |-> phase[l]]
  BY <1>1, <1>3 DEF TypeOK
<1>5. \A k \in Legs, p \in Phases :
         (k # l \/ p # phase[l]) => outcome'[k][p] = outcome[k][p]
  BY <1>2
<1>6. TypeOK'
  <2>1. \A p \in Phases : 1 <= AttemptsOf(p)
    BY UploadAssumption DEF AttemptsOf
  <2>2. \A k \in Legs : phase'[k] \in Phases => attempt'[k] <= AttemptsOf(phase'[k])
    BY <1>1, <1>2, <2>1 DEF TypeOK
  <2>3. (\A k \in Legs : phase[k] \in Phases => attempt[k] <= AttemptsOf(phase[k]))'
    BY <2>2 DEF AttemptsOf
  <2> QED
    BY <1>1, <1>2, <1>4, <2>3 DEF TypeOK
<1>7. PhaseInv'
  BY <1>1, <1>2, <1>5 DEF IInv, PhaseInv, Phases
<1>8. StoreInv'
  <2>1. \A a, b \in store' : a.name = b.name => a = b
    BY <1>3, <1>4 DEF IInv, StoreInv, Taken
  <2>2. ASSUME NEW k \in Legs, NEW p \in Phases, outcome'[k][p].status = "uploaded"
        PROVE  [name |-> outcome'[k][p].name, leg |-> k, for |-> p] \in store'
    <3>1. CASE k = l /\ p = phase[l]
      BY <3>1, <2>2, <1>2, <1>3
    <3>2. CASE k # l \/ p # phase[l]
      BY <3>2, <2>2, <1>4, <1>5 DEF IInv, StoreInv
    <3> QED
      BY <3>1, <3>2
  <2> QED
    BY <2>1, <2>2 DEF StoreInv
<1>9. StableInv'
  <2>1. \A n : (\E a \in store : a.name = n) => \E a \in store' : a.name = n
    BY <1>4
  <2>2. ASSUME NEW k \in Legs, phase'[k] \in Phases
        PROVE  \/ attempt'[k] = 1 /\ (name'[k] = None \/ name'[k] = Stable(phase[k])')
               \/ attempt'[k] > 1 /\ \E a \in store' : a.name = Stable(phase[k])'
    <3>1. CASE k = l
      BY <3>1, <1>2
    <3>2. CASE k # l
      <4>1. phase'[k] = phase[k] /\ attempt'[k] = attempt[k] /\ name'[k] = name[k]
        BY <3>2, <1>2
      <4>2. \/ attempt[k] = 1 /\ (name[k] = None \/ name[k] = Stable(phase[k]))
            \/ attempt[k] > 1 /\ \E a \in store : a.name = Stable(phase[k])
        BY <4>1, <2>2 DEF IInv, StableInv, Taken
      <4> QED
        BY <4>1, <4>2, <2>1 DEF Stable
    <3> QED
      BY <3>1, <3>2
  <2>3. ASSUME NEW k \in Legs, NEW p \in Phases,
               outcome'[k][p].status = "uploaded", outcome'[k][p].name # Stable(p)
        PROVE  \E a \in store' : a.name = Stable(p)
    <3>1. CASE k = l /\ p = phase[l]
      <4>1. r.status = "uploaded" /\ r.name = name[l] /\ name[l] # Stable(phase[l])
        BY <3>1, <2>3, <1>2
      <4>2. \E a \in store : a.name = Stable(p)
        BY <4>1, <3>1, <1>1 DEF IInv, StableInv, Taken
      <4> QED
        BY <4>2, <2>1
    <3>2. CASE k # l \/ p # phase[l]
      BY <3>2, <2>1, <2>3, <1>5 DEF IInv, StableInv, Taken
    <3> QED
      BY <3>1, <3>2
  <2> QED
    BY <2>2, <2>3 DEF StableInv, Taken, Stable
<1>10. SuffixInv'
  <2> SUFFICES ASSUME faults = {} PROVE SuffixInv'
    BY DEF SuffixInv
  <2>1. SuffixInv /\ draws' = draws
    BY DEF IInv
  <2>2. \A k \in Legs : Suffixed(k)' <=> (k # l /\ Suffixed(k))
    BY <1>2 DEF Suffixed
  <2>3. \A a \in store' : a.name.suffix # None => a.name.suffix <= draws'
    BY <1>4, <2>1 DEF SuffixInv, Suffixed
  <2>4. ASSUME NEW k \in Legs, Suffixed(k)'
        PROVE  /\ name'[k].suffix <= draws'
               /\ \A a \in store' : a.name.suffix # name'[k].suffix
               /\ \A j \in Legs \ {k} : Suffixed(j)' => name'[j].suffix # name'[k].suffix
    <3>1. k # l /\ Suffixed(k) /\ name'[k] = name[k]
      BY <2>2, <2>4, <1>2
    <3>2. \A a \in store' : a.name.suffix # name'[k].suffix
      BY <3>1, <1>4, <2>1 DEF SuffixInv, Suffixed
    <3> QED
      BY <3>1, <3>2, <2>1, <2>2, <1>2 DEF SuffixInv
  <2>5. ASSUME NEW k \in Legs, name'[k] # None, attempt'[k] = AttemptsOf(phase'[k])
        PROVE  Suffixed(k)'
    BY <2>5, <1>2, <2>1 DEF SuffixInv, Suffixed
  <2> QED
    BY <2>3, <2>4, <2>5 DEF SuffixInv
<1>11. QuietInv'
  <2> SUFFICES ASSUME faults = {} PROVE QuietInv'
    BY DEF QuietInv
  <2>1. QuietInv /\ r.status = "uploaded" /\ r.name = name[l]
    BY DEF IInv
  <2>2. \A k \in Legs, p \in Phases : outcome'[k][p].status \in {"pending", "uploaded"}
    BY <1>2, <1>5, <2>1 DEF QuietInv
  <2>3. outcome[l][phase[l]].status = "pending"
    BY <1>1 DEF IInv, PhaseInv, Phases
  <2>4. ASSUME NEW a \in store'
        PROVE  outcome'[a.leg][a.for].status = "uploaded" /\ outcome'[a.leg][a.for].name = a.name
    <3>1. CASE a \in store
      <4>1. a.leg \in Legs /\ a.for \in Phases
        BY <3>1, <1>1 DEF TypeOK, Artifacts
      <4>2. a.leg # l \/ a.for # phase[l]
        BY <3>1, <2>1, <2>3 DEF QuietInv
      <4> QED
        BY <3>1, <4>1, <4>2, <1>5, <2>1 DEF QuietInv
    <3>2. CASE a = [name |-> name[l], leg |-> l, for |-> phase[l]]
      BY <3>2, <1>2, <2>1
    <3> QED
      BY <3>1, <3>2, <1>4
  <2> QED
    BY <2>2, <2>4 DEF QuietInv
<1> QED
  BY <1>6, <1>7, <1>8, <1>9, <1>10, <1>11 DEF IInv

(* A refusal that is not the last: the refused name is taken.               *)
LEMMA RetryInv ==
    ASSUME IInv, NEW l \in Legs, name[l] # None,
           attempt[l] # AttemptsOf(phase[l]), Refused(l),
           \/ store' = store /\ Taken(name[l])
           \/ store' = Kept(l) /\ ~Taken(name[l]) /\ faults # {},
           UNCHANGED <<faults, draws>>
    PROVE  IInv'
<1>1. TypeOK /\ phase[l] \in Phases
  BY Uploading DEF IInv
<1>2. /\ attempt' \in [Legs -> 1..MaxAttempts]
      /\ name' \in [Legs -> Names \cup {None}]
      /\ attempt'[l] = attempt[l] + 1
      /\ attempt'[l] <= AttemptsOf(phase[l])
      /\ name'[l] = None
      /\ phase' = phase /\ outcome' = outcome
      /\ \A k \in Legs : k # l => attempt'[k] = attempt[k] /\ name'[k] = name[k]
  BY <1>1, RetryFacts
<1>3. /\ Kept(l) \subseteq Artifacts
      /\ store \subseteq Kept(l)
      /\ [name |-> name[l], leg |-> l, for |-> phase[l]] \in Kept(l)
      /\ \A a \in Kept(l) : \/ a \in store
                            \/ a = [name |-> name[l], leg |-> l, for |-> phase[l]]
  BY <1>1, KeptFacts
<1>4. /\ store \subseteq store' /\ store' \subseteq Artifacts
      /\ \A a \in store' : \/ a \in store
                          \/ a = [name |-> name[l], leg |-> l, for |-> phase[l]]
      /\ \E a \in store' : a.name = name[l]
  BY <1>1, <1>3 DEF TypeOK, Taken
<1>5. TypeOK'
  <2>1. \A k \in Legs : phase'[k] \in Phases => attempt'[k] <= AttemptsOf(phase[k])'
    BY <1>1, <1>2 DEF TypeOK, AttemptsOf
  <2> QED
    BY <1>1, <1>2, <1>4, <2>1 DEF TypeOK
<1>6. PhaseInv'
  BY <1>1, <1>2 DEF IInv, PhaseInv
<1>7. StoreInv'
  <2>1. \A a, b \in store' : a.name = b.name => a = b
    BY <1>3, <1>4 DEF IInv, StoreInv, Taken
  <2> QED
    BY <2>1, <1>2, <1>4 DEF IInv, StoreInv
<1>8. StableInv'
  <2>1. \A n : (\E a \in store : a.name = n) => \E a \in store' : a.name = n
    BY <1>4
  <2>2. ASSUME NEW k \in Legs, phase'[k] \in Phases
        PROVE  \/ attempt'[k] = 1 /\ (name'[k] = None \/ name'[k] = Stable(phase[k])')
               \/ attempt'[k] > 1 /\ \E a \in store' : a.name = Stable(phase[k])'
    <3>1. CASE k = l
      <4>1. attempt[l] \in Nat /\ attempt[l] >= 1 /\ attempt'[l] > 1
        BY <1>1, <1>2, UploadAssumption DEF TypeOK
      <4>2. CASE attempt[l] = 1
        <5>1. name[l] = Stable(phase[l])
          BY <4>2, <1>1 DEF IInv, StableInv
        <5> QED
          BY <5>1, <4>1, <3>1, <1>2, <1>4 DEF Stable
      <4>3. CASE attempt[l] # 1
        <5>1. \E a \in store : a.name = Stable(phase[l])
          BY <4>3, <1>1 DEF IInv, StableInv, Taken
        <5> QED
          BY <5>1, <4>1, <2>1, <3>1, <1>2 DEF Stable
      <4> QED
        BY <4>2, <4>3
    <3>2. CASE k # l
      BY <3>2, <2>1, <2>2, <1>2 DEF IInv, StableInv, Taken, Stable
    <3> QED
      BY <3>1, <3>2
  <2>3. ASSUME NEW k \in Legs, NEW p \in Phases,
               outcome'[k][p].status = "uploaded", outcome'[k][p].name # Stable(p)
        PROVE  \E a \in store' : a.name = Stable(p)
    BY <2>1, <2>3, <1>2 DEF IInv, StableInv, Taken
  <2> QED
    BY <2>2, <2>3 DEF StableInv, Taken, Stable
<1>9. SuffixInv'
  <2> SUFFICES ASSUME faults = {} PROVE SuffixInv'
    BY DEF SuffixInv
  <2>1. SuffixInv /\ store' = store /\ draws' = draws
    BY DEF IInv
  <2>2. \A k \in Legs : Suffixed(k)' <=> (k # l /\ Suffixed(k))
    BY <1>2 DEF Suffixed
  <2>3. ASSUME NEW k \in Legs, Suffixed(k)'
        PROVE  /\ name'[k].suffix <= draws'
               /\ \A a \in store' : a.name.suffix # name'[k].suffix
               /\ \A j \in Legs \ {k} : Suffixed(j)' => name'[j].suffix # name'[k].suffix
    <3>1. k # l /\ Suffixed(k) /\ name'[k] = name[k]
      BY <2>2, <2>3, <1>2
    <3> QED
      BY <3>1, <2>1, <2>2, <1>2 DEF SuffixInv
  <2>4. ASSUME NEW k \in Legs, name'[k] # None, attempt'[k] = AttemptsOf(phase[k])'
        PROVE  Suffixed(k)'
    BY <2>4, <1>2, <2>1 DEF SuffixInv, Suffixed, AttemptsOf
  <2> QED
    BY <2>1, <2>3, <2>4 DEF SuffixInv
<1>10. QuietInv'
  BY <1>2 DEF IInv, QuietInv
<1> QED
  BY <1>5, <1>6, <1>7, <1>8, <1>9, <1>10 DEF IInv

(* The last refusal: it does not happen when there are no faults, since the *)
(* last name has a suffix of its own.                                       *)
LEMMA LastInv ==
    ASSUME IInv, NEW l \in Legs, name[l] # None,
           attempt[l] = AttemptsOf(phase[l]), Refused(l),
           \/ store' = store /\ Taken(name[l])
           \/ store' = Kept(l) /\ ~Taken(name[l]) /\ faults # {},
           UNCHANGED <<faults, draws>>
    PROVE  IInv'
<1>1. Finish(l, Outcome("failed", None))
  BY DEF Refused
<1>2. /\ Outcome("failed", None) \in Outcomes
      /\ Outcome("failed", None).status = "failed"
  BY DEF Outcome, Outcomes
<1>3. faults # {}
  <2> SUFFICES ASSUME faults = {} PROVE FALSE
    OBVIOUS
  <2>1. SuffixInv /\ Taken(name[l])
    BY DEF IInv
  <2>2. Suffixed(l)
    BY <2>1 DEF SuffixInv
  <2> QED
    BY <2>1, <2>2 DEF SuffixInv, Taken
<1> DEFINE r == Outcome("failed", None)
<1>4. r \in Outcomes /\ r.status = "failed" /\ Finish(l, r)
  BY <1>1, <1>2
<1> HIDE DEF r
<1>5. store' = store \/ (store' = Kept(l) /\ ~Taken(name[l]))
  OBVIOUS
<1> QED
  BY <1>3, <1>4, <1>5, FinishInv

(* Every step keeps the invariant.                                          *)
LEMMA NextInv == IInv /\ [Next]_vars => IInv'
<1> SUFFICES ASSUME IInv, [Next]_vars PROVE IInv'
  OBVIOUS
<1>1. ASSUME NEW l \in Legs, Try(l) PROVE IInv'
  BY <1>1, TryInv
<1>2. ASSUME NEW l \in Legs, Uploaded(l) PROVE IInv'
  <2> DEFINE r == Outcome("uploaded", name[l])
  <2>1. r \in Outcomes /\ r.status = "uploaded" /\ r.name = name[l]
    BY DEF IInv, TypeOK, Outcome, Outcomes
  <2>2. Finish(l, r) /\ name[l] # None /\ store' = Kept(l) /\ ~Taken(name[l])
    BY <1>2 DEF Uploaded
  <2>3. UNCHANGED <<faults, draws>>
    BY <1>2 DEF Uploaded
  <2> HIDE DEF r
  <2> QED
    BY <2>1, <2>2, <2>3, FinishInv
<1>3. ASSUME NEW l \in Legs, Breaks(l) PROVE IInv'
  <2> DEFINE r == Outcome("failed", None)
  <2>1. r \in Outcomes /\ r.status = "failed"
    BY DEF Outcome, Outcomes
  <2>2. Finish(l, r) /\ name[l] # None /\ faults # {}
    BY <1>3 DEF Breaks
  <2>3. UNCHANGED <<faults, draws>>
    BY <1>3 DEF Breaks
  <2>4. store' = store \/ (store' = Kept(l) /\ ~Taken(name[l]))
    BY <1>3 DEF Breaks
  <2> HIDE DEF r
  <2> QED
    BY <2>1, <2>2, <2>3, <2>4, FinishInv
<1>4. ASSUME NEW l \in Legs, NameTaken(l) \/ Resent(l) PROVE IInv'
  <2>1. /\ name[l] # None /\ Refused(l)
        /\ \/ store' = store /\ Taken(name[l])
           \/ store' = Kept(l) /\ ~Taken(name[l]) /\ faults # {}
        /\ UNCHANGED <<faults, draws>>
    BY <1>4 DEF NameTaken, Resent
  <2>2. CASE attempt[l] = AttemptsOf(phase[l])
    BY <2>1, <2>2, LastInv
  <2>3. CASE attempt[l] # AttemptsOf(phase[l])
    BY <2>1, <2>3, RetryInv
  <2> QED
    BY <2>2, <2>3
<1>5. CASE UNCHANGED vars
  BY <1>5 DEF vars, IInv, TypeOK, AttemptsOf, PhaseInv, StoreInv, StableInv, Taken, Stable,
              SuffixInv, Suffixed, QuietInv
<1> QED
  BY <1>1, <1>2, <1>3, <1>4, <1>5 DEF Next, Step

-----------------------------------------------------------------------------
(* Theorems                                                                 *)

(* The inductive invariant holds in every reachable state.                  *)
THEOREM Invariance == Spec => []IInv
<1>1. Init => IInv
  BY InitInv
<1>2. IInv /\ [Next]_vars => IInv'
  BY NextInv
<1> QED
  BY <1>1, <1>2, PTL DEF Spec

(* Every variable stays in its type.                                        *)
THEOREM TypeCorrect == Spec => []TypeOK
<1>1. IInv => TypeOK
  BY DEF IInv
<1> QED
  BY <1>1, Invariance, PTL

(* What a leg publishes holds its own files and nobody else's, and is the   *)
(* stable name unless that one is taken: artifact-name, src/artifact.ts.    *)
THEOREM OutcomeIsTrueHolds == Spec => []OutcomeIsTrue
<1>1. IInv => OutcomeIsTrue
  <2> SUFFICES ASSUME IInv, NEW l \in Legs, NEW p \in Phases,
                      outcome[l][p].status = "uploaded"
               PROVE  /\ {a \in store : a.name = outcome[l][p].name}
                            = {[name |-> outcome[l][p].name, leg |-> l, for |-> p]}
                      /\ outcome[l][p].name # Stable(p) => Taken(Stable(p))
    BY DEF OutcomeIsTrue
  <2>1. [name |-> outcome[l][p].name, leg |-> l, for |-> p] \in store
    BY DEF IInv, StoreInv
  <2>2. \A a \in store : a.name = outcome[l][p].name =>
           a = [name |-> outcome[l][p].name, leg |-> l, for |-> p]
    BY <2>1 DEF IInv, StoreInv
  <2>3. outcome[l][p].name # Stable(p) => Taken(Stable(p))
    BY DEF IInv, StableInv
  <2> QED
    BY <2>1, <2>2, <2>3
<1> QED
  BY <1>1, Invariance, PTL

(* When nothing breaks, every leg's report and receipt arrive once, however *)
(* many legs share a differentiator.                                        *)
THEOREM EveryLegArrivesOnceHolds == Spec => []EveryLegArrivesOnce
<1>1. IInv => EveryLegArrivesOnce
  BY DEF IInv, QuietInv, EveryLegArrivesOnce
<1> QED
  BY <1>1, Invariance, PTL
-----------------------------------------------------------------------------
(* The comments of the pull request                                         *)

(* The legs' comments are written beside their uploads and leave them alone: *)
(* what is proved of the uploads holds of both together.                     *)
THEOREM CommentsLeaveUploadsAlone == CommentSpec => Spec
<1>1. CommentInit => Init
  BY DEF CommentInit
<1>2. [CommentNext]_allVars => [Next]_vars
  <2> SUFFICES ASSUME [CommentNext]_allVars PROVE [Next]_vars
    OBVIOUS
  <2>1. ASSUME NEW l \in Legs, UploadStep(l) PROVE [Next]_vars
    BY <2>1 DEF UploadStep, Next
  <2>2. ASSUME NEW l \in Legs, PostComment(l) PROVE [Next]_vars
    BY <2>2 DEF PostComment
  <2>3. CASE OthersEdit
    BY <2>3 DEF OthersEdit
  <2>4. CASE UNCHANGED allVars
    BY <2>4 DEF allVars
  <2> QED
    BY <2>1, <2>2, <2>3, <2>4 DEF CommentNext
<1> QED
  BY <1>1, <1>2, PTL DEF CommentSpec, Spec

(* The comment variables' types.                                            *)
CommentTypeOK ==
    /\ event \in EventSpace
    /\ thread \in Seq(Comments)
    /\ posted \in Nat
    /\ post \in [Legs -> Posts]

(* An id stands for one comment, with its author and marker, and is not given *)
(* again.                                                                   *)
IdInv ==
    /\ \A i \in DOMAIN thread : thread[i].id <= posted
    /\ \A i, j \in DOMAIN thread : thread[i].id = thread[j].id =>
          thread[i].bot = thread[j].bot /\ thread[i].marker = thread[j].marker

(* A leg looks and writes only where it may, and the comment it found is its *)
(* own for as long as it is there.                                          *)
FoundInv ==
    \A l \in Legs :
        /\ post[l].at \in {"listing", "writing"} => MayComment
        /\ post[l].at \in {"before", "listing"} => post[l].existing = None
        /\ post[l].existing # None =>
              /\ post[l].existing <= posted
              /\ \A i \in DOMAIN thread :
                    thread[i].id = post[l].existing => IsOwn(thread[i], l)

(* While nothing is deleted, what a leg has read of the thread holds none of *)
(* its own comments that were there when it began.                          *)
Unread(l, n) ==
    \A i \in DOMAIN thread : IsOwn(thread[i], l) /\ thread[i].id \in post[l].seen => i > n

ReadInv ==
    \A l \in Legs :
        /\ post[l].seen \subseteq 0..posted
        /\ post[l].at = "before" => post[l].page = 1
        /\ post[l].at = "listing" /\ ~post[l].deleted => Unread(l, (post[l].page - 1) * PerPage)
        /\ post[l].at = "writing" /\ ~post[l].deleted /\ post[l].existing = None =>
              Unread(l, MaxPages * PerPage)

CInv == CommentTypeOK /\ IdInv /\ FoundInv /\ ReadInv /\ CommentsKeepTheirOwner

(* The thread after a comment was added.                                    *)
LEMMA PostFacts ==
    ASSUME CommentTypeOK, NEW c \in Comments, Post(c)
    PROVE  /\ thread' \in Seq(Comments)
           /\ Len(thread') = Len(thread) + 1
           /\ thread'[Len(thread')] = c
           /\ DOMAIN thread \subseteq DOMAIN thread'
           /\ \A i \in DOMAIN thread' :
                 \/ i \in DOMAIN thread /\ thread'[i] = thread[i]
                 \/ i \notin DOMAIN thread /\ i > Len(thread) /\ thread'[i] = c
           /\ posted' = posted + 1
  BY DEF Post, CommentTypeOK

(* The thread after a comment was deleted: what remains was there.          *)
LEMMA DeleteFacts ==
    ASSUME CommentTypeOK, NEW i \in DOMAIN thread,
           thread' = SubSeq(thread, 1, i - 1) \o SubSeq(thread, i + 1, Len(thread))
    PROVE  /\ thread' \in Seq(Comments)
           /\ \A j \in DOMAIN thread' : \E k \in DOMAIN thread : thread'[j] = thread[k]
<1> DEFINE n == Len(thread)
           before == SubSeq(thread, 1, i - 1)
           after == SubSeq(thread, i + 1, n)
<1>1. n \in Nat /\ DOMAIN thread = 1..n /\ i \in 1..n /\ thread \in Seq(Comments)
  BY DEF CommentTypeOK
<1>2. /\ before \in Seq(Comments) /\ Len(before) = i - 1
      /\ \A j \in 1..(i - 1) : before[j] = thread[j]
  BY <1>1
<1>3. /\ after \in Seq(Comments) /\ Len(after) = n - i
      /\ \A j \in 1..(n - i) : after[j] = thread[i + j]
  BY <1>1
<1>4. thread' = before \o after
  OBVIOUS
<1> HIDE DEF n, before, after
<1>5. /\ before \o after \in Seq(Comments)
      /\ Len(before \o after) = (i - 1) + (n - i)
      /\ \A j \in 1..((i - 1) + (n - i)) :
            (before \o after)[j] = IF j <= i - 1 THEN before[j] ELSE after[j - (i - 1)]
  <2>1. /\ before \o after \in Seq(Comments)
        /\ Len(before \o after) = Len(before) + Len(after)
        /\ \A j \in 1..(Len(before) + Len(after)) :
              (before \o after)[j] = IF j <= Len(before) THEN before[j] ELSE after[j - Len(before)]
    BY <1>2, <1>3, ConcatProperties, Zenon
  <2> QED
    BY <1>2, <1>3, <2>1, Zenon
<1>6. (i - 1) + (n - i) = n - 1
  BY <1>1
<1>7. ASSUME NEW j \in 1..(n - 1)
      PROVE  \E k \in 1..n : (before \o after)[j] = thread[k]
  <2>1. i \in Nat /\ j \in Nat /\ n \in Nat /\ 1 <= i /\ i <= n /\ 1 <= j /\ j <= n - 1
    BY <1>1
  <2>2. CASE j <= i - 1
    <3>1. j \in 1..(i - 1) /\ j \in 1..n
      BY <2>1, <2>2
    <3> QED
      BY <3>1, <2>2, <1>2, <1>5, <1>6
  <2>3. CASE ~(j <= i - 1)
    <3> DEFINE d == j - (i - 1)
    <3>1. d \in 1..(n - i) /\ i + d = j + 1 /\ j + 1 \in 1..n
      BY <2>1, <2>3
    <3>2. (before \o after)[j] = after[d]
      BY <2>3, <1>5, <1>6
    <3> HIDE DEF d
    <3> QED
      BY <3>1, <3>2, <1>3
  <2> QED
    BY <2>2, <2>3
<1>8. thread' \in Seq(Comments) /\ DOMAIN thread' = 1..(n - 1)
  <2>1. Len(thread') = n - 1 /\ thread' \in Seq(Comments)
    BY <1>4, <1>5, <1>6
  <2> QED
    BY <2>1
<1> QED
  BY <1>1, <1>4, <1>7, <1>8

(* Every comment has a type, and its id was given.                          *)
LEMMA CommentFacts ==
    ASSUME CommentTypeOK, IdInv, NEW i \in DOMAIN thread
    PROVE  i \in Nat /\ i > 0 /\ thread[i] \in Comments /\ thread[i].id \in 0..posted
<1>1. i \in Nat /\ i > 0 /\ thread[i] \in Comments /\ posted \in Nat
  BY DEF CommentTypeOK
<1>2. thread[i].id \in Nat
  BY <1>1 DEF Comments
<1> QED
  BY <1>1, <1>2 DEF IdInv

(* A page that is not full is the last one.                                 *)
LEMMA ShortPage ==
    ASSUME CommentTypeOK, NEW k \in Nat \ {0}, Cardinality(PageOf(k)) # PerPage
    PROVE  \A i \in DOMAIN thread : i <= k * PerPage
<1> DEFINE low == (k - 1) * PerPage
           high == k * PerPage
<1>1. low \in Nat /\ high \in Nat /\ high = low + PerPage /\ PerPage \in Nat \ {0}
  BY CommentAssumption
<1> HIDE DEF low, high
<1> SUFFICES ASSUME NEW i \in DOMAIN thread, i > high PROVE FALSE
  <2>1. \A i \in DOMAIN thread : i \in Nat
    BY DEF CommentTypeOK
  <2> QED
    BY <1>1, <2>1 DEF high
<1>2. DOMAIN thread = 1..Len(thread) /\ Len(thread) \in Nat /\ high < Len(thread)
  BY <1>1 DEF CommentTypeOK
<1>3. PageOf(k) = {j \in DOMAIN thread : low < j /\ j <= high}
  BY DEF PageOf, low, high
<1>4. PageOf(k) = (low + 1)..high
  BY <1>1, <1>2, <1>3
<1>5. Cardinality((low + 1)..high) = high - (low + 1) + 1
  BY <1>1, FS_Interval
<1> QED
  BY <1>1, <1>4, <1>5

(* What is in place initially.                                              *)
LEMMA CommentInitInv == CommentInit => CInv
<1> SUFFICES ASSUME CommentInit PROVE CInv
  OBVIOUS
<1>1. PICK s \in Scenes : event = s.event /\ thread = s.thread /\ posted = Len(s.thread)
  BY DEF CommentInit
<1>2. /\ s.event \in EventSpace /\ s.thread \in Seq(Comments)
      /\ \A i \in DOMAIN s.thread : s.thread[i].id = i /\ s.thread[i].text = "other"
      /\ "other" \notin Legs /\ MaxPages \in Nat \ {0}
  BY CommentAssumption
<1>3. \A l \in Legs : /\ post[l].at = "before" /\ post[l].page = 1 /\ post[l].existing = None
                      /\ post[l].seen = {} /\ post[l].deleted = FALSE
  BY DEF CommentInit
<1>4. CommentTypeOK
  <2>1. [at |-> "before", page |-> 1, existing |-> None, seen |-> {}, deleted |-> FALSE] \in Posts
    BY <1>2 DEF Posts
  <2>2. post \in [Legs -> Posts]
    BY <2>1 DEF CommentInit
  <2> QED
    BY <1>1, <1>2, <2>2 DEF CommentTypeOK
<1>5. IdInv
  BY <1>1, <1>2 DEF IdInv
<1>6. FoundInv /\ ReadInv
  BY <1>3 DEF FoundInv, ReadInv
<1>7. CommentsKeepTheirOwner
  BY <1>1, <1>2 DEF CommentsKeepTheirOwner
<1> QED
  BY <1>4, <1>5, <1>6, <1>7 DEF CInv
(* A step that neither adds a comment nor changes one's id, author or marker *)
(* keeps what the leg has read and found; it may have moved on itself.      *)
LEMMA SameThread ==
    ASSUME CInv, NEW l \in Legs, NEW r \in Posts,
           thread' \in Seq(Comments), DOMAIN thread' = DOMAIN thread,
           \A i \in DOMAIN thread : /\ thread'[i].id = thread[i].id
                                    /\ thread'[i].bot = thread[i].bot
                                    /\ thread'[i].marker = thread[i].marker,
           event' = event, posted' = posted,
           post' = [post EXCEPT ![l] = r],
           r.seen \subseteq 0..posted,
           r.at # "before",
           r.at \in {"listing", "writing"} => MayComment,
           r.at = "listing" => r.existing = None,
           r.existing # None => r.existing <= posted /\
               \A i \in DOMAIN thread : thread[i].id = r.existing => IsOwn(thread[i], l),
           r.at = "listing" /\ ~r.deleted =>
               \A i \in DOMAIN thread : IsOwn(thread[i], l) /\ thread[i].id \in r.seen =>
                   i > (r.page - 1) * PerPage,
           r.at = "writing" /\ ~r.deleted /\ r.existing = None =>
               \A i \in DOMAIN thread : IsOwn(thread[i], l) /\ thread[i].id \in r.seen =>
                   i > MaxPages * PerPage
    PROVE  CommentTypeOK' /\ IdInv' /\ FoundInv' /\ ReadInv'
<1>1. \A k \in Legs : post'[k] = IF k = l THEN r ELSE post[k]
  BY DEF CInv, CommentTypeOK
<1>2. CommentTypeOK'
  BY DEF CInv, CommentTypeOK
<1>3. IdInv'
  BY DEF CInv, IdInv
<1>4. \A i \in DOMAIN thread', k \in Legs : IsOwn(thread'[i], k) <=> IsOwn(thread[i], k)
  BY DEF IsOwn
<1>5. FoundInv'
  <2> SUFFICES ASSUME NEW k \in Legs
               PROVE  /\ post'[k].at \in {"listing", "writing"} => MayComment'
                      /\ post'[k].at \in {"before", "listing"} => post'[k].existing = None
                      /\ post'[k].existing # None =>
                            /\ post'[k].existing <= posted'
                            /\ \A i \in DOMAIN thread' :
                                  thread'[i].id = post'[k].existing => IsOwn(thread'[i], k)
    BY DEF FoundInv, IsOwn, MayComment
  <2>1. CASE k = l
    BY <2>1, <1>1, <1>4 DEF MayComment
  <2>2. CASE k # l
    BY <2>2, <1>1, <1>4 DEF CInv, FoundInv, MayComment
  <2> QED
    BY <2>1, <2>2
<1>6. ReadInv'
  <2> SUFFICES ASSUME NEW k \in Legs
               PROVE  /\ post'[k].seen \subseteq 0..posted'
                      /\ post'[k].at = "before" => post'[k].page = 1
                      /\ post'[k].at = "listing" /\ ~post'[k].deleted =>
                            Unread(k, (post[k].page - 1) * PerPage)'
                      /\ post'[k].at = "writing" /\ ~post'[k].deleted /\ post'[k].existing = None =>
                            Unread(k, MaxPages * PerPage)'
    BY DEF ReadInv, Unread, IsOwn
  <2>1. CASE k = l
    BY <2>1, <1>1, <1>4 DEF Unread
  <2>2. CASE k # l
    BY <2>2, <1>1, <1>4 DEF CInv, ReadInv, Unread
  <2> QED
    BY <2>1, <2>2
<1> QED
  BY <1>2, <1>3, <1>5, <1>6

(* The thread and its ids at a step that leaves them alone.                 *)
LEMMA OwnersUnchanged ==
    ASSUME CommentsKeepTheirOwner, thread' = thread, event' = event
    PROVE  CommentsKeepTheirOwner'
  BY DEF CommentsKeepTheirOwner

(* The first page is begun, or there is nothing to post.                    *)
LEMMA BeginInv ==
    ASSUME CInv, NEW l \in Legs, BeginComment(l)
    PROVE  CInv'
<1> DEFINE r == IF MayComment
                THEN [post[l] EXCEPT !.at = "listing", !.seen = {thread[i].id : i \in OwnAt(thread, l)}]
                ELSE [post[l] EXCEPT !.at = "done"]
<1>1. /\ post[l] \in Posts /\ post[l].at = "before" /\ post[l].existing = None
      /\ post[l].page = 1 /\ post[l].seen \subseteq 0..posted
      /\ UNCHANGED <<event, thread, posted>>
  BY DEF CInv, CommentTypeOK, FoundInv, ReadInv, BeginComment
<1>2. \A i \in DOMAIN thread : i \in Nat /\ i > 0 /\ thread[i].id \in 0..posted
  BY CommentFacts DEF CInv
<1>3. posted \in Nat /\ PerPage \in Nat \ {0}
  BY CommentAssumption DEF CInv, CommentTypeOK
<1>4. {thread[i].id : i \in OwnAt(thread, l)} \subseteq 0..posted
  BY <1>2, <1>3 DEF OwnAt
<1>5. post' = [post EXCEPT ![l] = r]
  BY DEF BeginComment, CInv, CommentTypeOK
<1>6. r \in Posts
  <2>1. {thread[i].id : i \in OwnAt(thread, l)} \in SUBSET Nat
    BY <1>3, <1>4
  <2> QED
    BY <1>1, <2>1 DEF Posts
<1>7. /\ r.seen \subseteq 0..posted /\ r.at \in {"listing", "done"}
      /\ r.existing = None /\ r.page = 1
      /\ r.at = "listing" => MayComment
  BY <1>1, <1>4 DEF Posts
<1>8. (r.page - 1) * PerPage = 0
  BY <1>3, <1>7
<1> HIDE DEF r
<1>9. CommentTypeOK' /\ IdInv' /\ FoundInv' /\ ReadInv'
  BY <1>1, <1>2, <1>5, <1>6, <1>7, <1>8, SameThread DEF CInv, CommentTypeOK
<1> QED
  BY <1>1, <1>9, OwnersUnchanged DEF CInv

(* A page is read.                                                          *)
LEMMA ListInv ==
    ASSUME CInv, NEW l \in Legs, ListPage(l)
    PROVE  CInv'
<1> DEFINE hits == OwnAt(thread, l) \cap PageOf(post[l].page)
           k == post[l].page
<1>1. /\ post[l] \in Posts /\ post[l].at = "listing" /\ post[l].existing = None
      /\ post[l].seen \subseteq 0..posted
      /\ UNCHANGED <<event, thread, posted>>
      /\ thread \in Seq(Comments) /\ posted \in Nat
      /\ MayComment
  BY DEF CInv, CommentTypeOK, FoundInv, ReadInv, ListPage
<1>2. /\ k \in 1..MaxPages /\ MaxPages \in Nat \ {0} /\ PerPage \in Nat \ {0}
      /\ k \in Nat \ {0}
  BY <1>1, CommentAssumption DEF Posts
<1>3. \A i \in DOMAIN thread : i \in Nat /\ thread[i].id \in 0..posted
  BY CommentFacts DEF CInv
<1>4. ~post[l].deleted => Unread(l, (k - 1) * PerPage)
  BY <1>1 DEF CInv, ReadInv
<1>5. CASE \E i \in hits : post' = [post EXCEPT ![l].existing = thread[i].id, ![l].at = "writing"]
  <2>1. PICK i \in hits : post' = [post EXCEPT ![l].existing = thread[i].id, ![l].at = "writing"]
    BY <1>5
  <2> DEFINE r == [post[l] EXCEPT !.existing = thread[i].id, !.at = "writing"]
  <2>2. i \in DOMAIN thread /\ IsOwn(thread[i], l) /\ thread[i].id \in Nat /\ thread[i].id <= posted
    BY <1>1, <1>3 DEF OwnAt
  <2>3. post' = [post EXCEPT ![l] = r]
    BY <2>1 DEF CInv, CommentTypeOK
  <2>4. r \in Posts
    BY <1>1, <2>2 DEF Posts
  <2>5. /\ r.existing = thread[i].id /\ r.at = "writing" /\ r.seen = post[l].seen
        /\ r.existing # None
    BY <1>1, <2>2, UploadAssumption DEF Posts
  <2>6. \A j \in DOMAIN thread : thread[j].id = r.existing => IsOwn(thread[j], l)
    BY <2>2, <2>5 DEF CInv, IdInv, IsOwn
  <2> HIDE DEF r
  <2>7. CommentTypeOK' /\ IdInv' /\ FoundInv' /\ ReadInv'
    BY <1>1, <2>2, <2>3, <2>4, <2>5, <2>6, SameThread
  <2> QED
    BY <1>1, <2>7, OwnersUnchanged DEF CInv
<1>6. CASE /\ hits = {}
           /\ post' = IF Cardinality(PageOf(k)) = PerPage /\ k < MaxPages
                      THEN [post EXCEPT ![l].page = @ + 1]
                      ELSE [post EXCEPT ![l].at = "writing"]
  <2>1. ~post[l].deleted => Unread(l, k * PerPage)
    <3>1. (k - 1) * PerPage \in Int /\ k * PerPage \in Int
      BY <1>2
    <3>2. \A i \in DOMAIN thread : IsOwn(thread[i], l) =>
             ~((k - 1) * PerPage < i /\ i <= k * PerPage)
      BY <1>6 DEF OwnAt, PageOf
    <3> QED
      BY <1>3, <1>4, <3>1, <3>2 DEF Unread
  <2>2. CASE Cardinality(PageOf(k)) = PerPage /\ k < MaxPages
    <3> DEFINE r == [post[l] EXCEPT !.page = k + 1]
    <3>1. post' = [post EXCEPT ![l] = r]
      BY <1>6, <2>2 DEF CInv, CommentTypeOK
    <3>2. r \in Posts
      BY <1>1, <1>2, <2>2 DEF Posts
    <3>3. /\ r.page - 1 = k /\ r.at = "listing" /\ r.seen = post[l].seen
          /\ r.existing = None /\ r.deleted = post[l].deleted
      BY <1>1, <1>2 DEF Posts
    <3> HIDE DEF r
    <3>4. CommentTypeOK' /\ IdInv' /\ FoundInv' /\ ReadInv'
      BY <1>1, <2>1, <3>1, <3>2, <3>3, SameThread DEF Unread
    <3> QED
      BY <1>1, <3>4, OwnersUnchanged DEF CInv
  <2>3. CASE ~(Cardinality(PageOf(k)) = PerPage /\ k < MaxPages)
    <3> DEFINE r == [post[l] EXCEPT !.at = "writing"]
    <3>1. post' = [post EXCEPT ![l] = r]
      BY <1>6, <2>3 DEF CInv, CommentTypeOK
    <3>2. r \in Posts
      BY <1>1 DEF Posts
    <3>3. /\ r.at = "writing" /\ r.seen = post[l].seen /\ r.existing = None
          /\ r.deleted = post[l].deleted
      BY <1>1 DEF Posts
    <3>4. ~post[l].deleted => Unread(l, MaxPages * PerPage)
      <4>1. CASE k = MaxPages
        BY <2>1, <4>1
      <4>2. CASE Cardinality(PageOf(k)) # PerPage
        <5>1. \A i \in DOMAIN thread : i <= k * PerPage
          BY <1>2, <4>2, ShortPage DEF CInv
        <5>2. k * PerPage \in Nat
          BY <1>2
        <5> QED
          BY <1>3, <2>1, <5>1, <5>2 DEF Unread
      <4> QED
        BY <1>2, <2>3, <4>1, <4>2
    <3> HIDE DEF r
    <3>5. CommentTypeOK' /\ IdInv' /\ FoundInv' /\ ReadInv'
      BY <1>1, <3>1, <3>2, <3>3, <3>4, SameThread DEF Unread
    <3> QED
      BY <1>1, <3>5, OwnersUnchanged DEF CInv
  <2> QED
    BY <2>2, <2>3
<1> QED
  BY <1>5, <1>6 DEF ListPage
(* A comment is added, with an id of its own; a leg that posted is done.    *)
LEMMA PostInv ==
    ASSUME CInv, NEW c \in Comments, c.id = posted + 1, Post(c), event' = event,
           post' \in [Legs -> Posts],
           \A l \in Legs :
               \/ post'[l] = post[l]
               \/ post'[l].at = "done" /\ post'[l].existing = None /\ post'[l].seen = post[l].seen
    PROVE  CommentTypeOK' /\ IdInv' /\ FoundInv' /\ ReadInv'
<1>1. /\ thread' \in Seq(Comments)
      /\ DOMAIN thread \subseteq DOMAIN thread'
      /\ \A i \in DOMAIN thread' :
            \/ i \in DOMAIN thread /\ thread'[i] = thread[i]
            \/ i \notin DOMAIN thread /\ i > Len(thread) /\ thread'[i] = c
      /\ posted' = posted + 1 /\ posted \in Nat
  BY PostFacts DEF CInv, CommentTypeOK
<1>2. \A i \in DOMAIN thread : thread[i].id \in 0..posted
  BY CommentFacts DEF CInv
<1>3. CommentTypeOK'
  BY <1>1 DEF CInv, CommentTypeOK
<1>4. \A i \in DOMAIN thread' : thread'[i].id # posted + 1 =>
          i \in DOMAIN thread /\ thread'[i] = thread[i]
  BY <1>1
<1>5. IdInv'
  <2>1. \A i \in DOMAIN thread' : thread'[i].id <= posted'
    BY <1>1, <1>2
  <2>2. ASSUME NEW i \in DOMAIN thread', NEW j \in DOMAIN thread', thread'[i].id = thread'[j].id
        PROVE  thread'[i].bot = thread'[j].bot /\ thread'[i].marker = thread'[j].marker
    <3>1. CASE thread'[i].id = posted + 1
      <4>1. thread'[i] = c /\ thread'[j] = c
        BY <3>1, <2>2, <1>1, <1>2
      <4> QED
        BY <4>1
    <3>2. CASE thread'[i].id # posted + 1
      BY <3>2, <2>2, <1>4 DEF CInv, IdInv
    <3> QED
      BY <3>1, <3>2
  <2> QED
    BY <2>1, <2>2 DEF IdInv
<1>6. FoundInv'
  <2> SUFFICES ASSUME NEW l \in Legs
               PROVE  /\ post'[l].at \in {"listing", "writing"} => MayComment'
                      /\ post'[l].at \in {"before", "listing"} => post'[l].existing = None
                      /\ post'[l].existing # None =>
                            /\ post'[l].existing <= posted'
                            /\ \A i \in DOMAIN thread' :
                                  thread'[i].id = post'[l].existing => IsOwn(thread'[i], l)
    BY DEF FoundInv, IsOwn, MayComment
  <2>1. CASE post'[l] = post[l]
    <3>1. /\ post[l].at \in {"listing", "writing"} => MayComment'
          /\ post[l].at \in {"before", "listing"} => post[l].existing = None
          /\ post[l].existing # None =>
                /\ post[l].existing <= posted
                /\ \A i \in DOMAIN thread :
                      thread[i].id = post[l].existing => IsOwn(thread[i], l)
      BY DEF CInv, FoundInv, MayComment
    <3>2. post[l].existing \in Nat \cup {None}
      BY DEF CInv, CommentTypeOK, Posts
    <3>3. post[l].existing # None => post[l].existing # posted + 1 /\ post[l].existing <= posted'
      BY <1>1, <3>1, <3>2
    <3> QED
      BY <2>1, <3>1, <3>3, <1>4
  <2>2. CASE post'[l].at = "done" /\ post'[l].existing = None
    BY <2>2
  <2> QED
    BY <2>1, <2>2
<1>7. ReadInv'
  <2> SUFFICES ASSUME NEW l \in Legs
               PROVE  /\ post'[l].seen \subseteq 0..posted'
                      /\ post'[l].at = "before" => post'[l].page = 1
                      /\ post'[l].at = "listing" /\ ~post'[l].deleted =>
                            Unread(l, (post[l].page - 1) * PerPage)'
                      /\ post'[l].at = "writing" /\ ~post'[l].deleted /\ post'[l].existing = None =>
                            Unread(l, MaxPages * PerPage)'
    BY DEF ReadInv, Unread, IsOwn
  <2>1. post[l].seen \subseteq 0..posted /\ posted + 1 \notin post[l].seen
    BY <1>1 DEF CInv, ReadInv
  <2>2. post'[l].seen \subseteq 0..posted'
    BY <1>1, <2>1
  <2>3. CASE post'[l] = post[l]
    <3>1. \A i \in DOMAIN thread' : thread'[i].id \in post[l].seen =>
             i \in DOMAIN thread /\ thread'[i] = thread[i]
      BY <1>4, <2>1
    <3> QED
      BY <2>2, <2>3, <3>1 DEF CInv, ReadInv, Unread, IsOwn
  <2>4. CASE post'[l].at = "done"
    BY <2>2, <2>4
  <2> QED
    BY <2>3, <2>4
<1> QED
  BY <1>3, <1>5, <1>6, <1>7

(* A comment is deleted: those who are looking may miss theirs from now on. *)
LEMMA DeleteInv ==
    ASSUME CInv, NEW i \in DOMAIN thread,
           thread' = SubSeq(thread, 1, i - 1) \o SubSeq(thread, i + 1, Len(thread)),
           post' = [l \in Legs |->
                       [post[l] EXCEPT !.deleted = @ \/ post[l].at \in {"listing", "writing"}]],
           UNCHANGED <<event, posted>>
    PROVE  CInv'
<1>1. /\ thread' \in Seq(Comments)
      /\ \A j \in DOMAIN thread' : \E k \in DOMAIN thread : thread'[j] = thread[k]
  BY DeleteFacts DEF CInv
<1>2. \A l \in Legs : /\ post'[l] \in Posts /\ post'[l].at = post[l].at
                      /\ post'[l].existing = post[l].existing
                      /\ post'[l].seen = post[l].seen /\ post'[l].page = post[l].page
                      /\ post[l].at \in {"listing", "writing"} => post'[l].deleted
  BY DEF CInv, CommentTypeOK, Posts
<1>3. CommentTypeOK'
  BY <1>1, <1>2 DEF CInv, CommentTypeOK
<1>4. IdInv'
  <2>1. ASSUME NEW j \in DOMAIN thread' PROVE thread'[j].id <= posted'
    BY <1>1 DEF CInv, IdInv
  <2>2. ASSUME NEW j \in DOMAIN thread', NEW k \in DOMAIN thread', thread'[j].id = thread'[k].id
        PROVE  thread'[j].bot = thread'[k].bot /\ thread'[j].marker = thread'[k].marker
    <3>1. PICK m \in DOMAIN thread : thread'[j] = thread[m]
      BY <1>1
    <3>2. PICK n \in DOMAIN thread : thread'[k] = thread[n]
      BY <1>1
    <3> QED
      BY <3>1, <3>2, <2>2 DEF CInv, IdInv
  <2> QED
    BY <2>1, <2>2 DEF IdInv
<1>5. FoundInv'
  <2>1. \A l \in Legs : /\ post'[l].at \in {"listing", "writing"} => MayComment'
                        /\ post'[l].at \in {"before", "listing"} => post'[l].existing = None
                        /\ post'[l].existing # None => post'[l].existing <= posted'
    BY <1>2 DEF CInv, FoundInv, MayComment
  <2>2. ASSUME NEW l \in Legs, NEW j \in DOMAIN thread',
               post'[l].existing # None, thread'[j].id = post'[l].existing
        PROVE  IsOwn(thread'[j], l)
    <3>1. PICK m \in DOMAIN thread : thread'[j] = thread[m]
      BY <1>1
    <3>2. thread[m].id = post[l].existing /\ post[l].existing # None
      BY <3>1, <2>2, <1>2
    <3>3. IsOwn(thread[m], l)
      BY <3>2 DEF CInv, FoundInv
    <3> QED
      BY <3>1, <3>3
  <2> QED
    BY <2>1, <2>2 DEF FoundInv, IsOwn, MayComment
<1>6. ReadInv'
  <2>1. ASSUME NEW l \in Legs
        PROVE  /\ post'[l].seen \subseteq 0..posted'
               /\ post'[l].at = "before" => post'[l].page = 1
    <3>1. post[l].seen \subseteq 0..posted /\ (post[l].at = "before" => post[l].page = 1)
      BY DEF CInv, ReadInv
    <3> QED
      BY <3>1, <1>2
  <2>2. \A l \in Legs : post'[l].at \in {"listing", "writing"} => post'[l].deleted
    BY <1>2
  <2> QED
    BY <2>1, <2>2 DEF ReadInv, Unread
<1>7. CommentsKeepTheirOwner'
  <2> SUFFICES ASSUME NEW j \in DOMAIN thread', thread'[j].text \in Legs
               PROVE  /\ thread'[j].marker = IdentityOf[thread'[j].text]
                      /\ thread'[j].bot \/ event'.token = "user"
    BY DEF CommentsKeepTheirOwner
  <2>1. PICK m \in DOMAIN thread : thread'[j] = thread[m]
    BY <1>1
  <2> QED
    BY <2>1 DEF CInv, CommentsKeepTheirOwner
<1> QED
  BY <1>3, <1>4, <1>5, <1>6, <1>7 DEF CInv

(* The leg writes over the comment it found.                                *)
LEMMA UpdateInv ==
    ASSUME CInv, NEW l \in Legs, UpdateComment(l)
    PROVE  CInv'
<1> DEFINE r == [post[l] EXCEPT !.at = "done"]
<1>1. /\ post[l] \in Posts /\ post[l].existing # None /\ post[l].existing <= posted
      /\ post[l].seen \subseteq 0..posted
      /\ \A i \in DOMAIN thread : thread[i].id = post[l].existing => IsOwn(thread[i], l)
  BY DEF CInv, CommentTypeOK, FoundInv, ReadInv, UpdateComment
<1>2. /\ thread' = [i \in DOMAIN thread |->
                       IF thread[i].id = post[l].existing
                       THEN [thread[i] EXCEPT !.text = l, !.marker = IdentityOf[l]]
                       ELSE thread[i]]
      /\ UNCHANGED <<event, posted>>
      /\ IdentityOf[l] \in Identities
  BY CommentAssumption DEF UpdateComment
<1>3. \A i \in DOMAIN thread : i \in Nat /\ thread[i] \in Comments
  BY CommentFacts DEF CInv
<1>4. DOMAIN thread' = DOMAIN thread
  BY <1>2
<1>5. ASSUME NEW i \in DOMAIN thread
      PROVE  /\ thread'[i] \in Comments
             /\ thread'[i].id = thread[i].id
             /\ thread'[i].bot = thread[i].bot
             /\ thread'[i].marker = thread[i].marker
             /\ \/ thread'[i].text = thread[i].text
                \/ thread'[i].text = l /\ IsOwn(thread[i], l)
  <2>1. CASE thread[i].id = post[l].existing
    <3>1. IsOwn(thread[i], l)
      BY <1>1, <2>1
    <3>2. thread'[i] = [thread[i] EXCEPT !.text = l, !.marker = IdentityOf[l]]
      BY <1>2, <2>1
    <3> QED
      BY <3>1, <3>2, <1>2, <1>3 DEF Comments, Texts, IsOwn
  <2>2. CASE thread[i].id # post[l].existing
    BY <1>2, <1>3, <2>2
  <2> QED
    BY <2>1, <2>2
<1>6. thread' \in Seq(Comments)
  <2>1. thread \in Seq(Comments) /\ Len(thread) \in Nat /\ DOMAIN thread = 1..Len(thread)
    BY DEF CInv, CommentTypeOK
  <2>2. thread' \in [1..Len(thread) -> Comments]
    BY <1>2, <1>5, <2>1
  <2> QED
    BY <2>1, <2>2
<1>7. post' = [post EXCEPT ![l] = r]
  BY DEF UpdateComment, CommentDone, CInv, CommentTypeOK
<1>8. r \in Posts /\ r.at = "done" /\ r.seen = post[l].seen /\ r.existing = post[l].existing
  BY <1>1 DEF Posts
<1> HIDE DEF r
<1>9. CommentTypeOK' /\ IdInv' /\ FoundInv' /\ ReadInv'
  BY <1>1, <1>2, <1>4, <1>5, <1>6, <1>7, <1>8, SameThread
<1>10. CommentsKeepTheirOwner'
  <2> SUFFICES ASSUME NEW i \in DOMAIN thread, thread'[i].text \in Legs
               PROVE  /\ thread'[i].marker = IdentityOf[thread'[i].text]
                      /\ thread'[i].bot \/ event'.token = "user"
    BY <1>4 DEF CommentsKeepTheirOwner
  <2>1. CASE thread'[i].text = l /\ IsOwn(thread[i], l)
    BY <2>1, <1>5 DEF IsOwn
  <2>2. CASE thread'[i].text = thread[i].text
    BY <2>2, <1>2, <1>5 DEF CInv, CommentsKeepTheirOwner
  <2> QED
    BY <2>1, <2>2, <1>5
<1> QED
  BY <1>9, <1>10 DEF CInv

(* The leg posts a comment.                                                 *)
LEMMA CreateInv ==
    ASSUME CInv, NEW l \in Legs, CreateComment(l)
    PROVE  CInv'
<1> DEFINE c == [id |-> posted + 1, bot |-> event.token = "bot",
                 marker |-> IdentityOf[l], text |-> l]
<1>1. /\ Post(c) /\ event' = event /\ post' = [post EXCEPT ![l].at = "done"]
      /\ post[l].existing = None
  BY DEF CreateComment, CommentDone
<1>2. c \in Comments /\ c.id = posted + 1
  BY CommentAssumption DEF CInv, CommentTypeOK, Comments, Texts
<1>3. c.text = l /\ c.marker = IdentityOf[l] /\ (c.bot \/ event.token = "user")
  <2>1. event.token \in Tokens /\ event.token # "none"
    BY DEF CInv, CommentTypeOK, FoundInv, MayComment, EventSpace, CreateComment
  <2> QED
    BY <2>1 DEF Tokens
<1> HIDE DEF c
<1>4. post \in [Legs -> Posts]
  BY DEF CInv, CommentTypeOK
<1>5. post' \in [Legs -> Posts]
  BY <1>1, <1>4 DEF Posts
<1>6. \A k \in Legs :
         \/ post'[k] = post[k]
         \/ post'[k].at = "done" /\ post'[k].existing = None /\ post'[k].seen = post[k].seen
  BY <1>1, <1>4 DEF Posts
<1>7. CommentTypeOK' /\ IdInv' /\ FoundInv' /\ ReadInv'
  BY <1>1, <1>2, <1>5, <1>6, PostInv
<1>8. CommentsKeepTheirOwner'
  BY <1>1, <1>2, <1>3, PostFacts DEF CInv, CommentsKeepTheirOwner
<1> QED
  BY <1>7, <1>8 DEF CInv
(* A request fails: the leg is done.                                        *)
LEMMA FailsInv ==
    ASSUME CInv, NEW l \in Legs, CommentFails(l)
    PROVE  CInv'
<1> DEFINE r == [post[l] EXCEPT !.at = "done"]
<1>1. /\ post[l] \in Posts /\ post[l].seen \subseteq 0..posted
      /\ post[l].existing # None => post[l].existing <= posted /\
            \A i \in DOMAIN thread : thread[i].id = post[l].existing => IsOwn(thread[i], l)
      /\ UNCHANGED <<event, thread, posted>>
      /\ thread \in Seq(Comments)
  BY DEF CInv, CommentTypeOK, FoundInv, ReadInv, CommentFails
<1>2. post' = [post EXCEPT ![l] = r]
  BY DEF CommentFails, CommentDone, CInv, CommentTypeOK
<1>3. r \in Posts /\ r.at = "done" /\ r.seen = post[l].seen /\ r.existing = post[l].existing
  BY <1>1 DEF Posts
<1> HIDE DEF r
<1>4. CommentTypeOK' /\ IdInv' /\ FoundInv' /\ ReadInv'
  BY <1>1, <1>2, <1>3, SameThread
<1> QED
  BY <1>1, <1>4, OwnersUnchanged DEF CInv

(* Someone else posts or deletes.                                           *)
LEMMA OthersInv ==
    ASSUME CInv, OthersEdit
    PROVE  CInv'
<1>1. CASE /\ \E m \in Identities \cup {None} :
                 Post([id |-> posted + 1, bot |-> FALSE, marker |-> m, text |-> "other"])
           /\ UNCHANGED post
  <2>1. PICK m \in Identities \cup {None} :
           Post([id |-> posted + 1, bot |-> FALSE, marker |-> m, text |-> "other"])
    BY <1>1
  <2> DEFINE c == [id |-> posted + 1, bot |-> FALSE, marker |-> m, text |-> "other"]
  <2>2. c \in Comments /\ c.id = posted + 1 /\ c.text = "other"
    BY DEF CInv, CommentTypeOK, Comments, Texts
  <2>3. Post(c) /\ UNCHANGED <<event, post>>
    BY <1>1, <2>1 DEF OthersEdit
  <2> HIDE DEF c
  <2>4. CommentTypeOK' /\ IdInv' /\ FoundInv' /\ ReadInv'
    BY <2>2, <2>3, PostInv DEF CInv, CommentTypeOK
  <2>5. CommentsKeepTheirOwner'
    BY <2>2, <2>3, PostFacts, CommentAssumption DEF CInv, CommentsKeepTheirOwner
  <2> QED
    BY <2>4, <2>5 DEF CInv
<1>2. CASE /\ \E i \in DOMAIN thread :
                 thread' = SubSeq(thread, 1, i - 1) \o SubSeq(thread, i + 1, Len(thread))
           /\ post' = [l \in Legs |->
                          [post[l] EXCEPT !.deleted = @ \/ post[l].at \in {"listing", "writing"}]]
           /\ UNCHANGED posted
  BY <1>2, DeleteInv DEF OthersEdit
<1> QED
  BY <1>1, <1>2 DEF OthersEdit

(* Every step keeps it.                                                     *)
LEMMA CommentNextInv == CInv /\ [CommentNext]_allVars => CInv'
<1> SUFFICES ASSUME CInv, [CommentNext]_allVars PROVE CInv'
  OBVIOUS
<1>1. ASSUME UNCHANGED commentVars PROVE CInv'
  BY <1>1 DEF commentVars, CInv, CommentTypeOK, IdInv, FoundInv, MayComment, ReadInv, Unread, IsOwn,
              CommentsKeepTheirOwner
<1>2. ASSUME NEW l \in Legs, UploadStep(l) PROVE CInv'
  BY <1>1, <1>2 DEF UploadStep
<1>3. ASSUME NEW l \in Legs, PostComment(l) PROVE CInv'
  BY <1>3, BeginInv, ListInv, UpdateInv, CreateInv, FailsInv DEF PostComment
<1>4. CASE OthersEdit
  BY <1>4, OthersInv
<1>5. CASE UNCHANGED allVars
  BY <1>1, <1>5 DEF allVars
<1> QED
  BY <1>2, <1>3, <1>4, <1>5 DEF CommentNext

(* The inductive invariant of the comments.                                 *)
THEOREM CommentInvariance == CommentSpec => []CInv
<1>1. CommentInit => CInv
  BY CommentInitInv
<1>2. CInv /\ [CommentNext]_allVars => CInv'
  BY CommentNextInv
<1> QED
  BY <1>1, <1>2, PTL DEF CommentSpec

(* What a person or another job wrote is never written over, for any number *)
(* of legs and comments: isOwn in src/comment.ts is enough.                 *)
THEOREM CommentsKeepTheirOwnerHolds == CommentSpec => []CommentsKeepTheirOwner
<1>1. CInv => CommentsKeepTheirOwner
  BY DEF CInv
<1> QED
  BY <1>1, CommentInvariance, PTL

(* A leg posts beside a comment of its own only when that one came late, is *)
(* out of reach, or may have moved, for any page size and number of pages.  *)
THEOREM OneCommentPerJobHolds == CommentSpec => OneCommentPerJob
<1> DEFINE A == \A l \in Legs :
        posted' > posted /\ thread'[Len(thread')].text = l /\ ~post[l].deleted =>
            \A i \in OwnAt(thread, l) :
                thread[i].id \in post[l].seen => i > MaxPages * PerPage
<1>1. CInv /\ [CommentNext]_allVars => [A]_allVars
  <2> SUFFICES ASSUME CInv, CommentNext, NEW l \in Legs, posted' > posted,
                      thread'[Len(thread')].text = l, ~post[l].deleted,
                      NEW i \in OwnAt(thread, l), thread[i].id \in post[l].seen
               PROVE  i > MaxPages * PerPage
    OBVIOUS
  <2>1. posted \in Nat /\ ~(posted > posted)
    BY DEF CInv, CommentTypeOK
  <2>2. CASE \E k \in Legs : CreateComment(k)
    <3>1. PICK k \in Legs : CreateComment(k)
      BY <2>2
    <3> DEFINE c == [id |-> posted + 1, bot |-> event.token = "bot",
                     marker |-> IdentityOf[k], text |-> k]
    <3>2. c \in Comments /\ Post(c)
      BY <3>1, CommentAssumption DEF CreateComment, CInv, CommentTypeOK, Comments, Texts
    <3>3. c.text = k
      OBVIOUS
    <3> HIDE DEF c
    <3>4. k = l
      BY <3>2, <3>3, PostFacts DEF CInv
    <3>5. Unread(l, MaxPages * PerPage)
      BY <3>1, <3>4 DEF CreateComment, CInv, ReadInv
    <3> QED
      BY <3>5 DEF Unread, OwnAt
  <2>3. CASE OthersEdit
    <3>1. PICK m \in Identities \cup {None} :
             Post([id |-> posted + 1, bot |-> FALSE, marker |-> m, text |-> "other"])
      BY <2>1, <2>3 DEF OthersEdit
    <3> DEFINE c == [id |-> posted + 1, bot |-> FALSE, marker |-> m, text |-> "other"]
    <3>2. c \in Comments /\ Post(c) /\ c.text = "other"
      BY <3>1 DEF CInv, CommentTypeOK, Comments, Texts
    <3> HIDE DEF c
    <3>3. l = "other"
      BY <3>2, PostFacts DEF CInv
    <3> QED
      BY <3>3, CommentAssumption
  <2>4. CASE \E k \in Legs : UploadStep(k)
    BY <2>1, <2>4 DEF UploadStep, commentVars
  <2>5. CASE \E k \in Legs : BeginComment(k) \/ ListPage(k) \/ UpdateComment(k) \/ CommentFails(k)
    BY <2>1, <2>5 DEF BeginComment, ListPage, UpdateComment, CommentFails
  <2> QED
    BY <2>2, <2>3, <2>4, <2>5 DEF CommentNext, PostComment
<1> QED
  BY <1>1, CommentInvariance, PTL DEF CommentSpec, OneCommentPerJob
=============================================================================
