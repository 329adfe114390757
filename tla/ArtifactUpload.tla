--------------------------- MODULE ArtifactUpload ----------------------------
(***************************************************************************)
(* uploadReport and uploadReceipt of src/artifact.ts, in every leg of one  *)
(* workflow run at once: the legs know nothing of each other and compete   *)
(* for the names of one artifact store, which refuses a name that is taken *)
(* (409).  A leg uploads its report, then its receipt.                     *)
(*                                                                         *)
(* A name is what it is made of: what it is for, the leg's differentiator  *)
(* and the unique suffix (Date.now and Math.random), each possibly absent. *)
(***************************************************************************)
EXTENDS Naturals

CONSTANTS
    Legs,
    Labels,        \* differentiators
    LabelOf,       \* the differentiator of each leg, None if it has none
    None,
    MaxAttempts,   \* MAX_REPORT_UPLOAD_ATTEMPTS
    Worlds         \* the worlds considered: the legs that upload, and the faults that may happen:
                   \* "clash": a suffix is drawn twice; "break": an upload fails;
                   \* "resend": the answer is lost and the repeated request refused

FaultKinds == {"clash", "break", "resend"}

ASSUME UploadAssumption ==
    /\ LabelOf \in [Legs -> Labels \cup {None}]
    /\ None \notin Labels \cup Legs \cup Nat
    /\ MaxAttempts \in Nat \ 0..2   \* the name of a second attempt need not be unique
    /\ Worlds \subseteq [legs : SUBSET Legs, faults : SUBSET FaultKinds]

VARIABLES
    faults,        \* what may go wrong in this world
    store,         \* the artifacts of the run: a name, and whose files it holds
    draws,         \* how many unique suffixes were drawn so far: 1, 2, ...
    phase,         \* "report", "receipt", "done": what a leg is uploading
    attempt,
    name,          \* the name of the upload under way, None if none is
    outcome        \* ArtifactUploadOutcome of each leg and phase

vars == <<faults, store, draws, phase, attempt, name, outcome>>

Phases == {"report", "receipt"}
Names == [for : Phases, label : Labels \cup {None}, suffix : Nat \cup {None}]
Stable(p) == [for |-> p, label |-> None, suffix |-> None]

(* what the service keeps: under a name, the files of one leg and phase *)
Artifacts == [name : Names, leg : Legs, for : Phases]
Taken(n) == \E a \in store : a.name = n

(* ArtifactUploadOutcome, and "pending" before *)
Outcomes == [status : {"pending", "uploaded", "failed"}, name : Names \cup {None}]
Outcome(s, n) == [status |-> s, name |-> n]

Init ==
    /\ store = {}
    /\ draws = 0
    /\ \E w \in Worlds :
          /\ faults = w.faults
          /\ phase = [l \in Legs |-> IF l \in w.legs THEN "report" ELSE "done"]
    /\ attempt = [l \in Legs |-> 1]
    /\ name = [l \in Legs |-> None]
    /\ outcome = [l \in Legs |-> [p \in Phases |-> Outcome("pending", None)]]

-----------------------------------------------------------------------------
AttemptsOf(p) == IF p = "report" THEN MaxAttempts ELSE 2

(* Date.now and Math.random: a suffix of their own, or one drawn before *)
Unique == IF "clash" \in faults THEN 1..(draws + 1) ELSE {draws + 1}

(* slip: the name of the second attempt is tried again and again *)
CandidatesOfTheLabel(p, n, label) ==
    IF n = 1 THEN {Stable(p)}
    ELSE {[for |-> p, label |-> label, suffix |-> s] :
             s \in IF label # None THEN {None} ELSE Unique}

(* candidateReportArtifactName, and the two names of uploadReceipt: stable, *)
(* then labelled, then labelled and unique                                  *)
Candidates(p, n, label) ==
    IF n = 1 THEN {Stable(p)}
    ELSE IF p = "report" /\ n = 2 /\ label # None
    THEN {[for |-> p, label |-> label, suffix |-> None]}
    ELSE {[for |-> p, label |-> IF p = "report" THEN label ELSE None, suffix |-> s] :
             s \in Unique}

(* the next name is chosen and its upload begun *)
Try(l) ==
    /\ phase[l] \in Phases
    /\ name[l] = None
    /\ \E n \in Candidates(phase[l], attempt[l], LabelOf[l]) :
          /\ name' = [name EXCEPT ![l] = n]
          /\ draws' = IF n.suffix = draws + 1 THEN draws + 1 ELSE draws
    /\ UNCHANGED <<faults, store, phase, attempt, outcome>>

(* the leg's upload is over: on to the receipt, or done *)
Finish(l, result) ==
    /\ outcome' = [outcome EXCEPT ![l][phase[l]] = result]
    /\ phase' = [phase EXCEPT ![l] = IF @ = "report" THEN "receipt" ELSE "done"]
    /\ attempt' = [attempt EXCEPT ![l] = 1]
    /\ name' = [name EXCEPT ![l] = None]

Kept(l) == store \cup {[name |-> name[l], leg |-> l, for |-> phase[l]]}

(* slip: the name published is the stable one, whatever was used *)
UploadedAsStable(l) ==
    /\ name[l] # None
    /\ ~Taken(name[l])
    /\ store' = Kept(l)
    /\ Finish(l, Outcome("uploaded", Stable(phase[l])))
    /\ UNCHANGED <<faults, draws>>

(* uploadArtifact resolves *)
Uploaded(l) ==
    /\ name[l] # None
    /\ ~Taken(name[l])
    /\ store' = Kept(l)
    /\ Finish(l, Outcome("uploaded", name[l]))
    /\ UNCHANGED <<faults, draws>>

(* slip: a refusal does not count as an attempt *)
RefusedUncounted(l) ==
    /\ name' = [name EXCEPT ![l] = None]
    /\ UNCHANGED <<phase, attempt, outcome>>

(* isArtifactNameCollision: the next attempt, unless it was the last *)
Refused(l) ==
    IF attempt[l] = AttemptsOf(phase[l]) THEN Finish(l, Outcome("failed", None))
    ELSE /\ attempt' = [attempt EXCEPT ![l] = @ + 1]
         /\ name' = [name EXCEPT ![l] = None]
         /\ UNCHANGED <<phase, outcome>>

NameTaken(l) ==
    /\ name[l] # None
    /\ Taken(name[l])
    /\ Refused(l)
    /\ UNCHANGED <<faults, store, draws>>

(* the service kept the files, its answer was lost, and the client's own    *)
(* repetition of the request is refused: a collision with itself            *)
Resent(l) ==
    /\ "resend" \in faults
    /\ name[l] # None
    /\ ~Taken(name[l])
    /\ store' = Kept(l)
    /\ Refused(l)
    /\ UNCHANGED <<faults, draws>>

(* any other failure ends the upload, whatever the service has kept *)
Breaks(l) ==
    /\ "break" \in faults
    /\ name[l] # None
    /\ store' \in IF Taken(name[l]) THEN {store} ELSE {store, Kept(l)}
    /\ Finish(l, Outcome("failed", None))
    /\ UNCHANGED <<faults, draws>>

Step(l) == Try(l) \/ Uploaded(l) \/ NameTaken(l) \/ Resent(l) \/ Breaks(l)

Next == \E l \in Legs : Step(l)

Spec == Init /\ [][Next]_vars

(* every leg goes on, and uploadArtifact settles (the client bounds it) *)
FairSpec == Spec /\ \A l \in Legs : WF_vars(Step(l))

-----------------------------------------------------------------------------
(* Properties                                                              *)

TypeOK ==
    /\ faults \subseteq FaultKinds
    /\ store \subseteq Artifacts
    /\ draws \in Nat
    /\ phase \in [Legs -> Phases \cup {"done"}]
    /\ attempt \in [Legs -> 1..MaxAttempts]
    /\ \A l \in Legs : phase[l] \in Phases => attempt[l] <= AttemptsOf(phase[l])
    /\ name \in [Legs -> Names \cup {None}]
    /\ outcome \in [Legs -> [Phases -> Outcomes]]

(* What a leg publishes (artifact-name) is the artifact that holds its own  *)
(* files, however many legs fought for the name and whatever was refused,   *)
(* resent or lost; and "existing consumers are never silently renamed": it  *)
(* is not the stable name only when that one is taken.                      *)
OutcomeIsTrue ==
    \A l \in Legs, p \in Phases :
        LET n == outcome[l][p].name IN
        outcome[l][p].status = "uploaded" =>
            /\ {a \in store : a.name = n} = {[name |-> n, leg |-> l, for |-> p]}
            /\ n # Stable(p) => Taken(Stable(p))

(* "a second invocation ... would otherwise fail to upload": when nothing   *)
(* breaks, every leg's report and receipt arrive, also where several share  *)
(* a differentiator (#494), and each of them once.                          *)
EveryLegArrivesOnce ==
    faults = {} =>
        \A l \in Legs, p \in Phases :
            outcome[l][p].status # "pending" =>
                /\ outcome[l][p].status = "uploaded"
                /\ \A a \in store : a.leg = l /\ a.for = p => a.name = outcome[l][p].name

(* The uploads of every leg come to an end, with or without an artifact.    *)
EveryLegEnds ==
    \A l \in Legs : <>(phase[l] = "done")
==============================================================================
