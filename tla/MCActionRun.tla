----------------------------- MODULE MCActionRun -----------------------------
(* Invocations that differ from the plain one in one input, in those that    *)
(* meet in a check or a gate, in the release of the engine, or in what is    *)
(* asked of the environment; and every combination that reaches a different  *)
(* stage of run(), with two report statuses, so that the report and the exit *)
(* code can disagree.                                                        *)
EXTENDS CheckInputs

Of(w) == [word |-> w, form |-> "upper"]
Lower(w) == [word |-> w, form |-> "lower"]

(* one of each: allowed, allowed and denied, neither, denied *)
MCWords == {"PATH", "CARGO_REGISTRY_TOKEN", "LD_LIBRARY_PATH", "MY_TOKEN"}
MCAllowed == {"PATH", "CARGO_REGISTRY_TOKEN"}
MCDenied == {"CARGO_REGISTRY_TOKEN", "MY_TOKEN"}

Unset == [n \in InputNames |->
            CASE n = "fixtures-dir" -> "directory" [] n = "version" -> "release"
              [] n = "engine-env-passthrough" -> "names" [] OTHER -> "unset"]

Source == {Of(w) : w \in MCWords}
Usual == [given |-> Unset, release |-> <<0, 2, 0>>, envToken |-> FALSE,
          platform |-> "linux", source |-> Source, asked |-> << >>]
With(g) == [Usual EXCEPT !.given = g]

OneInput == UNION {{With([Unset EXCEPT ![n] = v]) : v \in Values(n)} : n \in InputNames}

TwoInputs ==
    {With([Unset EXCEPT !["no-cache"] = v, !["live-cache-ttl-seconds"] = w]) :
        v \in {"true", "false"}, w \in {"in range", "out of range"}}
    \cup {With([Unset EXCEPT !["fixtures-dir"] = v, !["allow-empty"] = "true"]) :
             v \in {"missing", "file"}}
    \cup {With([Unset EXCEPT !["rpc-url"] = "secret", !["protocol"] = v, !["offline"] = w]) :
             v \in {"in range", "not digits"}, w \in {"true", "other"}}

Stages ==
    {With([Unset EXCEPT !["protocol"] = p, !["fixtures-dir"] = f, !["baseline-report"] = b,
                        !["fixture"] = x, !["upload-report"] = u, !["junit-report"] = j,
                        !["generate-receipt"] = r]) :
        p \in {"unset", "not digits"}, f \in {"directory", "missing"},
        b \in {"unset", "report", "other file"}, x \in {"unset", "text"},
        u \in {"unset", "false"}, j \in {"unset", "true"}, r \in {"unset", "true"}}

(* every gated input at once but one of the two that conflict *)
AllGated(n) == [m \in InputNames |->
    IF m \notin Gated \ {n} THEN Unset[m]
    ELSE IF m \in Booleans THEN "true" ELSE IF m \in Integers THEN "in range" ELSE "text"]
Releases == {<<0, 0, 9>>, <<0, 1, 1>>, <<0, 2, 0>>, <<0, 2, 5>>, <<0, 3, 0>>, <<1, 0, 0>>}
EveryGate == {[With(AllGated(n)) EXCEPT !.release = v] :
                 n \in {"no-cache", "live-cache-ttl-seconds"}, v \in Releases}

Asked == {<< >>, <<Of("LD_LIBRARY_PATH")>>, <<Lower("LD_LIBRARY_PATH")>>, <<Of("MY_TOKEN")>>,
          <<Lower("MY_TOKEN")>>, <<Of("PATH"), Lower("PATH")>>,
          <<Of("PATH"), Lower("PATH"), Of("LD_LIBRARY_PATH")>>}
Environments ==
    {[Usual EXCEPT !.platform = p, !.asked = a, !.source = s, !.envToken = t] :
        p \in {"linux"}, a \in Asked,
        s \in {Source, {Lower(w) : w \in MCWords}, Source \cup {Lower("PATH"), Lower("MY_TOKEN")}},
        t \in BOOLEAN}
    \cup {[Usual EXCEPT !.platform = "win32", !.asked = a, !.source = s] :
             a \in Asked, s \in {Source, {Lower(w) : w \in MCWords}}}

MCWorkflows == OneInput \cup TwoInputs \cup Stages \cup EveryGate \cup Environments

AllInputs == InputSpace
==============================================================================
