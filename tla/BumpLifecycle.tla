---------------------------- MODULE BumpLifecycle ---------------------------
(***************************************************************************)
(* What a version bump promises its tenant, without machines, calls or     *)
(* locks.  A bump is open from the moment the new colour may begin to      *)
(* serve.  It is decided once: the new colour is kept, and only then is    *)
(* the old one taken away; or it is given up, and only then is the new one *)
(* taken away; or neither can be told to be safe, both stay as they are    *)
(* and a person is told.                                                   *)
(***************************************************************************)
CONSTANT Tenants

VARIABLES
    verdict,   \* what has been decided of the bump of each tenant
    serving,   \* the colours its traffic reaches
    told       \* a person was told of it

vars == <<verdict, serving, told>>

Init ==
    /\ verdict = [t \in Tenants |-> "undecided"]
    /\ serving = [t \in Tenants |-> {"old"}]
    /\ told = [t \in Tenants |-> FALSE]

\* The verdicts that may follow one another.
Moves == {<<"undecided", "open">>, <<"undecided", "dropped">>,
          <<"open", "closing">>, <<"closing", "closed">>,
          <<"open", "reverting">>, <<"reverting", "reverted">>,
          <<"open", "unsafe">>, <<"reverting", "unsafe">>, <<"reverted", "unsafe">>,
          <<"unsafe", "paged">>}

Same(t) == verdict'[t] = verdict[t] /\ serving'[t] = serving[t] /\ told'[t] = told[t]

Decide(t) ==
    /\ <<verdict[t], verdict'[t]>> \in Moves
    /\ verdict'[t] = "closing" => "new" \in serving[t]
    /\ verdict'[t] = "closed" => "old" \notin serving[t]
    /\ verdict'[t] = "reverted" => "new" \notin serving[t]
    /\ verdict'[t] = "paged" => told[t]
    /\ serving'[t] = serving[t] /\ told'[t] = told[t]

Join(t) ==
    /\ verdict[t] \in {"open", "unsafe", "paged"}
    /\ serving'[t] = serving[t] \cup {"new"}
    /\ verdict'[t] = verdict[t] /\ told'[t] = told[t]

Leave(t) ==
    /\ \/ verdict[t] = "closing" /\ serving'[t] = serving[t] \ {"old"}
       \/ verdict[t] \in {"reverting", "reverted"} /\ serving'[t] = serving[t] \ {"new"}
    /\ verdict'[t] = verdict[t] /\ told'[t] = told[t]

Tell(t) ==
    /\ verdict[t] = "unsafe" /\ told'[t] = TRUE
    /\ verdict'[t] = verdict[t] /\ serving'[t] = serving[t]

\* What several bumps had under way may come about at one instant, a crash.
Next == \A t \in Tenants : Same(t) \/ Decide(t) \/ Join(t) \/ Leave(t) \/ Tell(t)

Spec == Init /\ [][Next]_vars

\* A bump serves from some colour at every instant.
Served == \A t \in Tenants : serving[t] # {}

\* Nobody is said to have been told who was not.
ToldWhenPaged == \A t \in Tenants : verdict[t] = "paged" => told[t]

\* What is decided for good stays, and a bump that is closing can only close.
Final(v) == IF v \in {"dropped", "closed", "paged"} THEN {v}
            ELSE IF v = "closing" THEN {v, "closed"} ELSE {}
DecidedOnce ==
    [][\A t \in Tenants : Final(verdict[t]) # {} => verdict'[t] \in Final(verdict[t])]_vars

\* A colour leaves only once the decision against it is made: the colour that stays
\* carries the traffic.
Carried == \A t \in Tenants :
    IF verdict[t] \in {"closing", "closed"} THEN "new" \in serving[t] ELSE "old" \in serving[t]
=============================================================================
