---- MODULE DemoRegister ----
(***************************************************************************)
(* What the owner's console may rely on about a demo, whatever runs beside *)
(* it: one state, moved along the closed set; one term, issued on entry to *)
(* PROVISIONING, whose end is moved on once at most and never otherwise;   *)
(* an extended demo is never LIVE again; one hostname, never another's.    *)
(***************************************************************************)
EXTENDS Integers

CONSTANTS Demos, Labels, Null, LeaseDays, ExtensionDays,
          Moves  \* the states a demo may move to from each state

VARIABLES state, issued, ends, extended, hostname

vars == <<state, issued, ends, extended, hostname>>

Unborn == "none"

Init ==
    /\ state = [d \in Demos |-> Unborn]
    /\ issued = [d \in Demos |-> Null]
    /\ ends = [d \in Demos |-> Null]
    /\ extended = [d \in Demos |-> FALSE]
    /\ hostname = [l \in Labels |-> Null]

Begin(d) ==
    /\ state[d] = Unborn
    /\ state' = [state EXCEPT ![d] = "VERIFIED"]
    /\ UNCHANGED <<issued, ends, extended, hostname>>

\* The term starts, at a time nobody chooses.
Provision(d) ==
    /\ state[d] # Unborn /\ "PROVISIONING" \in Moves[state[d]]
    /\ state' = [state EXCEPT ![d] = "PROVISIONING"]
    /\ issued'[d] \in Int
    /\ issued' = [issued EXCEPT ![d] = issued'[d]]
    /\ ends' = [ends EXCEPT ![d] = issued'[d] + LeaseDays]
    /\ UNCHANGED <<extended, hostname>>

\* Any other move leaves the term alone.
Move(d) ==
    /\ state[d] # Unborn
    /\ \E to \in Moves[state[d]] \ {"PROVISIONING"} :
          /\ to = "EXTENDED" => extended[d]
          /\ to = "LIVE" => ~extended[d]
          /\ state' = [state EXCEPT ![d] = to]
    /\ UNCHANGED <<issued, ends, extended, hostname>>

Extend(d) ==
    /\ state[d] \in {"LIVE", "EXPIRING"} /\ ~extended[d]
    /\ state' = [state EXCEPT ![d] = "EXTENDED"]
    /\ ends' = [ends EXCEPT ![d] = @ + ExtensionDays]
    /\ extended' = [extended EXCEPT ![d] = TRUE]
    /\ UNCHANGED <<issued, hostname>>

Name(d) ==
    /\ \E l \in Labels : /\ hostname[l] = Null
                         /\ hostname' = [hostname EXCEPT ![l] = d]
    /\ \A l \in Labels : hostname[l] # d
    /\ UNCHANGED <<state, issued, ends, extended>>

Next == \E d \in Demos : Begin(d) \/ Provision(d) \/ Move(d) \/ Extend(d) \/ Name(d)

Spec == Init /\ [][Next]_vars

====
