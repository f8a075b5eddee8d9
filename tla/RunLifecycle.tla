---------------------------- MODULE RunLifecycle ----------------------------
(***************************************************************************)
(* What the API promises about underwriting runs to a client that polls    *)
(* applications and runs, whichever driver executes them: a run is queued, *)
(* running, then completed with a list of results or failed without one,   *)
(* and its application shows "underwriting" exactly as long.               *)
(***************************************************************************)
CONSTANTS Apps, Runs, NoApp

VARIABLES app, run, owner,
          listed    \* the run has results

vars == <<app, run, owner, listed>>

Active == {"queued", "running"}

Init ==
    /\ app = [a \in Apps |-> "absent"]
    /\ run = [r \in Runs |-> "none"]
    /\ owner = [r \in Runs |-> NoApp]
    /\ listed = [r \in Runs |-> FALSE]

\* The application's own lifecycle while it has no runs.
Edit(a) ==
    /\ \/ app[a] = "absent" /\ app' = [app EXCEPT ![a] = "draft"]
       \/ app[a] = "draft" /\ app' = [app EXCEPT ![a] = "submitted"]
       \/ app[a] = "draft" /\ app' = [app EXCEPT ![a] = "deleted"]
    /\ UNCHANGED <<run, owner, listed>>

Queue(a, r) ==
    /\ app[a] \in {"submitted", "completed"}
    /\ run[r] = "none"
    /\ run' = [run EXCEPT ![r] = "queued"]
    /\ owner' = [owner EXCEPT ![r] = a]
    /\ app' = [app EXCEPT ![a] = "underwriting"]
    /\ UNCHANGED listed

Begin(r) ==
    /\ run[r] = "queued"
    /\ run' = [run EXCEPT ![r] = "running"]
    /\ UNCHANGED <<app, owner, listed>>

\* A run settles and hands its application back in the same step.
Settle(r, status, shown) ==
    /\ app[owner[r]] = "underwriting"
    /\ run' = [run EXCEPT ![r] = status]
    /\ app' = [app EXCEPT ![owner[r]] = shown]
    /\ UNCHANGED owner

Complete(r) ==
    /\ run[r] = "running"
    /\ Settle(r, "completed", "completed")
    /\ listed' = [listed EXCEPT ![r] = TRUE]

Fail(r) ==
    /\ run[r] \in Active
    /\ Settle(r, "failed", "submitted")
    /\ UNCHANGED listed

Next ==
    \/ \E a \in Apps : Edit(a)
    \/ \E a \in Apps, r \in Runs : Queue(a, r)
    \/ \E r \in Runs : Begin(r) \/ Complete(r) \/ Fail(r)

Spec == Init /\ [][Next]_vars
=============================================================================
