----------------------------- MODULE MCServices -----------------------------
(* The clients and the watchers of Ollama do not read each other's state: a  *)
(* behaviour moves one side of them, which side tells.                       *)
EXTENDS Services

VARIABLE side  \* "client" or "watchers"

mcVars == <<allVars, side>>

\* Ollama may change before anybody asks it: "up" stands for any beginning.
MCInit == ServicesInit /\ server = "up" /\ side \in {"client", "watchers"}

MCNext ==
  /\ side' = side
  /\ \/ side = "client" /\ OllamaSide
     \/ /\ side = "watchers"
        /\ \/ Surroundings
           \/ Watching
           \/ /\ \E s \in Servers : ServerChanges(s)
              /\ UNCHANGED <<watched, health, state>>

MCSpec ==
  /\ MCInit /\ [][MCNext]_mcVars
  /\ \A p \in Checkers : WF_mcVars(side = "client" /\ Check(p) /\ MCNext)
  /\ \A r \in Requests : WF_mcVars(side = "client" /\ Request(r) /\ MCNext)
  /\ WF_mcVars(side = "watchers" /\ Checked /\ MCNext)
  /\ WF_mcVars(side = "watchers" /\ SystemStateStep /\ MCNext)

\* DashboardsSettle of the behaviours in which the watchers move.
WatchersSettle == side = "watchers" => DashboardsSettle
=============================================================================
