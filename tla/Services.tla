------------------------------ MODULE Services ------------------------------
(***************************************************************************)
(* What watches the services SON depends on.  core/health.py's             *)
(* HealthMonitor checks one after the other for ever; core/state.py's      *)
(* SystemState polls for the GUI, the GPU (core/gpu_manager.py) at every   *)
(* tick, Ollama and Docker at every third, and its listener hands a        *)
(* summary to the window.  Both look at the Ollama that OllamaClient asks. *)
(***************************************************************************)
EXTENDS OllamaClient

CONSTANT MaxFaults  \* bound: changes of services, failed measurements

ASSUME ServicesAssumption == MaxFaults \in Nat

VARIABLES cond,   \* the condition the other services are in
          faults, \* how often one changed, or a measurement failed
          health, \* HealthMonitor: the check to make next, and _services
          state   \* SystemState: its loop, its fields, and what the window shows

watched == <<cond, faults>>
allVars == <<vars, watched, health, state>>

\* gpu "smi": NVML fails and nvidia-smi works; docker "cli": the SDK fails
\* and docker info works.
Conditions(s) ==
  CASE s = "gpu"      -> {"ok", "smi", "busy", "broken"}
    [] s = "docker"   -> {"ok", "cli", "down"}
    [] s = "camera"   -> {"active", "paused"}
    [] s \in {"mic", "chromadb"} -> {"ok", "broken"}

Checks == <<"ollama", "gpu", "mic", "chromadb", "docker", "camera">>
Services == {Checks[i] : i \in 1 .. 6}

ServicesInit ==
  /\ Init
  /\ cond = [s \in Services \ {"ollama"} |->
               IF s = "camera" THEN "active" ELSE "ok"]
  /\ faults = 0
  /\ health = [next |-> 1, status |-> [s \in Services |-> "unknown"]]
  /\ state = [running |-> TRUE, at |-> "measure", tick |-> 0, gpu |-> "none",
              ollama |-> FALSE, docker |-> FALSE, shown |-> <<>>]

\* A service other than Ollama breaks, recovers or is switched.
ConditionChanges(s) ==
  /\ faults < MaxFaults
  /\ \E c \in Conditions(s) \ {cond[s]} : cond' = [cond EXCEPT ![s] = c]
  /\ faults' = faults + 1
  /\ UNCHANGED <<vars, health, state>>

-----------------------------------------------------------------------------
(* HealthMonitor *)

\* GPUManager.get_metrics: the driver, else nvidia-smi, else zeros.
Metrics == IF cond["gpu"] = "broken" THEN "zeros" ELSE cond["gpu"]

OllamaStatus ==
  [up |-> "online", bare |-> "online", sick |-> "degraded", down |-> "offline"][server]
GpuStatus == IF Metrics = "busy" THEN "degraded" ELSE "online"
MicrophoneStatus == IF cond["mic"] = "ok" THEN "online" ELSE "offline"
ChromaStatus == IF cond["chromadb"] = "ok" THEN "online" ELSE "offline"
DockerStatus == IF cond["docker"] = "down" THEN "offline" ELSE "online"
CameraStatus == IF cond["camera"] = "active" THEN "online" ELSE "offline"

Status(s) ==
  CASE s = "ollama" -> OllamaStatus      [] s = "gpu" -> GpuStatus
    [] s = "mic" -> MicrophoneStatus     [] s = "chromadb" -> ChromaStatus
    [] s = "docker" -> DockerStatus      [] s = "camera" -> CameraStatus

\* One check of check_all, with _update_service; the loop sleeps and begins
\* again after the last.
Checked ==
  /\ health' = [next |-> (health.next % 6) + 1,
                status |-> [health.status EXCEPT
                  ![Checks[health.next]] = Status(Checks[health.next])]]
  /\ UNCHANGED <<vars, watched, state>>

-----------------------------------------------------------------------------
(* SystemState *)

\* psutil, then _update_gpu_metrics.
Measure ==
  /\ state.at = "measure"
  /\ state' = [state EXCEPT !.gpu = Metrics,
                 !.at = IF state.tick = 0 THEN "ollama" ELSE "emit"]
  /\ UNCHANGED <<vars, watched, health>>

(* Mutant of MeasureFails: the try is around the loop.                       *)
MeasureFailsEnds ==
  /\ state.at = "measure" /\ faults < MaxFaults
  /\ faults' = faults + 1
  /\ state' = [state EXCEPT !.at = "stopped"]
  /\ UNCHANGED <<vars, cond, health>>

\* An exception of psutil is logged, and the rest of the tick is left out.
MeasureFails ==
  /\ state.at = "measure" /\ faults < MaxFaults
  /\ faults' = faults + 1
  /\ state' = [state EXCEPT !.at = "sleep"]
  /\ UNCHANGED <<vars, cond, health>>

\* _update_services_status: a success other than 200 leaves the old value.
AskOllama ==
  /\ state.at = "ollama"
  /\ state' = [state EXCEPT !.at = "docker",
                 !.ollama = (Says(server) = "yes") \/ (server = "sick" /\ @)]
  /\ UNCHANGED <<vars, watched, health>>

\* The SDK, else docker info.
AskDocker ==
  /\ state.at = "docker"
  /\ state' = [state EXCEPT !.at = "emit", !.docker = cond["docker"] # "down"]
  /\ UNCHANGED <<vars, watched, health>>

Summary == <<state.gpu, state.ollama, state.docker>>

\* _emit_change(get_summary()): the window's monitor and status bar.
Emit ==
  /\ state.at = "emit"
  /\ state' = [state EXCEPT !.at = "sleep",
                 !.shown = Summary]
  /\ UNCHANGED <<vars, watched, health>>

Sleep ==
  /\ state.at = "sleep"
  /\ state' = [state EXCEPT !.tick = (@ + 1) % 3,
                 !.at = IF state.running THEN "measure" ELSE "stopped"]
  /\ UNCHANGED <<vars, watched, health>>

\* closeEvent: the loop ends with the tick it is in.
CloseWindow ==
  /\ state.running
  /\ state' = [state EXCEPT !.running = FALSE]
  /\ UNCHANGED <<vars, watched, health>>

-----------------------------------------------------------------------------
SystemStateStep ==
  Measure \/ MeasureFails \/ AskOllama \/ AskDocker \/ Emit \/ Sleep
Watching == Checked \/ SystemStateStep \/ CloseWindow

OllamaSide == Next /\ UNCHANGED <<watched, health, state>>
Surroundings == \E s \in DOMAIN cond : ConditionChanges(s)

\* Both loops run in threads of their own, and every request has a time limit.
WatchFairness == WF_allVars(Checked) /\ WF_allVars(SystemStateStep)

ServicesSpec ==
  /\ ServicesInit /\ [][OllamaSide \/ Surroundings \/ Watching]_allVars
  /\ Fairness /\ WatchFairness
-----------------------------------------------------------------------------
Works(s) == IF s = "ollama" THEN Says(server) = "yes"
            ELSE cond[s] \in {"ok", "smi", "cli", "active"}

\* What is shown is true: an Ollama that answers with another success than 200
\* leaves the status bar as it was, and a GPU nobody can ask is online with zeros.
ShownTrue ==
  /\ \A s \in Services : \/ (health.status[s] = "online") = Works(s)
                         \/ s = "gpu" /\ cond[s] = "broken"
  /\ state.running => /\ state.shown # <<>>
                      /\ (state.shown[1] = "zeros") = (cond["gpu"] = "broken")
                      /\ server = "sick" \/ state.shown[2] = Works("ollama")
                      /\ state.shown[3] = Works("docker")

\* HealthMonitor._monitor_loop, SystemState._monitor_loop: whatever fails or
\* recovers on the way, once the services stay as they are the health record
\* and, while it is open, the window come to tell what they are, for good.
DashboardsSettle == <>[]ShownTrue
=============================================================================
