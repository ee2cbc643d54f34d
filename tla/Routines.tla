------------------------------ MODULE Routines ------------------------------
(***************************************************************************)
(* tools/automation.py, with the ways a tool is reached: the model's calls *)
(* through core/action_executor.py, Dad's commands, the GUI's calls        *)
(* through core/router.py, and the steps of a routine.  The tools share    *)
(* one AutomationEngine; a routine command of Dad's makes an engine of its *)
(* own from the file.  Model calls run in a pool, a turn's side by side and *)
(* without a lock, and some go on when their turn has timed out.  A call    *)
(* acts on the machine in one step, but for set_volume, which takes two.    *)
(***************************************************************************)
EXTENDS Pc, ToolTable, Sequences

CONSTANTS Names,      \* names of routines; the default ones have version 1
          Lower(_),   \* a name as str.lower() spells it
          Defaults,   \* the names _default_routines defines
          DefaultScript, \* the steps of the default routines
          Scripts,    \* the step lists a routine is created with
          Calls,      \* records [tool, arg, kw]: kw, has a destructive keyword
          Workers,    \* threads that run the model's tool calls
          Bypass,     \* SON_BYPASS_CONFIRMATION is set
          MaxTools, MaxEdits, MaxCrashes  \* bounds of a behaviour

Requests == [tool : STRING, arg : Int, kw : BOOLEAN]

ASSUME RoutinesAssumption ==
  /\ Defaults \subseteq Names /\ 0 \notin Workers
  /\ {MaxTools, MaxEdits, MaxCrashes} \subseteq Nat
  /\ Calls \subseteq Requests
  /\ Scripts \cup {DefaultScript} \subseteq Seq(Requests)

ASSUME LowerAssumption ==
  /\ \A n \in Names : Lower(n) \in Names /\ Lower(Lower(n)) = Lower(n)
  /\ \A n \in Defaults : Lower(n) = n

(* The routines' own tools are the actions Create, Delete and RunRoutine;    *)
(* routines with such steps are left out.                                    *)
ASSUME StepsAssumption ==
  /\ \A c \in Calls : c.tool \notin DOMAIN Automation
  /\ \A s \in Scripts \cup {DefaultScript} :
       \A i \in DOMAIN s : s[i].tool \notin DOMAIN Automation

Keyboard == 0
Actors == Workers \cup {Keyboard}
Saves  == {"opened", "dumping", "written"}
Bounds == {"tools", "edits", "crashes"}

VARIABLES pc,      \* the machine
          file,    \* config/routines.json: [kind, map]
          mem,     \* _engine._routines: the version of each name, or 0
          script,  \* script[v]: the steps of version v
          job,     \* where each actor is
          running, \* the terminal program runs
          left,    \* bounds
          last,    \* history: the tool of this step and on whose word it ran
          heard,   \* history: the volume the latest answer reported, if it is
                   \* the last word, how it was set, and who muted meanwhile
          power,   \* history: the latest power call, what was under way at it
                   \* and what was scheduled
          acked,   \* history: routines reported as created, not deleted since
          harm,    \* history: a save was interrupted or overlapped
          synced   \* history: the latest save did not overlap another change

vars == <<pc, file, mem, script, job, running, left, last, heard, power,
          acked, harm, synced>>
saved   == <<acked, harm, synced>>
routine == <<file, mem, script, running>>

Absent == [n \in Names |-> 0]
Builtin == [n \in Names |-> IF n \in Defaults THEN 1 ELSE 0]

(* job[a].level: the level that a set_volume of a's has still to set, or 0.  *)
(* job[a].with: the actors whose change of the memory, or muting, overlapped *)
(* with what a does.                                                         *)
Idle == [at |-> "idle", adds |-> {}, was |-> Absent, ver |-> 0, step |-> 0,
         with |-> {}, level |-> 0]
NoTool == [tool |-> "none", by |-> "none"]
NoVolume == [how |-> "none", level |-> 0, with |-> {}]
Free(a) == job[a].at = "idle" /\ job[a].level = 0
Changing(a) == job[a].at \in Saves \cup {"changed"}
Size(map) == Cardinality({n \in Names : map[n] # 0})

(* The file cannot be parsed while it is empty or cut short.                 *)
Load == IF file.kind = "json" THEN file.map ELSE Absent

(* Nothing is told: no tool acts on the machine in this step.                *)
Untold == last' = NoTool /\ UNCHANGED <<heard, power>>

Spend(b) == left[b] > 0 /\ left' = [left EXCEPT ![b] = @ - 1]

Init ==
  /\ pc \in {NewMachine(mixer) : mixer \in Mixers}
  /\ file \in [kind : {"missing", "json"}, map : {Builtin}]
  /\ mem = Absent
  /\ script = <<DefaultScript>>
  /\ job = [a \in Actors |-> Idle]
  /\ running = FALSE
  /\ left = [b \in Bounds |-> CASE b = "tools"   -> MaxTools
                                [] b = "edits"   -> MaxEdits
                                [] b = "crashes" -> MaxCrashes]
  /\ last = NoTool
  /\ heard = NoVolume
  /\ power = [asked |-> "none", with |-> {}, was |-> "none"]
  /\ acked = Defaults
  /\ harm = FALSE /\ synced = TRUE

-----------------------------------------------------------------------------
(* What a call of the terminal's registry does to the machine: tools/ first, *)
(* then the plugins.  Any other tool changes nothing that Pc has.            *)
Effect(m, c) ==
  CASE c.tool = "set_volume"        -> SetVolume(m, c.arg)
    [] c.tool = "set_brightness"    -> SetBrightness(m, c.arg)
    [] c.tool = "shutdown_pc"       -> ShutdownPc(m)
    [] c.tool = "restart_pc"        -> RestartPc(m)
    [] c.tool = "cancel_shutdown"   -> CancelShutdown(m)
    [] c.tool = "open_application"  -> UNION {OpenApplication(m, p) :
                                        p \in {q \in Processes : q.name = c.arg}}
    [] c.tool = "close_application" -> CloseApplication(m, c.arg)
    [] c.tool = "kill_process"      -> KillProcess(m, c.arg)
    [] c.tool = "write_file"        -> WriteFile(m, c.arg, 9)
    [] c.tool = "run_command"       -> RunCommand(m, c.arg)
    [] c.tool = "take_screenshot"   -> TakeScreenshot(m, c.arg)
    [] c.tool = "set_clipboard"     -> SetClipboard(m, c.arg)
    [] c.tool \in {"docker_start", "docker_start_container"}
         -> Docker(m, c.arg, TRUE)
    [] c.tool \in {"docker_stop", "docker_stop_container"}
         -> Docker(m, c.arg, FALSE)
    [] c.tool \in {"docker_restart", "docker_restart_container"}
         -> DockerRestart(m, c.arg)
    [] c.tool = "delete_path"       -> DeletePath(m, c.arg)
    [] c.tool = "copy_path"         -> UNION {CopyPath(m, c.arg, g) : g \in Files}
    [] c.tool = "move_path"         -> UNION {MovePath(m, c.arg, g) : g \in Files}
    [] c.tool = "compress_folder"   -> CompressFolder(m, c.arg)
    [] c.tool = "extract_zip"       -> ExtractZip(m, c.arg)
    [] c.tool = "install_requirements" -> InstallRequirements(m, c.arg)
    [] OTHER                        -> {Outcome(m, "unknown")}

(* The same for the plugins' own registry.                                   *)
PluginEffect(m, c) ==
  CASE c.tool = "set_volume"        -> PluginSetVolume(m, c.arg)
    [] c.tool = "shutdown_pc"       -> PluginPower(m, "shutdown", Bypass)
    [] c.tool = "restart_pc"        -> PluginPower(m, "restart", Bypass)
    [] c.tool = "open_application"  -> UNION {PluginOpenApplication(m, p, l) :
                                        p \in {q \in Processes : q.name = c.arg},
                                        l \in BOOLEAN}
    [] c.tool = "close_application" -> PluginCloseApplication(m, c.arg)
    [] OTHER                        -> Effect(m, c)

(* The histories: what outcome o of the call c reports, on whose word.       *)
Tells(c, o, by) ==
  /\ last' = [tool |-> c.tool, by |-> by]
  /\ heard' = IF c.tool # "set_volume" THEN heard
              ELSE CASE o.said = "muted" -> [NoVolume EXCEPT !.how = "son"]
                     [] o.said = "set"   -> [NoVolume EXCEPT !.how = "gui",
                                                             !.level = Clamp(c.arg)]
                     [] OTHER            -> NoVolume
  /\ power' = IF o.pc.spool = pc.spool THEN power
              ELSE [asked |-> CHOOSE x \in PowerCommands :
                                o.pc.spool[x] > pc.spool[x],
                    with |-> {x \in PowerCommands : pc.spool[x] > 0},
                    was |-> pc.power]

(* a starts a tool on somebody's word, and is at next when it has answered.  *)
(* A set_volume that has unmuted still has its level to set; one that mutes  *)
(* is noted by those that are at it.                                         *)
Perform(a, next, c, outcomes, by) ==
  \E o \in outcomes :
    LET says(x) == c.tool = "set_volume" /\ o.said = x
    IN /\ pc' = o.pc
       /\ job' = [b \in Actors |->
            IF b = a
            THEN IF says("unmuted") THEN [next EXCEPT !.level = Clamp(c.arg),
                                                      !.with = {}]
                 ELSE next
            ELSE IF says("muted") /\ job[b].level # 0
            THEN [job[b] EXCEPT !.with = @ \cup {a}]
            ELSE job[b]]
       /\ Tells(c, o, by)

(* ActionExecutor.execute, then the tool, in a thread of the turn's pool.  A *)
(* denied call does nothing.                                                 *)
ModelCall(a, c) ==
  /\ running /\ Free(a) /\ Spend("tools")
  /\ Perform(a, Idle, c, Effect(pc, c),
             IF Confirms(c.tool, c.kw) THEN "yes" ELSE "free")
  /\ UNCHANGED <<routine, saved>>

(* CommandHandler runs some tools without the registry.                      *)
CommandTools == {"open_application", "close_application", "set_volume",
                 "set_brightness", "docker_start", "docker_stop",
                 "docker_restart"}

Command(c) ==
  /\ running /\ Free(Keyboard) /\ c.tool \in CommandTools
  /\ Spend("tools")
  /\ Perform(Keyboard, Idle, c, Effect(pc, c), "dad")
  /\ UNCHANGED <<routine, saved>>

(* IntentRouter.dispatch_tool: the dialog asks as the executor does.         *)
GuiCall(c) ==
  /\ c.tool \in DOMAIN PluginTools /\ Spend("tools")
  /\ \E o \in PluginEffect(pc, c) :
       /\ pc' = o.pc
       /\ Tells(c, o, IF PluginTools[c.tool] \in AskedAbout THEN "gui yes"
                      ELSE "gui")
  /\ UNCHANGED <<routine, job, saved>>

(* set_volume's second call of the device, and its answer.                   *)
VolumeEnds(a) ==
  /\ job[a].level # 0
  /\ job' = [job EXCEPT ![a].level = 0, ![a].with = {}]
  /\ \E o \in SetLevel(pc, job[a].level) :
       /\ pc' = o.pc
       /\ heard' = IF o.said # "set" THEN NoVolume
                   ELSE [how |-> "son", level |-> job[a].level,
                         with |-> job[a].with]
  /\ last' = NoTool
  /\ UNCHANGED <<file, mem, script, running, left, power, saved>>

(* Windows runs a command that a tool has started.                           *)
RunSpooled(x) ==
  /\ pc.spool[x] > 0
  /\ pc' = ShutdownExe(pc, x)
  /\ Untold /\ UNCHANGED <<routine, job, left, saved>>

-----------------------------------------------------------------------------
(* The memory changes, then _save starts.  Each change notes those that      *)
(* overlap with it, from the first's start to its file's close.              *)
Change(a, adds) ==
  LET others == {b \in Actors \ {a} : Changing(b)}
  IN job' = [b \in Actors |->
               IF b = a THEN [Idle EXCEPT !.at = "changed", !.adds = adds,
                                          !.with = others]
               ELSE IF b \in others THEN [job[b] EXCEPT !.with = @ \cup {a}]
               ELSE job[b]]

(* Mutant of Create: the routine is not saved.                               *)
CreateUnsaved(a, n, s) ==
  /\ running /\ Free(a) /\ Spend("edits")
  /\ script' = Append(script, s)
  /\ mem' = [mem EXCEPT ![n] = Len(script')]
  /\ last' = [tool |-> "create_routine", by |-> "free"]
  /\ acked' = acked \cup {n}
  /\ UNCHANGED <<pc, file, job, running, heard, power, harm, synced>>

Create(a, n, s) ==
  /\ running /\ Free(a) /\ Spend("edits")
  /\ script' = Append(script, s)
  /\ mem' = [mem EXCEPT ![n] = Len(script')]
  /\ Change(a, {n})
  /\ last' = [tool |-> "create_routine", by |-> "free"]
  /\ UNCHANGED <<pc, file, running, heard, power, saved>>

(* Mutant of Delete: the file keeps the routine.                             *)
DeleteUnsaved(a, n) ==
  /\ running /\ Free(a) /\ mem[n] # 0 /\ Spend("edits")
  /\ mem' = [mem EXCEPT ![n] = 0]
  /\ acked' = acked \ {n}
  /\ last' = [tool |-> "delete_routine", by |-> "yes"]
  /\ UNCHANGED <<pc, file, script, job, running, heard, power, harm, synced>>

Delete(a, n) ==
  /\ running /\ Free(a) /\ mem[n] # 0 /\ Spend("edits")
  /\ mem' = [mem EXCEPT ![n] = 0]
  /\ Change(a, {})
  /\ acked' = acked \ {n}
  /\ last' = [tool |-> "delete_routine", by |-> "yes"]
  /\ UNCHANGED <<pc, file, script, running, heard, power, harm, synced>>

(* open(..., "w") empties the file.                                          *)
OpenFile(a) ==
  /\ job[a].at = "changed"
  /\ file' = [file EXCEPT !.kind = "empty"]
  /\ job' = [job EXCEPT ![a].at = "opened"]
  /\ Untold /\ UNCHANGED <<pc, mem, script, running, left, saved>>

(* json.dump starts to go through the dictionary ...                         *)
DumpBegins(a) ==
  /\ job[a].at = "opened"
  /\ job' = [job EXCEPT ![a].at = "dumping", ![a].was = mem]
  /\ Untold /\ UNCHANGED <<pc, file, mem, script, running, left, saved>>

(* ... and raises if its size has changed: what was written is flushed, and  *)
(* the tool fails.  Otherwise every entry is the one found or a later one.   *)
DumpRaises(a) ==
  /\ job[a].at = "dumping" /\ Size(job[a].was) # Size(mem)
  /\ file' = [file EXCEPT !.kind = "cut"]
  /\ job' = [job EXCEPT ![a] = Idle]
  /\ harm' = TRUE /\ synced' = FALSE
  /\ Untold /\ UNCHANGED <<pc, mem, script, running, left, acked>>

DumpEnds(a) ==
  /\ job[a].at = "dumping" /\ Size(job[a].was) = Size(mem)
  /\ \E text \in [Names -> 0 .. Len(script)] :
       /\ \A n \in Names : text[n] \in {job[a].was[n], mem[n]}
       /\ job' = [job EXCEPT ![a].at = "written", ![a].was = text]
  /\ Untold /\ UNCHANGED <<pc, file, mem, script, running, left, saved>>

(* The file is closed, which writes the text from the file's start.  If      *)
(* another writer has closed it since it was emptied, and wrote more, the    *)
(* end of that text stays.                                                   *)
CloseFile(a) ==
  /\ job[a].at = "written"
  /\ \/ file' = [kind |-> "json", map |-> job[a].was]
     \/ /\ file.kind # "empty" /\ file # [kind |-> "json", map |-> job[a].was]
        /\ file' = [file EXCEPT !.kind = "cut"]
  /\ job' = [job EXCEPT ![a] = Idle]
  /\ acked' = acked \cup job[a].adds
  /\ harm' = (harm \/ job[a].with # {})
  /\ synced' = (job[a].with = {})
  /\ Untold /\ UNCHANGED <<pc, mem, script, running, left>>

-----------------------------------------------------------------------------
(* run_routine: the steps of the version found, one after the other, through *)
(* the registry and without the executor.  What a step raises is text.       *)
StartRun(a, v) ==
  job' = [job EXCEPT ![a] = [Idle EXCEPT !.at = "run", !.ver = v]]

RunRoutine(a, n) ==
  /\ running /\ Free(a) /\ mem[n] # 0 /\ Spend("edits")
  /\ StartRun(a, mem[n])
  /\ Untold /\ UNCHANGED <<pc, file, mem, script, running, saved>>

(* Dad's command is put in lower case, and finds the routine of that name in *)
(* the file, or does not.                                                    *)
KeyRun(n) ==
  /\ running /\ Free(Keyboard) /\ Load[Lower(n)] # 0 /\ Spend("tools")
  /\ StartRun(Keyboard, Load[Lower(n)])
  /\ Untold /\ UNCHANGED <<pc, file, mem, script, running, saved>>

KeyNotFound(n) ==
  /\ running /\ Free(Keyboard) /\ Load[Lower(n)] = 0 /\ Spend("tools")
  /\ Untold /\ UNCHANGED <<pc, routine, job, saved>>

(* A tool that is not registered is skipped.                                 *)
RunStep(a) ==
  LET steps == script[job[a].ver]
      done  == [job[a] EXCEPT !.step = @ + 1]
      c     == steps[done.step]
  IN /\ job[a].at = "run" /\ job[a].level = 0 /\ job[a].step < Len(steps)
     /\ IF c.tool \in DOMAIN TerminalTools
        THEN Perform(a, done, c, Effect(pc, c), "routine")
        ELSE Untold /\ UNCHANGED pc /\ job' = [job EXCEPT ![a] = done]
     /\ UNCHANGED <<routine, left, saved>>

RunEnds(a) ==
  /\ job[a].at = "run" /\ job[a].level = 0
  /\ job[a].step = Len(script[job[a].ver])
  /\ job' = [job EXCEPT ![a] = Idle]
  /\ Untold /\ UNCHANGED <<pc, file, mem, script, running, left, saved>>

-----------------------------------------------------------------------------
(* Mutant of Start: the default routines, whatever the file says.            *)
StartFresh ==
  /\ ~running
  /\ running' = TRUE
  /\ file' = [kind |-> "json", map |-> Builtin]
  /\ mem' = Builtin /\ synced' = TRUE
  /\ Untold /\ UNCHANGED <<pc, script, job, left, acked, harm>>

(* The program starts: a missing file is made from the default routines, an  *)
(* unreadable one is taken for no routines and stays.                        *)
Start ==
  /\ ~running
  /\ running' = TRUE
  /\ file' = IF file.kind = "missing" THEN [kind |-> "json", map |-> Builtin]
             ELSE file
  /\ mem' = IF file.kind = "missing" THEN Builtin ELSE Load
  /\ synced' = TRUE
  /\ Untold /\ UNCHANGED <<pc, script, job, left, acked, harm>>

(* The program ends at any point.  The machine keeps what it was told.       *)
Crash ==
  /\ running /\ Spend("crashes")
  /\ running' = FALSE
  /\ mem' = Absent
  /\ harm' = (harm \/ \E a \in Actors : job[a].at \in Saves)
  /\ job' = [a \in Actors |-> Idle]
  /\ Untold /\ UNCHANGED <<pc, file, script, acked, synced>>

(* Workers are alike: the next one free takes a call.                        *)
FreeWorker ==
  LET free == {a \in Workers : Free(a)}
  IN IF free = {} THEN {} ELSE {CHOOSE a \in free : TRUE}

Next ==
  \/ \E c \in Calls :
       Command(c) \/ GuiCall(c) \/ \E a \in FreeWorker : ModelCall(a, c)
  \/ \E x \in PowerCommands : RunSpooled(x)
  \/ \E n \in Names, a \in FreeWorker :
       \/ \E s \in Scripts : Create(a, n, s)
       \/ Delete(a, n)
       \/ RunRoutine(a, n)
  \/ \E n \in Names : KeyRun(n) \/ KeyNotFound(n)
  \/ \E a \in Workers :
       OpenFile(a) \/ DumpBegins(a) \/ DumpRaises(a) \/ DumpEnds(a) \/ CloseFile(a)
  \/ \E a \in Actors : VolumeEnds(a) \/ RunStep(a) \/ RunEnds(a)
  \/ Start \/ Crash

Spec == Init /\ [][Next]_vars

-----------------------------------------------------------------------------
Saving == \E a \in Actors : Changing(a)

(* With no change under way and none overlapped by another, the file says    *)
(* what the engine holds: what it will hold after a restart.                 *)
FileFollowsMemory ==
  running /\ ~Saving /\ synced => Load = mem

(* A routine that SON has said is created stays until it is deleted, also    *)
(* through a restart, unless a crash hits between open() and the end of the  *)
(* with of _save, or two changes overlap.                                    *)
CreatedIsKept == running /\ ~harm => \A n \in acked : mem[n] # 0

(* Dad's command misses a routine that the engine has under a name in lower  *)
(* case only while it is being written, or after a write that was            *)
(* interrupted or overlapped.                                                *)
MissedOnlyMidSave ==
  [][\A n \in Names : KeyNotFound(n) =>
       mem[n] = 0 \/ n # Lower(n) \/ Saving \/ harm]_vars

(* Data, a process, a container or the machine's uptime is lost on Dad's     *)
(* word, by a routine, or by one of these tools, which the table lets run    *)
(* unasked: they write over files or the clipboard, close or stop something, *)
(* or run a command without a keyword.                                       *)
MayLose == {"write_file", "copy_path", "move_path", "compress_folder",
            "extract_zip", "install_requirements", "take_screenshot",
            "set_clipboard", "run_command", "close_application",
            "docker_stop", "docker_stop_container",
            "docker_restart", "docker_restart_container"}

NothingLostUnasked ==
  [][Loses(pc, pc') => \/ last'.by \in {"yes", "gui yes", "dad", "routine"}
                       \/ last'.tool \in MayLose]_vars

(* What the latest answer said about the volume stays true until a next      *)
(* set_volume begins, save that a level is silent when another call has      *)
(* muted since this one unmuted, and that the GUI's set_volume never unmutes.*)
(* What nircmd was told is not vouched for.                                  *)
AudibleAsReported ==
  /\ heard.how = "gui" \/ heard.level > 0 => pc.volume = heard.level
  /\ heard.how = "son" =>
       IF heard.level = 0 THEN pc.sound = "muted"
       ELSE heard.with = {} => pc.sound = "on"

(* What the latest power call reported is what is scheduled once Windows has *)
(* run it, unless another was under way at the time; a schedule that was     *)
(* pending stays, whatever is asked next.                                    *)
PowerAsReported ==
  power.with = {} /\ (\A x \in PowerCommands : pc.spool[x] = 0) =>
    pc.power = IF power.asked \in {"none", "abort"} THEN "none"
               ELSE IF power.was # "none" THEN power.was
               ELSE power.asked

(* The answers about volume and power hold.                                  *)
AnswersHold == AudibleAsReported /\ PowerAsReported

(* action_executor.py:3, "All tool calls flow through ActionExecutor": a     *)
(* sensitive or critical tool runs after a yes.                              *)
AlwaysConfirmed ==
  [][last' # last /\ last'.tool \in DOMAIN TerminalTools
     /\ TerminalTools[last'.tool] \in AskedAbout => last'.by \in {"yes", "gui yes"}]_vars
=============================================================================
