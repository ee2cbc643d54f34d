-------------------------------- MODULE Pc --------------------------------
(***************************************************************************)
(* The machine that SON's tools act on, and the tools: those of            *)
(* tools/windows_control.py and tools/docker_control.py, and of plugins/   *)
(* where they differ.  A tool is the set of its outcomes: the machine      *)
(* after it and what it answers.  Power commands are started in processes  *)
(* of their own (Popen) and run when Windows comes to them, in any order.  *)
(***************************************************************************)
EXTENDS Integers, FiniteSets

CONSTANTS Processes,   \* records [pid, name, texts]: texts that name contains
          Files,       \* paths the tools are given
          Containers,  \* Docker containers
          Protected    \* paths _is_protected_path refuses, a subset of Files

ASSUME PcAssumption ==
  /\ \A p \in Processes : p.name \in p.texts
  /\ Protected \subseteq Files

PowerCommands == {"shutdown", "restart", "abort"}

(* mixer: pycaw, or where it cannot be imported, nircmd.  files: 0 is a      *)
(* missing file, -1 one cut short by a failed write.                         *)
Mixers == {"pycaw", "nircmd"}

Machines == [mixer : Mixers, volume : 0 .. 100, sound : {"on", "muted"},
             bright : 0 .. 100, power : {"none", "shutdown", "restart"},
             spool : [PowerCommands -> Nat], clip : Int,
             procs : SUBSET Processes, files : [Files -> Int],
             up : SUBSET Containers]

NewMachine(mixer) ==
  [mixer |-> mixer, volume |-> 40, sound |-> "on", bright |-> 40,
   power |-> "none", spool |-> [c \in PowerCommands |-> 0], clip |-> 0,
   procs |-> Processes, files |-> [f \in Files |-> f], up |-> Containers]

Outcome(m, said) == [pc |-> m, said |-> said]
Clamp(n) == IF n < 0 THEN 0 ELSE IF n > 100 THEN 100 ELSE n

-----------------------------------------------------------------------------
(* Sound and light.  nircmd is told a level; its return code is not looked   *)
(* at, and a mute stays.                                                     *)
Nircmd(m, n) ==
  {Outcome([m EXCEPT !.volume = Clamp(n)], "by nircmd"), Outcome(m, "by nircmd"),
   Outcome(m, "failed")}

(* Mutant of SetVolume: a level does not end a mute.                         *)
SetVolumeKeepsMute(m, n) ==
  IF m.mixer = "nircmd" THEN Nircmd(m, n)
  ELSE IF Clamp(n) = 0
  THEN {Outcome([m EXCEPT !.sound = "muted"], "muted"), Outcome(m, "raised")}
  ELSE {Outcome(m, "unmuted"), Outcome(m, "raised")}

(* set_volume calls the device once to mute, which keeps the level, and      *)
(* twice for a level: this is the first call, SetMute.  COM may raise.       *)
SetVolume(m, n) ==
  IF m.mixer = "nircmd" THEN Nircmd(m, n)
  ELSE IF Clamp(n) = 0
  THEN {Outcome([m EXCEPT !.sound = "muted"], "muted"), Outcome(m, "raised")}
  ELSE {Outcome([m EXCEPT !.sound = "on"], "unmuted"), Outcome(m, "raised")}

(* The second call, SetMasterVolumeLevelScalar.                              *)
SetLevel(m, n) ==
  {Outcome([m EXCEPT !.volume = n], "set"), Outcome(m, "raised")}

(* The plugin's set_volume only sets the level, and needs pycaw.             *)
PluginSetVolume(m, n) ==
  {Outcome(m, "failed")} \cup
  IF m.mixer = "nircmd" THEN {} ELSE {Outcome([m EXCEPT !.volume = Clamp(n)], "set")}

SetBrightness(m, n) ==
  {Outcome([m EXCEPT !.bright = Clamp(n)], "set"), Outcome(m, "failed")}

-----------------------------------------------------------------------------
(* Power.  The tools start shutdown.exe and answer at once.                  *)
Spool(m, c) == [m EXCEPT !.spool[c] = @ + 1]

ShutdownPc(m)     == {Outcome(Spool(m, "shutdown"), "scheduled")}
RestartPc(m)      == {Outcome(Spool(m, "restart"), "scheduled")}
CancelShutdown(m) == {Outcome(Spool(m, "abort"), "cancelled")}

(* Windows runs shutdown.exe: a schedule is refused while one is pending.    *)
ShutdownExe(m, c) ==
  [m EXCEPT !.spool[c] = @ - 1,
            !.power = IF c = "abort" THEN "none"
                      ELSE IF @ = "none" THEN c ELSE @]

(* The plugin's two refuse unless SON_BYPASS_CONFIRMATION is set.            *)
PluginPower(m, c, bypass) ==
  IF bypass THEN {Outcome(Spool(m, c), "scheduled"), Outcome(m, "failed")}
  ELSE {Outcome(m, "refused")}

-----------------------------------------------------------------------------
(* Processes.  A known name starts a process, any other one perhaps.         *)
OpenApplication(m, p) ==
  {Outcome([m EXCEPT !.procs = @ \cup {p}], "opened"), Outcome(m, "failed"),
   Outcome(m, "attempted"), Outcome([m EXCEPT !.procs = @ \cup {p}], "attempted")}

PluginOpenApplication(m, p, listed) ==
  IF listed
  THEN {Outcome([m EXCEPT !.procs = @ \cup {p}], "opened"), Outcome(m, "failed")}
  ELSE {Outcome(m, "refused")}

(* Every match is terminated, or denies it.                                  *)
Terminate(m, found) ==
  {Outcome([m EXCEPT !.procs = @ \ S], IF S = {} THEN "none" ELSE "closed") :
     S \in SUBSET found}

CloseApplication(m, text) ==
  Terminate(m, {p \in m.procs : p.name = text})

PluginCloseApplication(m, text) ==
  Terminate(m, {p \in m.procs : text \in p.texts})

(* A PID comes first.  Where there is no such process, access is denied, or  *)
(* the process has gone when its name is asked for, the PID is taken for a   *)
(* part of a name.                                                           *)
KillProcess(m, text) ==
  LET named(n) == Terminate(n, {p \in n.procs : text \in p.texts})
      ended(p) == [m EXCEPT !.procs = @ \ {p}]
  IN named(m) \cup UNION {{Outcome(ended(p), "closed")} \cup named(ended(p)) :
                            p \in {q \in m.procs : q.pid = text}}

-----------------------------------------------------------------------------
(* Files: write_file, and the files plugin's copy, move and delete.          *)
WriteFile(m, f, c) ==
  {Outcome([m EXCEPT !.files[f] = c], "written"), Outcome(m, "failed"),
   Outcome([m EXCEPT !.files[f] = -1], "failed")}

(* A file is not copied onto itself; a copy may stop half way.               *)
CopyPath(m, f, g) ==
  IF m.files[f] = 0 THEN {Outcome(m, "not found")}
  ELSE IF f = g THEN {Outcome(m, "failed")}
  ELSE {Outcome([m EXCEPT !.files[g] = m.files[f]], "copied"),
        Outcome([m EXCEPT !.files[g] = -1], "failed"), Outcome(m, "failed")}

(* shutil.move renames, or where it cannot, copies and then unlinks.         *)
MovePath(m, f, g) ==
  IF m.files[f] = 0 THEN {Outcome(m, "not found")}
  ELSE {Outcome([m EXCEPT !.files = [@ EXCEPT ![f] = 0, ![g] = m.files[f]]],
                "moved"),
        Outcome([m EXCEPT !.files[g] = m.files[f]], "failed"),
        Outcome(m, "failed")}

DeletePath(m, f) ==
  IF m.files[f] = 0 THEN {Outcome(m, "not found")}
  ELSE IF f \in Protected THEN {Outcome(m, "forbidden")}
  ELSE {Outcome([m EXCEPT !.files[f] = 0], "deleted"), Outcome(m, "failed")}

(* What a tool leaves that writes over some of the files G: all that it      *)
(* meant to, or some, the last one perhaps cut short.                        *)
Overwrite(m, G) ==
  LET after(S) == [m EXCEPT !.files = [f \in Files |-> IF f \in S THEN 8
                                                       ELSE m.files[f]]]
  IN UNION {{Outcome(after(S), "done"), Outcome(after(S), "failed")} \cup
            {Outcome([after(S) EXCEPT !.files[g] = -1], "failed") : g \in G} :
              S \in SUBSET G}

(* make_archive writes over an archive of that name; an archive's members,   *)
(* and the packages of a requirements.txt, replace files of theirs.          *)
CompressFolder(m, f) ==
  IF m.files[f] = 0 THEN {Outcome(m, "not found")}
  ELSE UNION {Overwrite(m, {g}) : g \in Files \ {f}}

ExtractZip(m, f) ==
  {Outcome(m, "not found")} \cup
  IF m.files[f] = 0 THEN {} ELSE Overwrite(m, Files \ {f})

InstallRequirements(m, f) ==
  IF m.files[f] = 0 THEN {Outcome(m, "not found")}
  ELSE Overwrite(m, Files \ {f})

(* take_screenshot saves to the path it is given, over what is there.        *)
TakeScreenshot(m, f) == Overwrite(m, {f})

(* "Copied", whatever PowerShell returns.                                    *)
SetClipboard(m, c) ==
  {Outcome(n, said) : n \in {m, [m EXCEPT !.clip = c]}, said \in {"copied", "failed"}}

(* A shell command that deletes f: it may be done although it timed out.     *)
RunCommand(m, f) ==
  LET gone == [m EXCEPT !.files[f] = 0]
  IN {Outcome(gone, "output"), Outcome(m, "exit code"),
      Outcome(gone, "timed out"), Outcome(m, "timed out")}

(* Docker does what it is told, or not, also after the 15 seconds.           *)
Docker(m, k, running) ==
  LET done == [m EXCEPT !.up = IF running THEN @ \cup {k} ELSE @ \ {k}]
  IN {Outcome(done, "done"), Outcome(m, "failed"), Outcome(done, "failed")}

DockerRestart(m, k) ==
  {Outcome([m EXCEPT !.up = @ \cup {k}], "done"), Outcome(m, "failed"),
   Outcome([m EXCEPT !.up = @ \ {k}], "failed")}

-----------------------------------------------------------------------------
(* What of m is gone in n: content of a file or of the clipboard, a process, *)
(* a container, or the time Dad has before the machine goes down.            *)
Contents(m) == {m.files[f] : f \in Files} \ {0, -1}

Loses(m, n) ==
  \/ Contents(m) \ Contents(n) # {}
  \/ m.procs \ n.procs # {}
  \/ m.up \ n.up # {}
  \/ m.clip # n.clip
  \/ \E c \in {"shutdown", "restart"} : n.spool[c] > m.spool[c]
=============================================================================
