--------------------------- MODULE RoutinesProofs ---------------------------
(***************************************************************************)
(* Proofs about Routines for any routines, workers, calls and bounds.      *)
(* First, what is on disk, what the engine holds and what SON has said it  *)
(* created agree, but for a save that was interrupted or overlapped: a     *)
(* save is four steps without a lock, so the argument is about saves that  *)
(* run alone.  Then the tools: what each does to the machine, tool by      *)
(* tool, so that what SON said about sound and power stays true, and, with *)
(* what the tables say of each, nothing is lost that nobody asked for.     *)
(***************************************************************************)
EXTENDS Routines, TLAPS

USE RoutinesAssumption

Maps == [Names -> Nat]

(* Only a tool's call or a routine's step has a level still to set.          *)
Jobs == {j \in [at : {"idle", "changed", "opened", "dumping", "written", "run"},
                adds : SUBSET Names, was : Maps, ver : Nat, step : Nat,
                with : SUBSET Actors, level : 0 .. 100] :
           j.level # 0 => j.at \in {"idle", "run"}}

Types ==
  /\ mem \in Maps /\ acked \subseteq Names
  /\ script \in Seq(Scripts \cup {DefaultScript})
  /\ file \in [kind : {"missing", "empty", "cut", "json"}, map : Maps]
  /\ job \in [Actors -> Jobs]

Alone(a) == Changing(a) /\ job[a].with = {}

(* Nothing is under way while the program does not run.                      *)
IdleWhenDown == ~running => \A a \in Actors : job[a].at = "idle"

(* A change that notes no other is the only one.                             *)
AloneIsAlone ==
  \A a, b \in Actors : Alone(a) /\ Changing(b) => a = b

(* A save that runs alone has emptied the file, goes through the memory as   *)
(* it is, and adds a routine that the memory has.                            *)
AloneSaves(a) ==
  Alone(a) =>
    /\ job[a].at # "changed" => file.kind = "empty"
    /\ job[a].at \in {"dumping", "written"} => job[a].was = mem
    /\ \A n \in job[a].adds : mem[n] # 0

(* What a start makes of the file.                                           *)
OnDisk == IF file.kind = "missing" THEN Builtin ELSE Load

(* Every routine said to be created is in the engine that runs, and on disk  *)
(* unless a save has the file open.                                          *)
AckedAreHeld ==
  ~harm =>
    /\ running => \A n \in acked : mem[n] # 0
    /\ (\A a \in Actors : job[a].at \notin Saves) => \A n \in acked : OnDisk[n] # 0

(* A save that left the file behind was an interrupted or overlapped one.    *)
HarmTold == ~synced => harm

IInv == /\ Types /\ IdleWhenDown /\ AloneIsAlone /\ HarmTold
        /\ \A a \in Actors : AloneSaves(a)
        /\ FileFollowsMemory /\ AckedAreHeld

-----------------------------------------------------------------------------
(* Nobody has done anything yet.                                             *)
LEMMA IdleIsAJob == Idle \in Jobs /\ Absent \in Maps /\ Builtin \in Maps
<1>1. Absent \in Maps /\ Builtin \in Maps
  BY DEF Absent, Builtin, Maps
<1> QED BY <1>1 DEF Idle, Jobs

(* Before the first start nothing is under way, and a file, if there is one, *)
(* holds the default routines.                                               *)
LEMMA InitIInv == Init => IInv
<1> SUFFICES ASSUME Init PROVE IInv
  OBVIOUS
<1>1. Types
  <2>1. job \in [Actors -> Jobs]
    BY IdleIsAJob DEF Init
  <2>2. script \in Seq(Scripts \cup {DefaultScript})
    BY DEF Init
  <2>3. file \in [kind : {"missing", "empty", "cut", "json"}, map : Maps]
    BY IdleIsAJob DEF Init
  <2> QED BY <2>1, <2>2, <2>3, IdleIsAJob DEF Init, Types
<1>2. \A a \in Actors : job[a].at = "idle"
  BY DEF Init, Idle
<1>3. ~running /\ synced /\ acked = Defaults
  BY Zenon DEF Init
<1>4. OnDisk = Builtin
  BY DEF Init, OnDisk, Load
<1>5. \A n \in Defaults : Builtin[n] # 0
  BY DEF Builtin
<1>6. AckedAreHeld
  BY <1>3, <1>4, <1>5 DEF AckedAreHeld
<1>7. IdleWhenDown /\ AloneIsAlone /\ \A a \in Actors : AloneSaves(a)
  BY <1>2 DEF IdleWhenDown, AloneIsAlone, AloneSaves, Alone, Changing, Saves
<1>8. HarmTold /\ FileFollowsMemory
  BY <1>3, Zenon DEF HarmTold, FileFollowsMemory
<1> QED BY <1>1, <1>6, <1>7, <1>8 DEF IInv

-----------------------------------------------------------------------------
(* The argument of a call is a number.                                      *)
LEMMA RequestHasArg == ASSUME NEW c \in Requests PROVE c.arg \in Int
BY DEF Requests

(* max(0, min(100, level)).                                                 *)
LEMMA ClampBounds == ASSUME NEW n \in Int PROVE Clamp(n) \in 0 .. 100
BY DEF Clamp

(* A routine goes to its next step; a set_volume is over.                     *)
LEMMA JobFacts ==
  ASSUME NEW j \in Jobs
  PROVE  /\ LET r == [j EXCEPT !.step = j.step + 1]
            IN /\ r \in Jobs /\ r.step = j.step + 1
               /\ r.at = j.at /\ r.was = j.was /\ r.ver = j.ver /\ r.level = j.level
         /\ LET r == [j EXCEPT !.level = 0, !.with = {}]
            IN /\ r \in Jobs /\ r.level = 0 /\ r.with = {}
               /\ r.at = j.at /\ r.was = j.was /\ r.ver = j.ver
<1>1. 0 \in 0 .. 100 /\ j.step \in Nat
  BY DEF Jobs
<1> DEFINE r == [j EXCEPT !.step = j.step + 1]
           q == [j EXCEPT !.level = 0, !.with = {}]
<1>2. /\ r \in Jobs /\ r.step = j.step + 1
      /\ r.at = j.at /\ r.was = j.was /\ r.ver = j.ver /\ r.level = j.level
  <2> DEFINE k == j.step + 1
  <2>1. k \in Nat /\ r = [j EXCEPT !.step = k]
    BY <1>1
  <2> HIDE DEF k, r
  <2>2. r.step = k
    BY <2>1 DEF Jobs
  <2>3. r \in Jobs
    BY <2>1 DEF Jobs
  <2>4. r.at = j.at /\ r.was = j.was /\ r.ver = j.ver /\ r.level = j.level
    BY <2>1 DEF Jobs
  <2> QED BY <2>2, <2>3, <2>4 DEF k
<1>3. /\ q \in Jobs /\ q.level = 0 /\ q.with = {}
      /\ q.at = j.at /\ q.was = j.was /\ q.ver = j.ver
  <2> DEFINE k == [j EXCEPT !.with = {}]
  <2>1. /\ k \in Jobs /\ k.with = {} /\ k.at = j.at /\ k.was = j.was /\ k.ver = j.ver
    BY DEF Jobs
  <2>2. q = [k EXCEPT !.level = 0]
    BY DEF Jobs
  <2> HIDE DEF k, q
  <2> QED BY <1>1, <2>1, <2>2 DEF Jobs
<1> QED BY <1>2, <1>3

(* An actor that runs a tool is then where it goes on from, perhaps with a    *)
(* level still to set; of the others, only those at a set_volume note it.    *)
LEMMA PerformMoves ==
  ASSUME Types, NEW a \in Actors, NEW next \in Jobs, next.at \in {"idle", "run"},
         NEW c \in Requests, NEW outcomes, NEW by, Perform(a, next, c, outcomes, by)
  PROVE  /\ job' \in [Actors -> Jobs]
         /\ /\ job'[a].at = next.at /\ job'[a].was = next.was
            /\ job'[a].ver = next.ver
         /\ \A b \in Actors \ {a} :
              /\ job'[b].at = job[b].at /\ job'[b].was = job[b].was
              /\ job'[b].ver = job[b].ver
              /\ job'[b] = job[b] \/ job[b].at \in {"idle", "run"}
<1> DEFINE begun   == [next EXCEPT !.level = Clamp(c.arg), !.with = {}]
           noted(b) == [job[b] EXCEPT !.with = @ \cup {a}]
<1>1. PICK o \in outcomes :
        job' = [b \in Actors |->
          IF b = a
          THEN IF c.tool = "set_volume" /\ o.said = "unmuted" THEN begun ELSE next
          ELSE IF (c.tool = "set_volume" /\ o.said = "muted") /\ job[b].level # 0
          THEN noted(b) ELSE job[b]]
  BY DEF Perform
<1>2. Clamp(c.arg) \in 0 .. 100
  BY RequestHasArg, ClampBounds
<1>3. /\ begun \in Jobs /\ begun.at = next.at /\ begun.was = next.was
      /\ begun.ver = next.ver
  BY <1>2 DEF Jobs
<1>4. ASSUME NEW b \in Actors
      PROVE  /\ noted(b) \in Jobs /\ noted(b).at = job[b].at
             /\ noted(b).was = job[b].was /\ noted(b).ver = job[b].ver
             /\ job[b].level # 0 => job[b].at \in {"idle", "run"}
  <2>1. job[b] \in Jobs
    BY DEF Types
  <2> QED BY <2>1 DEF Jobs
<1> HIDE DEF begun, noted
<1>5. job' \in [Actors -> Jobs]
  BY <1>1, <1>3, <1>4 DEF Types
<1>6. job'[a] \in {next, begun}
  BY <1>1
<1>7. ASSUME NEW b \in Actors \ {a}
      PROVE  job'[b] = job[b] \/ (job'[b] = noted(b) /\ job[b].level # 0)
  BY <1>1
<1> QED BY <1>3, <1>4, <1>5, <1>6, <1>7

-----------------------------------------------------------------------------
(* Every version that is held, stored or run is one that was created.        *)
Within(map) == \A n \in Names : map[n] <= Len(script)

VersionsKnown ==
  /\ script # <<>> /\ Within(mem) /\ Within(file.map)
  /\ \A a \in Actors : /\ Within(job[a].was)
                       /\ job[a].at = "run" => job[a].ver \in 1 .. Len(script)

(* At first there is the default routines' version.                         *)
LEMMA InitVersions == Init => VersionsKnown
<1> SUFFICES ASSUME Init PROVE VersionsKnown
  OBVIOUS
<1>1. /\ mem = Absent /\ file.map = Builtin
      /\ job = [a \in Actors |-> Idle] /\ script = <<DefaultScript>>
  BY DEF Init
<1>2. Len(script) = 1
  BY <1>1
<1>3. Within(Absent) /\ Within(Builtin)
  BY <1>2 DEF Within, Absent, Builtin
<1> QED BY <1>1, <1>3 DEF VersionsKnown, Idle

(* What can be read of the file is such versions.                           *)
LEMMA LoadWithin == ASSUME IInv, VersionsKnown PROVE Within(Load) /\ Load \in Maps
<1>1. Len(script) \in Nat
  BY DEF IInv, Types
<1>2. Within(Absent) /\ Absent \in Maps
  BY <1>1, IdleIsAJob DEF Within, Absent
<1> QED BY <1>2 DEF Load, VersionsKnown, IInv, Types

(* So are the default routines.                                             *)
LEMMA BuiltinWithin == ASSUME IInv, Len(script) \in Nat \ {0} PROVE Within(Builtin)
BY DEF Within, Builtin

(* One actor's job changes, to one that knows its versions.                  *)
LEMMA JobKeepsVersions ==
  ASSUME IInv, VersionsKnown, NEW a \in Actors, NEW r \in Jobs,
         job' = [job EXCEPT ![a] = r], UNCHANGED <<mem, script>>,
         Within(file'.map), Within(r.was),
         r.at = "run" => r.ver \in 1 .. Len(script)
  PROVE  VersionsKnown'
<1>1. \A b \in Actors : job'[b] = IF b = a THEN r ELSE job[b]
  BY DEF IInv, Types
<1> QED BY <1>1 DEF VersionsKnown, Within

(* The steps of a save move versions that are known.                        *)
LEMMA SaveStepsKeepVersions ==
  ASSUME IInv, VersionsKnown, NEW a \in Actors,
         OpenFile(a) \/ DumpBegins(a) \/ DumpRaises(a) \/ DumpEnds(a) \/ CloseFile(a)
  PROVE  VersionsKnown'
<1>1. /\ job \in [Actors -> Jobs] /\ job[a] \in Jobs /\ mem \in Maps
      /\ Within(mem) /\ Within(file.map) /\ Within(job[a].was)
      /\ Len(script) \in Nat
      /\ file \in [kind : {"missing", "empty", "cut", "json"}, map : Maps]
  BY DEF IInv, Types, VersionsKnown
<1>2. Within(Idle.was) /\ Idle \in Jobs /\ Idle.at # "run"
  BY <1>1, IdleIsAJob DEF Idle, Within, Absent
<1>3. CASE OpenFile(a)
  <2> DEFINE r == [job[a] EXCEPT !.at = "opened"]
  <2>1. r \in Jobs /\ r.was = job[a].was /\ r.at # "run"
    BY <1>1, <1>3 DEF Jobs, OpenFile
  <2>2. job' = [job EXCEPT ![a] = r] /\ file'.map = file.map /\ UNCHANGED <<mem, script>>
    BY <1>1, <1>3 DEF OpenFile
  <2> QED BY <1>1, <2>1, <2>2, JobKeepsVersions
<1>4. CASE DumpBegins(a)
  <2> DEFINE r == [job[a] EXCEPT !.at = "dumping", !.was = mem]
  <2>1. r \in Jobs /\ r.was = mem /\ r.at # "run"
    BY <1>1, <1>4 DEF Jobs, DumpBegins
  <2>2. job' = [job EXCEPT ![a] = r] /\ file' = file /\ UNCHANGED <<mem, script>>
    BY <1>1, <1>4 DEF DumpBegins
  <2> QED BY <1>1, <2>1, <2>2, JobKeepsVersions
<1>5. CASE DumpRaises(a)
  <2>1. job' = [job EXCEPT ![a] = Idle] /\ file'.map = file.map /\ UNCHANGED <<mem, script>>
    BY <1>1, <1>5 DEF DumpRaises
  <2> QED BY <1>1, <1>2, <2>1, JobKeepsVersions
<1>6. CASE DumpEnds(a)
  <2>1. PICK text \in [Names -> 0 .. Len(script)] :
          job' = [job EXCEPT ![a].at = "written", ![a].was = text]
    BY <1>6 DEF DumpEnds
  <2> DEFINE r == [job[a] EXCEPT !.at = "written", !.was = text]
  <2>2. text \in Maps /\ Within(text)
    BY <1>1 DEF Maps, Within
  <2>3. r \in Jobs /\ r.was = text /\ r.at # "run"
    BY <1>1, <1>6, <2>2 DEF Jobs, DumpEnds
  <2>4. job' = [job EXCEPT ![a] = r] /\ file' = file /\ UNCHANGED <<mem, script>>
    BY <1>1, <1>6, <2>1 DEF DumpEnds
  <2> QED BY <1>1, <2>2, <2>3, <2>4, JobKeepsVersions
<1>7. CASE CloseFile(a)
  <2>1. /\ job' = [job EXCEPT ![a] = Idle] /\ UNCHANGED <<mem, script>>
        /\ file'.map \in {file.map, job[a].was}
    BY <1>1, <1>7 DEF CloseFile
  <2> QED BY <1>1, <1>2, <2>1, JobKeepsVersions
<1> QED BY <1>3, <1>4, <1>5, <1>6, <1>7

(* A routine that is started has a version that is known.                   *)
LEMMA RunsKeepVersions ==
  ASSUME IInv, VersionsKnown, NEW a \in Actors,
         \/ RunEnds(a)
         \/ \E n \in Names : RunRoutine(a, n)
         \/ a = Keyboard /\ \E n \in Names : KeyRun(n)
  PROVE  VersionsKnown'
<1>1. /\ job \in [Actors -> Jobs] /\ job[a] \in Jobs /\ mem \in Maps /\ Load \in Maps
      /\ Within(mem) /\ Within(Load) /\ Within(file.map) /\ Within(job[a].was)
      /\ Len(script) \in Nat
  BY LoadWithin DEF IInv, Types, VersionsKnown
<1>2. Within(Absent) /\ Idle \in Jobs /\ Idle.was = Absent /\ Idle.at # "run"
  BY <1>1, IdleIsAJob DEF Idle, Within, Absent
<1>3. UNCHANGED <<file, mem, script>>
  BY DEF RunRoutine, RunEnds, KeyRun
<1>4. CASE RunEnds(a)
  BY <1>1, <1>2, <1>3, <1>4, JobKeepsVersions DEF RunEnds
<1>6. ASSUME NEW v \in Nat \ {0}, v <= Len(script), StartRun(a, v) PROVE VersionsKnown'
  <2> DEFINE r == [Idle EXCEPT !.at = "run", !.ver = v]
  <2>1. r \in Jobs /\ r.was = Absent /\ r.ver = v
    BY <1>2 DEF Idle, Jobs
  <2>2. job' = [job EXCEPT ![a] = r]
    BY <1>6 DEF StartRun
  <2>3. v \in 1 .. Len(script)
    BY <1>1, <1>6
  <2> HIDE DEF r
  <2> QED BY <1>1, <1>2, <1>3, <2>1, <2>2, <2>3, JobKeepsVersions
<1>7. ASSUME NEW n \in Names, NEW map \in Maps, Within(map), map[n] # 0
      PROVE  map[n] \in Nat \ {0} /\ map[n] <= Len(script)
  BY <1>7 DEF Maps, Within
<1>8. ASSUME NEW n \in Names, RunRoutine(a, n) PROVE VersionsKnown'
  BY <1>1, <1>6, <1>7, <1>8 DEF RunRoutine
<1>9. ASSUME NEW n \in Names, a = Keyboard, KeyRun(n) PROVE VersionsKnown'
  BY <1>1, <1>6, <1>7, <1>9, LowerAssumption DEF KeyRun
<1> QED BY <1>4, <1>8, <1>9

(* A change notes others and starts afresh: no job gets another version.    *)
LEMMA ChangeKeepsVersions ==
  ASSUME Types, NEW a \in Actors, NEW adds \in SUBSET Names, Change(a, adds),
         NEW b \in Actors
  PROVE  \/ job'[b].was = job[b].was /\ job'[b].at = job[b].at /\ job'[b].ver = job[b].ver
         \/ job'[b].was = Absent /\ job'[b].at = "changed"
<1> DEFINE others == {d \in Actors \ {a} : Changing(d)}
           r == [Idle EXCEPT !.at = "changed", !.adds = adds, !.with = others]
           s == [job[b] EXCEPT !.with = @ \cup {a}]
<1>1. r.was = Absent /\ r.at = "changed"
  BY DEF Idle
<1>2. s.was = job[b].was /\ s.at = job[b].at /\ s.ver = job[b].ver
  BY DEF Types, Jobs
<1>3. job'[b] = IF b = a THEN r ELSE IF b \in others THEN s ELSE job[b]
  BY DEF Change
<1> HIDE DEF r, s, others
<1> QED BY <1>1, <1>2, <1>3

(* A routine that is created has the newest version; one deleted has none.  *)
LEMMA EditsKeepVersions ==
  ASSUME IInv, VersionsKnown, NEW a \in Workers, NEW n \in Names,
         Delete(a, n) \/ \E s \in Scripts : Create(a, n, s)
  PROVE  VersionsKnown'
<1>1. /\ a \in Actors /\ mem \in Maps /\ file.map \in Maps
      /\ \A b \in Actors : job[b].was \in Maps /\ job[b].ver \in Nat
      /\ script \in Seq(Scripts \cup {DefaultScript}) /\ Len(script) \in Nat
  BY DEF Actors, IInv, Types, Jobs
<1>2. file' = file
  BY DEF Create, Delete
<1>3. ASSUME Len(script') \in Nat, Len(script') >= Len(script), NEW map \in Maps, Within(map)
      PROVE  \A k \in Names : map[k] <= Len(script')
  BY <1>1, <1>3 DEF Within, Maps
<1>4. ASSUME NEW adds \in SUBSET Names, Change(a, adds),
             Len(script') \in Nat, Len(script') >= Len(script), script' # <<>>,
             NEW v \in 0 .. Len(script'), mem' = [mem EXCEPT ![n] = v]
      PROVE  VersionsKnown'
  <2>1. \A k \in Names : mem'[k] <= Len(script')
    BY <1>1, <1>3, <1>4 DEF VersionsKnown, Maps
  <2>2. \A k \in Names : file'.map[k] <= Len(script')
    BY <1>1, <1>2, <1>3, <1>4 DEF VersionsKnown
  <2>3. ASSUME NEW b \in Actors
        PROVE  /\ \A k \in Names : job'[b].was[k] <= Len(script')
               /\ job'[b].at = "run" => job'[b].ver \in 1 .. Len(script')
    <3>1. Absent \in Maps /\ Within(Absent)
      BY <1>1, IdleIsAJob DEF Absent, Within
    <3>2. CASE job'[b].was = Absent /\ job'[b].at = "changed"
      BY <1>3, <1>4, <3>1, <3>2
    <3>3. CASE job'[b].was = job[b].was /\ job'[b].at = job[b].at /\ job'[b].ver = job[b].ver
      BY <1>1, <1>3, <1>4, <3>3 DEF VersionsKnown
    <3> QED BY <1>1, <1>4, <3>2, <3>3, ChangeKeepsVersions DEF IInv
  <2> QED BY <1>4, <2>1, <2>2, <2>3 DEF VersionsKnown, Within
<1>5. CASE Delete(a, n)
  <2>1. /\ Change(a, {}) /\ mem' = [mem EXCEPT ![n] = 0] /\ script' = script
    BY <1>5 DEF Delete
  <2>2. /\ {} \in SUBSET Names /\ 0 \in 0 .. Len(script')
        /\ Len(script') \in Nat /\ Len(script') >= Len(script) /\ script' # <<>>
    BY <1>1, <2>1 DEF VersionsKnown
  <2> QED BY <1>4, <2>1, <2>2
<1>6. ASSUME NEW s \in Scripts, Create(a, n, s) PROVE VersionsKnown'
  <2>1. /\ Change(a, {n}) /\ script' = Append(script, s)
        /\ mem' = [mem EXCEPT ![n] = Len(script')]
    BY <1>6 DEF Create
  <2>2. Len(script') = Len(script) + 1
    BY <1>1, <2>1
  <2>5. script' # <<>>
    BY <1>1, <2>2
  <2>3. {n} \in SUBSET Names /\ Len(script') \in 0 .. Len(script')
    BY <1>1, <2>2
  <2>4. Len(script') \in Nat /\ Len(script') >= Len(script)
    BY <1>1, <2>2
  <2> QED BY <1>4, <2>1, <2>3, <2>4, <2>5
<1> QED BY <1>5, <1>6

(* A start takes the file's or the default routines, a crash takes them away. *)
LEMMA StartCrashKeepVersions ==
  ASSUME IInv, VersionsKnown, Start \/ Crash PROVE VersionsKnown'
<1>1. script' = script /\ Len(script) \in Nat \ {0}
  BY DEF Start, Crash, IInv, Types, VersionsKnown
<1>2. Within(Absent) /\ Within(Builtin) /\ Within(Load) /\ Within(file.map)
  BY <1>1, LoadWithin, BuiltinWithin DEF Within, Absent, VersionsKnown
<1>3. Within(mem') /\ Within(file'.map)
  BY <1>2 DEF Start, Crash
<1>4. \A a \in Actors : job'[a] = Idle \/ job'[a] = job[a]
  BY DEF Start, Crash
<1>5. Idle.was = Absent /\ Idle.at # "run"
  BY DEF Idle
<1> QED BY <1>1, <1>2, <1>3, <1>4, <1>5 DEF VersionsKnown, Within

(* The step that a routine has come to.                                      *)
LEMMA StepIsARequest ==
  ASSUME IInv, VersionsKnown, NEW a \in Actors, RunStep(a)
  PROVE  script[job[a].ver][job[a].step + 1] \in Requests
<1> DEFINE steps == script[job[a].ver]
<1>1. job[a].ver \in 1 .. Len(script) /\ job[a].step \in Nat
  BY DEF RunStep, VersionsKnown, IInv, Types, Jobs
<1>2. steps \in Seq(Requests)
  BY <1>1 DEF IInv, Types
<1>3. job[a].step < Len(steps)
  BY DEF RunStep
<1> HIDE DEF steps
<1>4. job[a].step + 1 \in 1 .. Len(steps)
  BY <1>1, <1>2, <1>3
<1>5. steps[job[a].step + 1] \in Requests
  BY <1>2, <1>4
<1> QED BY <1>5 DEF steps

(* Actors that run tools keep their versions, ...                            *)
LEMMA PerformKeepsVersions ==
  ASSUME IInv, VersionsKnown, NEW a \in Actors, NEW next \in Jobs,
         next.at \in {"idle", "run"}, Within(next.was),
         next.at = "run" => next.ver \in 1 .. Len(script),
         NEW c \in Requests, NEW outcomes, NEW by, Perform(a, next, c, outcomes, by),
         UNCHANGED <<file, mem, script>>
  PROVE  VersionsKnown'
<1>1. /\ job'[a].at = next.at /\ job'[a].was = next.was /\ job'[a].ver = next.ver
      /\ \A b \in Actors \ {a} : /\ job'[b].at = job[b].at
                                 /\ job'[b].was = job[b].was
                                 /\ job'[b].ver = job[b].ver
  BY PerformMoves DEF IInv
<1> QED BY <1>1 DEF VersionsKnown, Within

(* ... also when a routine does, ...                                         *)
LEMMA StepKeepsVersions ==
  ASSUME IInv, VersionsKnown, NEW a \in Actors, RunStep(a) PROVE VersionsKnown'
<1> DEFINE c    == script[job[a].ver][job[a].step + 1]
           done == [job[a] EXCEPT !.step = job[a].step + 1]
<1>1. /\ UNCHANGED <<file, mem, script>> /\ job[a].at = "run" /\ job[a] \in Jobs
      /\ Within(job[a].was) /\ job[a].ver \in 1 .. Len(script)
      /\ Within(file.map)
  BY DEF RunStep, routine, IInv, Types, VersionsKnown
<1>2. /\ done \in Jobs /\ done.at = job[a].at /\ done.step = job[a].step + 1
      /\ done.was = job[a].was /\ done.ver = job[a].ver
  BY <1>1, JobFacts
<1>3. c \in Requests
  BY StepIsARequest
<1>4. \/ Perform(a, done, c, Effect(pc, c), "routine")
      \/ job' = [job EXCEPT ![a] = done]
  BY <1>2 DEF RunStep
<1> HIDE DEF c, done
<1>5. CASE Perform(a, done, c, Effect(pc, c), "routine")
  BY <1>1, <1>2, <1>3, <1>5, PerformKeepsVersions
<1>6. CASE job' = [job EXCEPT ![a] = done]
  BY <1>1, <1>2, <1>6, JobKeepsVersions
<1> QED BY <1>4, <1>5, <1>6

(* ... and when set_volume ends.                                             *)
LEMMA VolumeEndsKeepsVersions ==
  ASSUME IInv, VersionsKnown, NEW a \in Actors, VolumeEnds(a) PROVE VersionsKnown'
<1>1. /\ UNCHANGED <<file, mem, script>> /\ job[a] \in Jobs
      /\ Within(job[a].was) /\ Within(file.map)
      /\ job[a].at = "run" => job[a].ver \in 1 .. Len(script)
      /\ job \in [Actors -> Jobs]
  BY DEF VolumeEnds, IInv, Types, VersionsKnown
<1> DEFINE r == [job[a] EXCEPT !.level = 0, !.with = {}]
<1>2. /\ r \in Jobs /\ r.at = job[a].at /\ r.was = job[a].was /\ r.ver = job[a].ver
  BY <1>1, JobFacts
<1>3. job' = [job EXCEPT ![a] = r]
  BY <1>1 DEF VolumeEnds
<1> HIDE DEF r
<1> QED BY <1>1, <1>2, <1>3, JobKeepsVersions

(* Every step.                                                              *)
LEMMA NextKeepsVersions ==
  ASSUME IInv, VersionsKnown, [Next]_vars PROVE VersionsKnown'
<1>1. ASSUME UNCHANGED <<file, mem, script, job>> PROVE VersionsKnown'
  BY <1>1 DEF VersionsKnown, Within
<1>2. ASSUME NEW c \in Calls,
             Command(c) \/ GuiCall(c) \/ \E a \in FreeWorker : ModelCall(a, c)
      PROVE  VersionsKnown'
  <2>1. Idle \in Jobs /\ Idle.at = "idle" /\ Idle.was = Absent /\ Within(Absent)
    BY IdleIsAJob DEF Idle, Within, Absent, IInv, Types
  <2>2. FreeWorker \subseteq Actors /\ Keyboard \in Actors /\ c \in Requests
    BY DEF Actors, FreeWorker
  <2>3. UNCHANGED <<file, mem, script>>
    BY <1>2 DEF ModelCall, Command, GuiCall, routine
  <2>4. ASSUME NEW a \in Actors, NEW by, Perform(a, Idle, c, Effect(pc, c), by)
        PROVE  VersionsKnown'
    BY <2>1, <2>2, <2>3, <2>4, PerformKeepsVersions
  <2> QED BY <1>1, <1>2, <2>2, <2>3, <2>4 DEF ModelCall, Command, GuiCall
<1>3. ASSUME NEW x \in PowerCommands, RunSpooled(x) PROVE VersionsKnown'
  BY <1>1, <1>3 DEF RunSpooled, routine
<1>4. ASSUME NEW n \in Names, NEW a \in FreeWorker,
             \/ \E s \in Scripts : Create(a, n, s)
             \/ Delete(a, n) \/ RunRoutine(a, n)
      PROVE  VersionsKnown'
  <2>1. a \in Workers /\ a \in Actors
    BY DEF FreeWorker, Actors
  <2> QED BY <1>4, <2>1, EditsKeepVersions, RunsKeepVersions
<1>5. ASSUME NEW n \in Names, KeyRun(n) \/ KeyNotFound(n) PROVE VersionsKnown'
  <2>1. Keyboard \in Actors
    BY DEF Actors
  <2> QED BY <1>1, <1>5, <2>1, RunsKeepVersions DEF KeyNotFound, routine
<1>6. ASSUME NEW a \in Workers,
             OpenFile(a) \/ DumpBegins(a) \/ DumpRaises(a) \/ DumpEnds(a)
             \/ CloseFile(a)
      PROVE  VersionsKnown'
  BY <1>6, SaveStepsKeepVersions DEF Actors
<1>7. ASSUME NEW a \in Actors, VolumeEnds(a) \/ RunStep(a) \/ RunEnds(a)
      PROVE  VersionsKnown'
  BY <1>7, VolumeEndsKeepsVersions, StepKeepsVersions, RunsKeepVersions
<1>8. CASE Start \/ Crash
  BY <1>8, StartCrashKeepVersions
<1>9. CASE UNCHANGED vars
  BY <1>1, <1>9 DEF vars
<1> QED BY <1>2, <1>3, <1>4, <1>5, <1>6, <1>7, <1>8, <1>9 DEF Next

-----------------------------------------------------------------------------
(* Tools act on the machine, not on the routines.                            *)
LEMMA ToolsKeep ==
  ASSUME IInv, UNCHANGED routine, UNCHANGED job, UNCHANGED saved PROVE IInv'
<1>1. UNCHANGED <<file, mem, script, job, running, acked, harm, synced>>
  BY DEF routine, saved
<1> QED BY <1>1 DEF IInv, Types, IdleWhenDown, AloneIsAlone, HarmTold, Alone,
           Changing, AloneSaves, FileFollowsMemory, AckedAreHeld, OnDisk, Load,
           Saving

(* Actors run tools and routines, while saves stay as they are.              *)
LEMMA MovesKeep ==
  ASSUME IInv, job' \in [Actors -> Jobs],
         \A b \in Actors :
           \/ job'[b] = job[b]
           \/ /\ job[b].at \in {"idle", "run"} /\ job'[b].at \in {"idle", "run"}
              /\ running \/ job'[b].at = job[b].at,
         UNCHANGED <<file, mem, script, running, acked, harm, synced>>
  PROVE  IInv'
<1>1. Types'
  BY DEF IInv, Types
<1>2. \A b \in Actors : /\ Changing(b)' <=> Changing(b)
                        /\ Changing(b) => job'[b] = job[b]
                        /\ job'[b].at \in Saves <=> job[b].at \in Saves
  BY DEF Changing, Saves
<1>3. \A b \in Actors : Alone(b)' <=> Alone(b)
  BY <1>2 DEF Alone
<1>4. IdleWhenDown' /\ HarmTold'
  BY DEF IInv, IdleWhenDown, HarmTold
<1>5. AloneIsAlone'
  BY <1>2, <1>3 DEF IInv, AloneIsAlone
<1>6. ASSUME NEW b \in Actors PROVE AloneSaves(b)'
  BY <1>2, <1>3 DEF IInv, AloneSaves, Alone
<1>7. FileFollowsMemory' /\ AckedAreHeld'
  BY <1>2 DEF IInv, FileFollowsMemory, AckedAreHeld, Saving, Load, OnDisk
<1> QED BY <1>1, <1>4, <1>5, <1>6, <1>7 DEF IInv

(* An actor starts, goes on with or ends running a routine, ...              *)
LEMMA RunningKeeps ==
  ASSUME IInv, NEW a \in Actors, job[a].at \in {"idle", "run"},
         NEW r \in Jobs, r.at \in {"idle", "run"}, running \/ r.at = job[a].at,
         job' = [job EXCEPT ![a] = r],
         UNCHANGED <<file, mem, script, running, acked, harm, synced>>
  PROVE  IInv'
<1>1. /\ job' \in [Actors -> Jobs] /\ job'[a] = r
      /\ \A b \in Actors : b # a => job'[b] = job[b]
  BY DEF IInv, Types
<1> QED BY <1>1, MovesKeep

(* ... runs a tool, ...                                                      *)
LEMMA PerformKeeps ==
  ASSUME IInv, NEW a \in Actors, job[a].at \in {"idle", "run"},
         NEW next \in Jobs, next.at = job[a].at,
         NEW c \in Requests, NEW outcomes, NEW by, Perform(a, next, c, outcomes, by),
         UNCHANGED <<file, mem, script, running, acked, harm, synced>>
  PROVE  IInv'
<1>1. /\ job' \in [Actors -> Jobs] /\ job'[a].at = next.at
      /\ \A b \in Actors \ {a} : /\ job'[b].at = job[b].at
                                 /\ job'[b] = job[b] \/ job[b].at \in {"idle", "run"}
  BY PerformMoves DEF IInv
<1> QED BY <1>1, MovesKeep

(* ... or sets the level that set_volume has still to set.                   *)
LEMMA VolumeEndsKeeps ==
  ASSUME IInv, NEW a \in Actors, VolumeEnds(a) PROVE IInv'
<1>1. job[a] \in Jobs /\ job[a].level # 0 /\ job \in [Actors -> Jobs]
  BY DEF VolumeEnds, IInv, Types
<1> DEFINE r == [job[a] EXCEPT !.level = 0, !.with = {}]
<1>2. r \in Jobs /\ r.at = job[a].at
  BY <1>1, JobFacts
<1>4. job[a].at \in {"idle", "run"}
  BY <1>1 DEF Jobs
<1>3. /\ job' = [job EXCEPT ![a] = r]
      /\ UNCHANGED <<file, mem, script, running, acked, harm, synced>>
  BY <1>1 DEF VolumeEnds, saved
<1> HIDE DEF r
<1> QED BY <1>2, <1>3, <1>4, RunningKeeps

-----------------------------------------------------------------------------
(* What Change does to the jobs: every change under way notes the new one.   *)
LEMMA ChangeNotes ==
  ASSUME Types, NEW a \in Actors, NEW adds \in SUBSET Names, Change(a, adds)
  PROVE  /\ job' \in [Actors -> Jobs]
         /\ job'[a].at = "changed" /\ job'[a].adds = adds
         /\ job'[a].with = {b \in Actors \ {a} : Changing(b)}
         /\ \A b \in Actors : b # a =>
              /\ job'[b].at = job[b].at
              /\ Changing(b) => a \in job'[b].with
              /\ ~Changing(b) => job'[b] = job[b]
<1> DEFINE others == {b \in Actors \ {a} : Changing(b)}
           r == [Idle EXCEPT !.at = "changed", !.adds = adds, !.with = others]
           s(b) == [job[b] EXCEPT !.with = @ \cup {a}]
<1>1. /\ r \in Jobs /\ r.at = "changed" /\ r.adds = adds /\ r.with = others
  BY IdleIsAJob DEF Idle, Jobs
<1>2. ASSUME NEW b \in Actors
      PROVE  s(b) \in Jobs /\ s(b).at = job[b].at /\ a \in s(b).with
  <2>1. job[b] \in Jobs
    BY DEF Types
  <2> QED BY <2>1 DEF Jobs
<1>3. job' = [b \in Actors |-> IF b = a THEN r
                               ELSE IF b \in others THEN s(b) ELSE job[b]]
  BY DEF Change
<1> HIDE DEF r, s
<1>4. job' \in [Actors -> Jobs]
  BY <1>1, <1>2, <1>3 DEF Types
<1>5. job'[a] = r
  BY <1>3
<1>6. ASSUME NEW b \in Actors, b # a
      PROVE  job'[b] = IF Changing(b) THEN s(b) ELSE job[b]
  BY <1>3, <1>6
<1>7. ASSUME NEW b \in Actors, b # a
      PROVE  /\ job'[b].at = job[b].at
             /\ Changing(b) => a \in job'[b].with
             /\ ~Changing(b) => job'[b] = job[b]
  BY <1>2, <1>6, <1>7
<1> QED BY <1>1, <1>4, <1>5, <1>7

(* create_routine and delete_routine: the memory changes, and only a change  *)
(* during which no other is under way counts as alone.                       *)
LEMMA ChangeKeeps ==
  ASSUME IInv, running, NEW a \in Actors, job[a].at = "idle",
         NEW adds \in SUBSET Names, Change(a, adds),
         mem' \in Maps, script' \in Seq(Scripts \cup {DefaultScript}),
         \A n \in adds : mem'[n] # 0,
         acked' \subseteq acked,
         \A n \in acked' : mem[n] # 0 => mem'[n] # 0,
         UNCHANGED <<file, running, harm, synced>>
  PROVE  IInv'
<1>1. /\ job' \in [Actors -> Jobs]
      /\ job'[a].at = "changed" /\ job'[a].adds = adds
      /\ job'[a].with = {b \in Actors \ {a} : Changing(b)}
      /\ \A b \in Actors : b # a =>
           /\ job'[b].at = job[b].at
           /\ Changing(b) => a \in job'[b].with
           /\ ~Changing(b) => job'[b] = job[b]
  BY ChangeNotes DEF IInv
<1>2. Types'
  BY <1>1 DEF IInv, Types
<1>3. /\ Changing(a)' /\ ~Changing(a)
      /\ \A b \in Actors : b # a => (Changing(b)' <=> Changing(b))
  BY <1>1 DEF Changing, Saves
<1>4. ASSUME NEW b \in Actors, Alone(b)' PROVE b = a
  BY <1>1, <1>3, <1>4 DEF Alone
<1>5. AloneIsAlone'
  <2> SUFFICES ASSUME NEW b \in Actors, NEW d \in Actors, Alone(b)', Changing(d)'
               PROVE  b = d
    BY DEF AloneIsAlone
  <2>1. b = a /\ job'[a].with = {}
    BY <1>4 DEF Alone
  <2> QED BY <1>1, <1>3, <2>1
<1>6. ASSUME NEW b \in Actors PROVE AloneSaves(b)'
  BY <1>1, <1>4 DEF AloneSaves
<1>7. IdleWhenDown' /\ HarmTold' /\ FileFollowsMemory'
  BY <1>3 DEF IInv, IdleWhenDown, HarmTold, FileFollowsMemory, Saving
<1>8. AckedAreHeld'
  <2>1. (\A b \in Actors : job'[b].at \notin Saves)
          => \A b \in Actors : job[b].at \notin Saves
    BY <1>1 DEF Saves
  <2>2. OnDisk' = OnDisk
    BY DEF OnDisk, Load
  <2> QED BY <2>1, <2>2 DEF IInv, AckedAreHeld
<1> QED BY <1>2, <1>5, <1>6, <1>7, <1>8 DEF IInv

(* A save that goes from one of its steps to the next; what another actor's  *)
(* save still has to say is not touched.                                     *)
LEMMA SaveGoesOn ==
  ASSUME IInv, NEW a \in Actors, Changing(a),
         NEW r \in Jobs, r.at \in Saves,
         r.with = job[a].with, r.adds = job[a].adds,
         job' = [job EXCEPT ![a] = r],
         file' \in [kind : {"missing", "empty", "cut", "json"}, map : Maps],
         Alone(a) => file'.kind = "empty",
         Alone(a) /\ r.at \in {"dumping", "written"} => r.was = mem,
         UNCHANGED <<mem, script, running, acked, harm, synced>>
  PROVE  IInv'
<1>1. Types'
  BY DEF IInv, Types
<1>2. job'[a] = r /\ \A b \in Actors : b # a => job'[b] = job[b]
  BY DEF IInv, Types
<1>3. Changing(a)' /\ \A b \in Actors : Changing(b)' <=> Changing(b)
  BY <1>2 DEF Changing
<1>4. \A b \in Actors : Alone(b)' <=> Alone(b)
  BY <1>2, <1>3 DEF Alone
<1>5. AloneIsAlone'
  BY <1>3, <1>4 DEF IInv, AloneIsAlone
<1>6. ASSUME NEW b \in Actors, Alone(b) PROVE b = a
  BY <1>6 DEF IInv, AloneIsAlone
<1>7. ASSUME NEW b \in Actors PROVE AloneSaves(b)'
  BY <1>2, <1>4, <1>6 DEF IInv, AloneSaves
<1>8. job[a].at # "idle" /\ running
  BY DEF IInv, IdleWhenDown, Changing, Saves
<1>9. IdleWhenDown' /\ HarmTold' /\ FileFollowsMemory'
  BY <1>3, <1>8 DEF IInv, IdleWhenDown, HarmTold, FileFollowsMemory, Saving
<1>10. AckedAreHeld'
  BY <1>2 DEF IInv, AckedAreHeld
<1> QED BY <1>1, <1>5, <1>7, <1>9, <1>10 DEF IInv

(* open() and json.dump, as far as a save that has the file to itself.       *)
LEMMA SaveStepsKeep ==
  ASSUME IInv, NEW a \in Workers,
         OpenFile(a) \/ DumpBegins(a) \/ DumpEnds(a)
  PROVE  IInv'
<1>1. /\ a \in Actors /\ job[a] \in Jobs /\ mem \in Maps
      /\ file \in [kind : {"missing", "empty", "cut", "json"}, map : Maps]
      /\ job \in [Actors -> Jobs] /\ script \in Seq(Scripts \cup {DefaultScript})
      /\ AloneSaves(a)
  BY DEF IInv, Types, Actors
<1>2. CASE OpenFile(a)
  <2> DEFINE r == [job[a] EXCEPT !.at = "opened"]
  <2>1. /\ r \in Jobs /\ r.at = "opened"
        /\ r.with = job[a].with /\ r.adds = job[a].adds
    BY <1>1, <1>2 DEF Jobs, OpenFile
  <2>2. job' = [job EXCEPT ![a] = r]
    BY <1>1, <1>2 DEF OpenFile
  <2>3. /\ file' \in [kind : {"missing", "empty", "cut", "json"}, map : Maps]
        /\ file'.kind = "empty"
    BY <1>1, <1>2 DEF OpenFile
  <2>4. Changing(a) /\ UNCHANGED <<mem, script, running, acked, harm, synced>>
    BY <1>2 DEF OpenFile, Changing, saved
  <2> HIDE DEF r
  <2>5. r.at \in Saves /\ r.at \notin {"dumping", "written"}
    BY <2>1 DEF Saves
  <2> QED BY <1>1, <2>1, <2>2, <2>3, <2>4, <2>5, SaveGoesOn
<1>3. CASE DumpBegins(a)
  <2> DEFINE r == [job[a] EXCEPT !.at = "dumping", !.was = mem]
  <2>1. /\ r \in Jobs /\ r.at = "dumping" /\ r.was = mem
        /\ r.with = job[a].with /\ r.adds = job[a].adds
    BY <1>1, <1>3 DEF Jobs, DumpBegins
  <2>2. job' = [job EXCEPT ![a] = r]
    BY <1>1, <1>3 DEF DumpBegins
  <2>3. /\ Changing(a) /\ job[a].at = "opened"
        /\ UNCHANGED <<file, mem, script, running, acked, harm, synced>>
    BY <1>3 DEF DumpBegins, Changing, Saves, saved
  <2>4. Alone(a) => file'.kind = "empty"
    BY <1>1, <2>3 DEF AloneSaves
  <2> HIDE DEF r
  <2>5. r.at \in Saves
    BY <2>1 DEF Saves
  <2> QED BY <1>1, <2>1, <2>2, <2>3, <2>4, <2>5, SaveGoesOn
<1>4. CASE DumpEnds(a)
  <2>1. PICK text \in [Names -> 0 .. Len(script)] :
          /\ \A n \in Names : text[n] \in {job[a].was[n], mem[n]}
          /\ job' = [job EXCEPT ![a].at = "written", ![a].was = text]
    BY <1>4 DEF DumpEnds
  <2> DEFINE r == [job[a] EXCEPT !.at = "written", !.was = text]
  <2>2. text \in Maps
    BY <1>1, <2>1 DEF Maps
  <2>3. /\ r \in Jobs /\ r.at = "written" /\ r.was = text
        /\ r.with = job[a].with /\ r.adds = job[a].adds
    BY <1>1, <1>4, <2>2 DEF Jobs, DumpEnds
  <2>4. job' = [job EXCEPT ![a] = r]
    BY <1>1, <2>1
  <2>5. /\ Changing(a) /\ job[a].at = "dumping"
        /\ UNCHANGED <<file, mem, script, running, acked, harm, synced>>
    BY <1>4 DEF DumpEnds, Changing, Saves, saved
  <2>6. Alone(a) => file'.kind = "empty" /\ job[a].was = mem
    BY <1>1, <2>5 DEF AloneSaves
  <2>7. Alone(a) => text = mem
    BY <1>1, <2>1, <2>2, <2>6 DEF Maps
  <2> HIDE DEF r
  <2>8. r.at \in Saves
    BY <2>3 DEF Saves
  <2> QED BY <1>1, <2>3, <2>4, <2>5, <2>6, <2>7, <2>8, SaveGoesOn
<1> QED BY <1>2, <1>3, <1>4

(* A save that ends, one way or the other, leaves the others as they were.   *)
LEMMA SaveIsOver ==
  ASSUME IInv, NEW a \in Actors, Changing(a), job' = [job EXCEPT ![a] = Idle],
         UNCHANGED mem
  PROVE  /\ job' \in [Actors -> Jobs] /\ job'[a].at = "idle" /\ ~Changing(a)'
         /\ \A b \in Actors : Changing(b)' => Changing(b) /\ b # a
         /\ \A b \in Actors : b # a => job'[b] = job[b]
         /\ AloneIsAlone'
         /\ Alone(a) => \A b \in Actors : ~Changing(b)'
         /\ \A b \in Actors : ~Alone(b)'
<1>1. /\ job' \in [Actors -> Jobs] /\ job'[a] = Idle /\ Idle.at = "idle"
      /\ \A b \in Actors : b # a => job'[b] = job[b]
  BY IdleIsAJob DEF IInv, Types, Idle
<1>2. ~Changing(a)'
  BY <1>1 DEF Changing, Saves
<1>3. \A b \in Actors : Changing(b)' => Changing(b) /\ b # a
  BY <1>1, <1>2 DEF Changing
<1>4. \A b \in Actors : ~Alone(b)'
  BY <1>1, <1>3 DEF IInv, AloneIsAlone, Alone
<1> QED BY <1>1, <1>2, <1>3, <1>4 DEF IInv, AloneIsAlone

(* json.dump finds that the dictionary has grown or shrunk.                  *)
LEMMA DumpRaisesKeeps ==
  ASSUME IInv, NEW a \in Workers, DumpRaises(a) PROVE IInv'
<1>1. /\ a \in Actors /\ Changing(a) /\ running
      /\ job' = [job EXCEPT ![a] = Idle] /\ harm' /\ ~synced'
      /\ file' = [file EXCEPT !.kind = "cut"]
      /\ UNCHANGED <<mem, script, running, acked>>
  BY DEF DumpRaises, Changing, Saves, Actors, IInv, IdleWhenDown
<1>2. Types'
  BY <1>1, SaveIsOver DEF IInv, Types
<1>3. AloneIsAlone' /\ \A b \in Actors : AloneSaves(b)'
  BY <1>1, SaveIsOver DEF AloneSaves
<1> QED BY <1>1, <1>2, <1>3
        DEF IInv, IdleWhenDown, HarmTold, FileFollowsMemory, AckedAreHeld

(* The with block of _save ends: a save that ran alone leaves the memory's   *)
(* text in the file.                                                         *)
LEMMA CloseFileKeeps ==
  ASSUME IInv, NEW a \in Workers, CloseFile(a) PROVE IInv'
<1>1. /\ a \in Actors /\ Changing(a) /\ running /\ job[a].at = "written"
      /\ job' = [job EXCEPT ![a] = Idle]
      /\ UNCHANGED <<mem, script, running>>
      /\ acked' = acked \cup job[a].adds
  BY DEF CloseFile, Changing, Saves, Actors, IInv, IdleWhenDown
<1>2. harm' <=> harm \/ job[a].with # {}
  BY DEF CloseFile
<1>3. synced' <=> job[a].with = {}
  BY DEF CloseFile
<1>4. /\ job[a].was \in Maps /\ job[a].adds \subseteq Names /\ mem \in Maps
      /\ file \in [kind : {"missing", "empty", "cut", "json"}, map : Maps]
  BY <1>1 DEF IInv, Types, Jobs
<1>5. \/ file' = [kind |-> "json", map |-> job[a].was]
      \/ file.kind # "empty" /\ file' = [file EXCEPT !.kind = "cut"]
  BY DEF CloseFile
<1>6. Types'
  <2>1. file' \in [kind : {"missing", "empty", "cut", "json"}, map : Maps]
    BY <1>4, <1>5
  <2> QED BY <1>1, <1>4, <2>1, SaveIsOver DEF IInv, Types
<1>7. AloneIsAlone' /\ \A b \in Actors : AloneSaves(b)'
  BY <1>1, SaveIsOver DEF AloneSaves
<1>8. IdleWhenDown'
  BY <1>1 DEF IdleWhenDown
<1>9. CASE job[a].with # {}
  <2>1. harm' /\ ~synced'
    BY <1>2, <1>3, <1>9
  <2> QED BY <1>6, <1>7, <1>8, <2>1
          DEF IInv, HarmTold, FileFollowsMemory, AckedAreHeld
<1>10. CASE job[a].with = {}
  <2>1. /\ Alone(a) /\ file.kind = "empty" /\ job[a].was = mem
        /\ \A n \in job[a].adds : mem[n] # 0
    BY <1>1, <1>10 DEF IInv, Alone, AloneSaves
  <2>2. file' = [kind |-> "json", map |-> mem]
    BY <1>5, <2>1
  <2>3. Load' = mem' /\ OnDisk' = mem'
    BY <1>1, <2>2 DEF Load, OnDisk
  <2>4. synced' /\ (harm' <=> harm)
    BY <1>2, <1>3, <1>10
  <2>5. ~harm => \A n \in acked' : mem'[n] # 0
    BY <1>1, <2>1 DEF IInv, AckedAreHeld
  <2>6. HarmTold' /\ FileFollowsMemory' /\ AckedAreHeld'
    BY <2>3, <2>4, <2>5 DEF HarmTold, FileFollowsMemory, AckedAreHeld
  <2> QED BY <1>6, <1>7, <1>8, <2>6 DEF IInv
<1> QED BY <1>9, <1>10

(* The program starts with what is on disk.                                  *)
LEMMA StartKeeps == ASSUME IInv, Start PROVE IInv'
<1>1. /\ ~running /\ running' /\ synced'
      /\ UNCHANGED <<script, job, acked, harm>>
  BY Zenon DEF Start
<1>2. /\ file' = IF file.kind = "missing" THEN [kind |-> "json", map |-> Builtin]
                 ELSE file
      /\ mem' = IF file.kind = "missing" THEN Builtin ELSE Load
  BY DEF Start
<1>3. mem' = OnDisk /\ Load' = OnDisk /\ OnDisk' = OnDisk
  BY <1>2 DEF OnDisk, Load
<1>4. Types'
  BY <1>1, <1>2, IdleIsAJob DEF IInv, Types, Load
<1>5. \A a \in Actors : job[a].at = "idle"
  BY <1>1 DEF IInv, IdleWhenDown
<1>6. AloneIsAlone' /\ \A a \in Actors : AloneSaves(a)'
  BY <1>1, <1>5 DEF AloneIsAlone, AloneSaves, Alone, Changing, Saves
<1>7. ~harm => \A n \in acked : OnDisk[n] # 0
  BY <1>5 DEF IInv, AckedAreHeld, Saves
<1>8. AckedAreHeld'
  BY <1>1, <1>3, <1>7 DEF AckedAreHeld
<1>9. IdleWhenDown' /\ HarmTold' /\ FileFollowsMemory'
  BY <1>1, <1>3 DEF IdleWhenDown, HarmTold, FileFollowsMemory
<1> QED BY <1>4, <1>6, <1>8, <1>9 DEF IInv

(* The program ends: what was being saved is harmed, what was not is still   *)
(* on disk.                                                                  *)
LEMMA CrashKeeps == ASSUME IInv, Crash PROVE IInv'
<1>1. /\ ~running' /\ mem' = Absent /\ job' = [a \in Actors |-> Idle]
      /\ UNCHANGED <<file, script, acked, synced>>
  BY Zenon DEF Crash
<1>2. harm' <=> harm \/ \E a \in Actors : job[a].at \in Saves
  BY DEF Crash
<1>3. Types'
  BY <1>1, IdleIsAJob DEF IInv, Types
<1>4. \A a \in Actors : job'[a].at = "idle"
  BY <1>1 DEF Idle
<1>5. IdleWhenDown' /\ AloneIsAlone' /\ \A a \in Actors : AloneSaves(a)'
  BY <1>4 DEF IdleWhenDown, AloneIsAlone, AloneSaves, Alone, Changing, Saves
<1>6. HarmTold' /\ FileFollowsMemory'
  BY <1>1, <1>2 DEF IInv, HarmTold, FileFollowsMemory
<1>7. AckedAreHeld'
  <2>1. ~harm' => \A n \in acked : OnDisk[n] # 0
    BY <1>2 DEF IInv, AckedAreHeld
  <2>2. OnDisk' = OnDisk
    BY <1>1 DEF OnDisk, Load
  <2> QED BY <1>1, <2>1, <2>2 DEF AckedAreHeld
<1> QED BY <1>3, <1>5, <1>6, <1>7 DEF IInv

(* create_routine and delete_routine, by a worker that is free.              *)
LEMMA EditsKeep ==
  ASSUME IInv, NEW a \in Workers, NEW n \in Names,
         Delete(a, n) \/ \E s \in Scripts : Create(a, n, s)
  PROVE  IInv'
<1>1. /\ a \in Actors /\ running /\ job[a].at = "idle"
      /\ mem \in Maps /\ script \in Seq(Scripts \cup {DefaultScript})
      /\ UNCHANGED <<file, running, harm, synced>>
  BY Zenon DEF Create, Delete, Free, Actors, IInv, Types, saved
<1>2. CASE Delete(a, n)
  <2>1. /\ Change(a, {}) /\ mem' = [mem EXCEPT ![n] = 0]
        /\ acked' = acked \ {n} /\ script' = script
    BY <1>2 DEF Delete
  <2>2. /\ mem' \in Maps /\ acked' \subseteq acked
        /\ \A k \in acked' : mem[k] # 0 => mem'[k] # 0
    BY <1>1, <2>1 DEF Maps, IInv, Types
  <2>3. script' \in Seq(Scripts \cup {DefaultScript})
    BY <1>1, <2>1
  <2>4. {} \in SUBSET Names /\ \A k \in {} : mem'[k] # 0
    OBVIOUS
  <2> QED BY <1>1, <2>1, <2>2, <2>3, <2>4, ChangeKeeps
<1>3. ASSUME NEW s \in Scripts, Create(a, n, s) PROVE IInv'
  <2>1. /\ Change(a, {n}) /\ script' = Append(script, s)
        /\ mem' = [mem EXCEPT ![n] = Len(script')]
        /\ acked' = acked
    BY <1>3 DEF Create, saved
  <2>2. script' \in Seq(Scripts \cup {DefaultScript}) /\ Len(script') \in Nat \ {0}
    BY <1>1, <2>1
  <2>3. /\ mem' \in Maps /\ mem'[n] # 0
        /\ \A k \in acked' : mem[k] # 0 => mem'[k] # 0
    BY <1>1, <2>1, <2>2 DEF Maps, IInv, Types
  <2> QED BY <1>1, <2>1, <2>2, <2>3, ChangeKeeps
<1> QED BY <1>2, <1>3

(* A routine is started by the worker that was asked for it, or at the       *)
(* keyboard, and ends.                                                       *)
LEMMA RunsKeep ==
  ASSUME IInv, NEW a \in Actors,
         \/ RunEnds(a)
         \/ \E n \in Names : RunRoutine(a, n)
         \/ a = Keyboard /\ \E n \in Names : KeyRun(n)
  PROVE  IInv'
<1>1. /\ UNCHANGED <<file, mem, script, running, acked, harm, synced>>
      /\ job[a].at \in {"idle", "run"} /\ job[a] \in Jobs
      /\ job \in [Actors -> Jobs] /\ mem \in Maps
      /\ Load \in Maps
  BY IdleIsAJob DEF RunRoutine, RunEnds, KeyRun, Free, saved, IInv, Types, Load
<1>2. running
  BY <1>1, Zenon DEF RunRoutine, RunEnds, KeyRun, IInv, IdleWhenDown
<1>3. PICK r \in Jobs : r.at \in {"idle", "run"} /\ job' = [job EXCEPT ![a] = r]
  <2>1. CASE RunEnds(a)
    BY <2>1, IdleIsAJob DEF RunEnds, Idle
  <2>3. ASSUME NEW v \in Nat, StartRun(a, v)
        PROVE  \E r \in Jobs : r.at \in {"idle", "run"} /\ job' = [job EXCEPT ![a] = r]
    <3> DEFINE r == [Idle EXCEPT !.at = "run", !.ver = v]
    <3>1. r \in Jobs /\ r.at = "run"
      BY IdleIsAJob DEF Idle, Jobs
    <3> QED BY <2>3, <3>1 DEF StartRun
  <2>4. ASSUME NEW n \in Names, RunRoutine(a, n)
        PROVE  \E r \in Jobs : r.at \in {"idle", "run"} /\ job' = [job EXCEPT ![a] = r]
    BY <1>1, <2>3, <2>4 DEF RunRoutine, Maps
  <2>5. ASSUME NEW n \in Names, a = Keyboard, KeyRun(n)
        PROVE  \E r \in Jobs : r.at \in {"idle", "run"} /\ job' = [job EXCEPT ![a] = r]
    BY <1>1, <2>3, <2>5, LowerAssumption DEF KeyRun, Maps
  <2> QED BY <2>1, <2>4, <2>5
<1> QED BY <1>1, <1>2, <1>3, RunningKeeps

(* A routine goes on: a step is a tool, or one that nobody registers.        *)
LEMMA StepKeeps ==
  ASSUME IInv, VersionsKnown, NEW a \in Actors, RunStep(a) PROVE IInv'
<1> DEFINE c    == script[job[a].ver][job[a].step + 1]
           done == [job[a] EXCEPT !.step = job[a].step + 1]
<1>1. /\ UNCHANGED <<file, mem, script, running, acked, harm, synced>>
      /\ job[a].at = "run" /\ job[a] \in Jobs
  BY DEF RunStep, routine, saved, IInv, Types
<1>2. done \in Jobs /\ done.at = job[a].at /\ done.step = job[a].step + 1
  BY <1>1, JobFacts
<1>3. c \in Requests
  BY StepIsARequest
<1>4. \/ Perform(a, done, c, Effect(pc, c), "routine")
      \/ job' = [job EXCEPT ![a] = done]
  BY <1>2 DEF RunStep
<1> HIDE DEF c, done
<1>5. CASE Perform(a, done, c, Effect(pc, c), "routine")
  BY <1>1, <1>2, <1>3, <1>5, PerformKeeps
<1>6. CASE job' = [job EXCEPT ![a] = done]
  BY <1>1, <1>2, <1>6, RunningKeeps
<1> QED BY <1>4, <1>5, <1>6

(* A tool is called by the model, by Dad or in the GUI.                      *)
LEMMA CallsKeep ==
  ASSUME IInv, NEW c \in Calls,
         Command(c) \/ GuiCall(c) \/ \E a \in FreeWorker : ModelCall(a, c)
  PROVE  IInv'
<1>1. FreeWorker \subseteq Actors /\ Keyboard \in Actors /\ c \in Requests
  BY DEF Actors, FreeWorker
<1>2. UNCHANGED <<file, mem, script, running, acked, harm, synced>>
  BY DEF ModelCall, Command, GuiCall, routine, saved
<1>3. Idle \in Jobs /\ Idle.at = "idle"
  BY IdleIsAJob DEF Idle
<1>4. ASSUME NEW a \in FreeWorker, ModelCall(a, c) PROVE IInv'
  BY <1>1, <1>2, <1>3, <1>4, PerformKeeps DEF ModelCall, Free
<1>5. CASE Command(c)
  BY <1>1, <1>2, <1>3, <1>5, PerformKeeps DEF Command, Free
<1>6. CASE GuiCall(c)
  BY <1>6, ToolsKeep DEF GuiCall
<1> QED BY <1>4, <1>5, <1>6

(* Every step of the tools, the routines, the saves and the program.         *)
LEMMA NextKeepsIInv == ASSUME IInv, VersionsKnown, [Next]_vars PROVE IInv'
<1>1. ASSUME NEW c \in Calls,
             Command(c) \/ GuiCall(c) \/ \E a \in FreeWorker : ModelCall(a, c)
      PROVE  IInv'
  BY <1>1, CallsKeep
<1>2. ASSUME NEW x \in PowerCommands, RunSpooled(x) PROVE IInv'
  BY <1>2, ToolsKeep DEF RunSpooled
<1>3. ASSUME NEW n \in Names, NEW a \in FreeWorker,
             \/ \E s \in Scripts : Create(a, n, s)
             \/ Delete(a, n) \/ RunRoutine(a, n)
      PROVE  IInv'
  <2>1. a \in Workers /\ a \in Actors
    BY DEF FreeWorker, Actors
  <2> QED BY <1>3, <2>1, EditsKeep, RunsKeep
<1>4. ASSUME NEW n \in Names, KeyRun(n) \/ KeyNotFound(n) PROVE IInv'
  <2>1. Keyboard \in Actors
    BY DEF Actors
  <2> QED BY <1>4, <2>1, RunsKeep, ToolsKeep DEF KeyNotFound
<1>5. ASSUME NEW a \in Workers,
             OpenFile(a) \/ DumpBegins(a) \/ DumpRaises(a) \/ DumpEnds(a)
             \/ CloseFile(a)
      PROVE  IInv'
  BY <1>5, SaveStepsKeep, DumpRaisesKeeps, CloseFileKeeps
<1>6. ASSUME NEW a \in Actors, VolumeEnds(a) \/ RunStep(a) \/ RunEnds(a) PROVE IInv'
  BY <1>6, VolumeEndsKeeps, StepKeeps, RunsKeep
<1>7. CASE Start
  BY <1>7, StartKeeps
<1>8. CASE Crash
  BY <1>8, CrashKeeps
<1>9. CASE UNCHANGED vars
  BY <1>9, ToolsKeep DEF vars, routine, saved
<1> QED BY <1>1, <1>2, <1>3, <1>4, <1>5, <1>6, <1>7, <1>8, <1>9 DEF Next

(* Both hold in every state.                                                 *)
LEMMA IInvHolds == Spec => [](IInv /\ VersionsKnown)
<1>1. Init => IInv /\ VersionsKnown
  BY InitIInv, InitVersions
<1>2. IInv /\ VersionsKnown /\ [Next]_vars => (IInv /\ VersionsKnown)'
  BY NextKeepsIInv, NextKeepsVersions
<1> QED BY <1>1, <1>2, PTL DEF Spec

-----------------------------------------------------------------------------
(* With no save under way and none overlapped, a restart finds exactly what  *)
(* the engine holds (automation.py:32-75).                                   *)
THEOREM RestartFindsTheSame == Spec => []FileFollowsMemory
<1> QED BY IInvHolds, PTL DEF IInv

(* A routine that SON has said is created is there until it is deleted,      *)
(* through any number of restarts, unless a crash or another change came     *)
(* into a save.                                                              *)
THEOREM CreatedStays == Spec => []CreatedIsKept
<1>1. IInv => CreatedIsKept
  BY DEF IInv, AckedAreHeld, CreatedIsKept
<1> QED BY <1>1, IInvHolds, PTL

(* Dad's command, which asks an engine of its own for the name in lower case, *)
(* misses a routine that SON's engine has under such a name only during a    *)
(* save or after a harmed one (commands.py:93, automation.py:102).           *)
THEOREM MissesOnlyMidSave == Spec => MissedOnlyMidSave
<1>1. ASSUME IInv, NEW n \in Names, KeyNotFound(n)
      PROVE  mem[n] = 0 \/ n # Lower(n) \/ Saving \/ harm
  BY <1>1 DEF IInv, HarmTold, FileFollowsMemory, KeyNotFound
<1>2. IInv /\ [Next]_vars
        => [\A n \in Names : KeyNotFound(n) =>
              mem[n] = 0 \/ n # Lower(n) \/ Saving \/ harm]_vars
  BY <1>1
<1> QED BY <1>2, IInvHolds, PTL DEF Spec, MissedOnlyMidSave

-----------------------------------------------------------------------------
(* A machine with the fields of Machines, whatever their contents.           *)
Shaped(m) ==
  /\ m = [mixer |-> m.mixer, volume |-> m.volume, sound |-> m.sound,
          bright |-> m.bright, power |-> m.power, spool |-> m.spool,
          clip |-> m.clip, procs |-> m.procs, files |-> m.files, up |-> m.up]
  /\ m.spool \in [PowerCommands -> Nat]

(* Nothing that has been said about sound or power changes from m to n, ...  *)
Quiet(m, n) ==
  Shaped(n) /\ n.volume = m.volume /\ n.sound = m.sound
  /\ n.power = m.power /\ n.spool = m.spool

(* ... or one power command is started.                                      *)
Started(m, n) ==
  Shaped(n) /\ n.volume = m.volume /\ n.sound = m.sound /\ n.power = m.power
  /\ \E x \in PowerCommands : n.spool = [m.spool EXCEPT ![x] = @ + 1]

(* What a call of a tool comes to.                                           *)
LEMMA EffectCases ==
  ASSUME NEW m, NEW c, NEW o \in Effect(m, c)
  PROVE  \/ c.tool = "set_volume" /\ o \in SetVolume(m, c.arg)
         \/ c.tool = "set_brightness" /\ o \in SetBrightness(m, c.arg)
         \/ c.tool = "shutdown_pc" /\ o \in ShutdownPc(m)
         \/ c.tool = "restart_pc" /\ o \in RestartPc(m)
         \/ c.tool = "cancel_shutdown" /\ o \in CancelShutdown(m)
         \/ /\ c.tool = "open_application"
            /\ \E p \in Processes : o \in OpenApplication(m, p)
         \/ c.tool = "close_application" /\ o \in CloseApplication(m, c.arg)
         \/ c.tool = "kill_process" /\ o \in KillProcess(m, c.arg)
         \/ c.tool = "write_file" /\ o \in WriteFile(m, c.arg, 9)
         \/ c.tool = "run_command" /\ o \in RunCommand(m, c.arg)
         \/ c.tool = "take_screenshot" /\ o \in TakeScreenshot(m, c.arg)
         \/ c.tool = "set_clipboard" /\ o \in SetClipboard(m, c.arg)
         \/ /\ c.tool \in {"docker_start", "docker_start_container"}
            /\ o \in Docker(m, c.arg, TRUE)
         \/ /\ c.tool \in {"docker_stop", "docker_stop_container"}
            /\ o \in Docker(m, c.arg, FALSE)
         \/ /\ c.tool \in {"docker_restart", "docker_restart_container"}
            /\ o \in DockerRestart(m, c.arg)
         \/ c.tool = "delete_path" /\ o \in DeletePath(m, c.arg)
         \/ c.tool = "copy_path" /\ \E g \in Files : o \in CopyPath(m, c.arg, g)
         \/ c.tool = "move_path" /\ \E g \in Files : o \in MovePath(m, c.arg, g)
         \/ c.tool = "compress_folder" /\ o \in CompressFolder(m, c.arg)
         \/ c.tool = "extract_zip" /\ o \in ExtractZip(m, c.arg)
         \/ c.tool = "install_requirements" /\ o \in InstallRequirements(m, c.arg)
         \/ c.tool # "set_volume" /\ o = Outcome(m, "unknown")
<1>1. CASE c.tool = "open_application"
  BY <1>1 DEF Effect
<1>2. CASE c.tool = "copy_path"
  BY <1>2 DEF Effect
<1>3. CASE c.tool = "move_path"
  BY <1>3 DEF Effect
<1> DEFINE Some == {"set_volume", "set_brightness", "shutdown_pc", "restart_pc",
                    "cancel_shutdown", "close_application"}
           More == {"kill_process", "write_file", "run_command",
                    "take_screenshot", "set_clipboard", "delete_path"}
           Containers_ == {"docker_start", "docker_start_container", "docker_stop",
                           "docker_stop_container", "docker_restart",
                           "docker_restart_container"}
           Archives == {"compress_folder", "extract_zip", "install_requirements"}
<1>4. CASE c.tool \in Some
  BY <1>4 DEF Effect
<1>5. CASE c.tool \in More
  BY <1>5 DEF Effect
<1>6. CASE c.tool \in Containers_
  BY <1>6 DEF Effect
<1>7. CASE c.tool \in Archives
  BY <1>7 DEF Effect
<1>8. CASE c.tool \notin Some \cup More \cup Containers_ \cup Archives
                         \cup {"open_application", "copy_path", "move_path"}
  BY <1>8 DEF Effect
<1> QED BY <1>1, <1>2, <1>3, <1>4, <1>5, <1>6, <1>7, <1>8

(* The same for a call of the plugins' registry.                            *)
LEMMA PluginEffectCases ==
  ASSUME NEW m, NEW c, NEW o \in PluginEffect(m, c)
  PROVE  \/ c.tool = "set_volume" /\ o \in PluginSetVolume(m, c.arg)
         \/ c.tool = "shutdown_pc" /\ o \in PluginPower(m, "shutdown", Bypass)
         \/ c.tool = "restart_pc" /\ o \in PluginPower(m, "restart", Bypass)
         \/ c.tool = "open_application" /\ \E p \in Processes, l \in BOOLEAN :
                                             o \in PluginOpenApplication(m, p, l)
         \/ c.tool = "close_application" /\ o \in PluginCloseApplication(m, c.arg)
         \/ c.tool # "set_volume" /\ o \in Effect(m, c)
BY DEF PluginEffect

(* Nothing that happens is quiet, ...                                       *)
LEMMA SameIsQuiet == ASSUME NEW m, Shaped(m) PROVE Quiet(m, m)
BY DEF Quiet

(* ... and so is what happens to light, processes, files, containers or the  *)
(* clipboard.                                                                *)
LEMMA FieldsAreQuiet ==
  ASSUME NEW m, Shaped(m), NEW x
  PROVE  /\ Quiet(m, [m EXCEPT !.bright = x])
         /\ Quiet(m, [m EXCEPT !.procs = x])
         /\ Quiet(m, [m EXCEPT !.files = x])
         /\ Quiet(m, [m EXCEPT !.up = x])
         /\ Quiet(m, [m EXCEPT !.clip = x])
BY DEF Quiet, Shaped

(* shutdown.exe is started.                                                 *)
LEMMA SpoolStarts ==
  ASSUME NEW m, Shaped(m), NEW x \in PowerCommands PROVE Started(m, Spool(m, x))
<1>1. Spool(m, x) = [m EXCEPT !.spool = [m.spool EXCEPT ![x] = @ + 1]]
  BY DEF Spool
<1>2. [m.spool EXCEPT ![x] = @ + 1] \in [PowerCommands -> Nat]
  BY DEF Shaped
<1> HIDE DEF PowerCommands
<1> QED BY <1>1, <1>2 DEF Started, Shaped

(* Whatever processes are terminated, ...                                   *)
LEMMA TerminateIsQuiet ==
  ASSUME NEW m, Shaped(m), NEW P, NEW o \in Terminate(m, P) PROVE Quiet(m, o.pc)
<1>1. PICK S \in SUBSET P :
        o = Outcome([m EXCEPT !.procs = m.procs \ S], IF S = {} THEN "none" ELSE "closed")
  BY DEF Terminate
<1> QED BY <1>1, FieldsAreQuiet DEF Outcome

(* ... whatever becomes of a file, ...                                      *)
LEMMA FileIsQuiet ==
  ASSUME NEW m, Shaped(m), NEW f, NEW x PROVE Quiet(m, [m EXCEPT !.files[f] = x])
<1>1. [m EXCEPT !.files[f] = x] = [m EXCEPT !.files = [m.files EXCEPT ![f] = x]]
  OBVIOUS
<1> QED BY <1>1, FieldsAreQuiet

(* ... and so each of the tools that write, copy, move or delete files, ... *)
LEMMA FilesAreQuiet ==
  ASSUME NEW m, Shaped(m), NEW f, NEW g, NEW x,
         NEW o \in WriteFile(m, f, x) \cup RunCommand(m, f) \cup DeletePath(m, f)
                   \cup CopyPath(m, f, g) \cup MovePath(m, f, g)
  PROVE  Quiet(m, o.pc)
<1>1. CASE o \in WriteFile(m, f, x)
  <2> DEFINE written == [m EXCEPT !.files[f] = x]
             cut     == [m EXCEPT !.files[f] = -1]
  <2>1. \E said : o \in {Outcome(written, said), Outcome(cut, said), Outcome(m, said)}
    BY <1>1 DEF WriteFile
  <2>2. Quiet(m, written) /\ Quiet(m, cut) /\ Quiet(m, m)
    BY SameIsQuiet, FileIsQuiet
  <2> HIDE DEF written, cut
  <2> QED BY <2>1, <2>2 DEF Outcome
<1>2. CASE o \in RunCommand(m, f)
  <2> DEFINE gone == [m EXCEPT !.files[f] = 0]
  <2>1. \E said : o \in {Outcome(gone, said), Outcome(m, said)}
    BY <1>2 DEF RunCommand
  <2>2. Quiet(m, gone) /\ Quiet(m, m)
    BY SameIsQuiet, FileIsQuiet
  <2> HIDE DEF gone
  <2> QED BY <2>1, <2>2 DEF Outcome
<1>3. CASE o \in DeletePath(m, f)
  <2> DEFINE gone == [m EXCEPT !.files[f] = 0]
  <2>1. \E said : o \in {Outcome(gone, said), Outcome(m, said)}
    BY <1>3 DEF DeletePath
  <2>2. Quiet(m, gone) /\ Quiet(m, m)
    BY SameIsQuiet, FileIsQuiet
  <2> HIDE DEF gone
  <2> QED BY <2>1, <2>2 DEF Outcome
<1>4. CASE o \in CopyPath(m, f, g)
  <2> DEFINE cut    == [m EXCEPT !.files[g] = -1]
             copied == [m EXCEPT !.files[g] = m.files[f]]
  <2>1. \E said : o \in {Outcome(cut, said), Outcome(copied, said), Outcome(m, said)}
    BY <1>4 DEF CopyPath
  <2>2. Quiet(m, cut) /\ Quiet(m, copied) /\ Quiet(m, m)
    BY SameIsQuiet, FileIsQuiet
  <2> HIDE DEF cut, copied
  <2> QED BY <2>1, <2>2 DEF Outcome
<1>5. CASE o \in MovePath(m, f, g)
  <2> DEFINE moved  == [m EXCEPT !.files = [@ EXCEPT ![f] = 0, ![g] = m.files[f]]]
             copied == [m EXCEPT !.files[g] = m.files[f]]
  <2>1. \E said : o \in {Outcome(moved, said), Outcome(copied, said), Outcome(m, said)}
    BY <1>5 DEF MovePath
  <2>2. Quiet(m, copied) /\ Quiet(m, m)
    BY SameIsQuiet, FileIsQuiet
  <2>3. Quiet(m, moved)
    <3>1. moved = [m EXCEPT !.files = [m.files EXCEPT ![f] = 0, ![g] = m.files[f]]]
      OBVIOUS
    <3> QED BY <3>1, FieldsAreQuiet
  <2> HIDE DEF moved, copied
  <2> QED BY <2>1, <2>2, <2>3 DEF Outcome
<1> QED BY <1>1, <1>2, <1>3, <1>4, <1>5

(* ... two quiet things in a row, ...                                       *)
LEMMA QuietTwice ==
  ASSUME NEW m, NEW n, NEW o, Quiet(m, n), Quiet(n, o) PROVE Quiet(m, o)
BY DEF Quiet

(* ... what is written over other files or the clipboard, ...               *)
LEMMA OverwriteIsQuiet ==
  ASSUME NEW m, Shaped(m), NEW G, NEW o \in Overwrite(m, G) PROVE Quiet(m, o.pc)
<1> DEFINE after(S) == [m EXCEPT !.files = [f \in Files |-> IF f \in S THEN 8
                                                            ELSE m.files[f]]]
           cut(S, g) == [after(S) EXCEPT !.files[g] = -1]
<1>1. PICK S \in SUBSET G :
        o \in {Outcome(after(S), "done"), Outcome(after(S), "failed")} \cup
             {Outcome([after(S) EXCEPT !.files[g] = -1], "failed") : g \in G}
  BY DEF Overwrite
<1>2. o.pc = after(S) \/ \E g : o.pc = cut(S, g)
  <2> HIDE DEF after
  <2>1. CASE o \in {Outcome(after(S), "done"), Outcome(after(S), "failed")}
    BY <2>1 DEF Outcome
  <2>2. ASSUME NEW g \in G, o = Outcome([after(S) EXCEPT !.files[g] = -1], "failed")
        PROVE  o.pc = cut(S, g)
    BY <2>2 DEF Outcome
  <2> QED BY <1>1, <2>1, <2>2
<1>3. Quiet(m, after(S)) /\ Shaped(after(S))
  BY FieldsAreQuiet DEF Quiet
<1> HIDE DEF after
<1>4. \A g : Quiet(after(S), cut(S, g))
  BY <1>3, FileIsQuiet
<1> QED BY <1>2, <1>3, <1>4, QuietTwice

(* ... and so each of the tools that do, ...                                *)
LEMMA ArchivesAreQuiet ==
  ASSUME NEW m, Shaped(m), NEW f,
         NEW o \in CompressFolder(m, f) \cup ExtractZip(m, f)
                   \cup InstallRequirements(m, f) \cup TakeScreenshot(m, f)
                   \cup SetClipboard(m, f)
  PROVE  Quiet(m, o.pc)
<1>1. CASE o \in SetClipboard(m, f)
  <2> DEFINE new == [m EXCEPT !.clip = f]
  <2>1. \E said : o \in {Outcome(m, said), Outcome(new, said)}
    BY <1>1 DEF SetClipboard
  <2>2. Quiet(m, new) /\ Quiet(m, m)
    BY SameIsQuiet, FieldsAreQuiet
  <2> HIDE DEF new
  <2> QED BY <2>1, <2>2 DEF Outcome
<1>2. CASE o \notin SetClipboard(m, f)
  <2>1. o = Outcome(m, "not found") \/ \E G : o \in Overwrite(m, G)
    BY <1>2 DEF CompressFolder, ExtractZip, InstallRequirements, TakeScreenshot
  <2>2. CASE o = Outcome(m, "not found")
    BY <2>2, SameIsQuiet DEF Outcome
  <2>3. ASSUME NEW G, o \in Overwrite(m, G) PROVE Quiet(m, o.pc)
    BY <2>3, OverwriteIsQuiet
  <2> QED BY <2>1, <2>2, <2>3
<1> QED BY <1>1, <1>2

(* ... kill_process, which may do both its things, ...                      *)
LEMMA KillIsQuiet ==
  ASSUME NEW m, Shaped(m), NEW text, NEW o \in KillProcess(m, text)
  PROVE  Quiet(m, o.pc)
<1> DEFINE ended(p) == [m EXCEPT !.procs = @ \ {p}]
           named(n) == Terminate(n, {p \in n.procs : text \in p.texts})
<1>1. \/ o \in named(m)
      \/ \E p : o = Outcome(ended(p), "closed") \/ o \in named(ended(p))
  BY DEF KillProcess
<1>2. \A p : Quiet(m, ended(p)) /\ Shaped(ended(p))
  BY FieldsAreQuiet DEF Quiet
<1>3. ASSUME NEW n, Shaped(n), o \in named(n) PROVE Quiet(n, o.pc)
  BY <1>3, TerminateIsQuiet
<1> HIDE DEF ended, named
<1> QED BY <1>1, <1>2, <1>3, QuietTwice DEF Outcome

(* ... the containers' tools, ...                                           *)
LEMMA DockerIsQuiet ==
  ASSUME NEW m, Shaped(m), NEW k, NEW running_ \in BOOLEAN,
         NEW o \in Docker(m, k, running_) \cup DockerRestart(m, k)
  PROVE  Quiet(m, o.pc)
<1> DEFINE with    == [m EXCEPT !.up = @ \cup {k}]
           without == [m EXCEPT !.up = @ \ {k}]
           done    == [m EXCEPT !.up = IF running_ THEN @ \cup {k} ELSE @ \ {k}]
<1>1. \E said : o \in {Outcome(with, said), Outcome(without, said),
                       Outcome(done, said), Outcome(m, said)}
  BY DEF Docker, DockerRestart
<1>2. Quiet(m, with) /\ Quiet(m, without) /\ Quiet(m, done) /\ Quiet(m, m)
  BY SameIsQuiet, FieldsAreQuiet
<1> HIDE DEF with, without, done
<1> QED BY <1>1, <1>2 DEF Outcome

(* ... open_application, of tools/ or of the plugin, ...                    *)
LEMMA OpenIsQuiet ==
  ASSUME NEW m, Shaped(m), NEW p, NEW listed \in BOOLEAN,
         NEW o \in OpenApplication(m, p) \cup PluginOpenApplication(m, p, listed)
  PROVE  Quiet(m, o.pc)
<1> DEFINE opened == [m EXCEPT !.procs = @ \cup {p}]
<1>1. \E said : o \in {Outcome(opened, said), Outcome(m, said)}
  BY DEF OpenApplication, PluginOpenApplication
<1>2. Quiet(m, opened) /\ Quiet(m, m)
  BY SameIsQuiet, FieldsAreQuiet
<1> HIDE DEF opened
<1> QED BY <1>1, <1>2 DEF Outcome

(* ... and set_brightness are quiet.                                        *)
LEMMA BrightnessIsQuiet ==
  ASSUME NEW m, Shaped(m), NEW n, NEW o \in SetBrightness(m, n)
  PROVE  Quiet(m, o.pc)
<1> DEFINE set == [m EXCEPT !.bright = Clamp(n)]
<1>1. \E said : o \in {Outcome(set, said), Outcome(m, said)}
  BY DEF SetBrightness
<1>2. Quiet(m, set) /\ Quiet(m, m)
  BY SameIsQuiet, FieldsAreQuiet
<1> HIDE DEF set
<1> QED BY <1>1, <1>2 DEF Outcome

(* A power tool is quiet or starts one command.                             *)
LEMMA PowerStarts ==
  ASSUME NEW m, Shaped(m), NEW x \in PowerCommands,
         NEW o \in ShutdownPc(m) \cup RestartPc(m) \cup CancelShutdown(m)
                   \cup PluginPower(m, x, Bypass)
  PROVE  Quiet(m, o.pc) \/ Started(m, o.pc)
<1>1. \E said, y : /\ y \in PowerCommands
                  /\ o \in {Outcome(Spool(m, y), said), Outcome(m, said)}
  BY DEF ShutdownPc, RestartPc, CancelShutdown, PluginPower, PowerCommands
<1>2. Quiet(m, m) /\ \A y \in PowerCommands : Started(m, Spool(m, y))
  BY SameIsQuiet, SpoolStarts
<1> QED BY <1>1, <1>2 DEF Outcome

(* So is every tool but set_volume.                                         *)
LEMMA OthersKeepSound ==
  ASSUME NEW m, Shaped(m), NEW c, c.tool # "set_volume",
         NEW o \in Effect(m, c) \cup PluginEffect(m, c)
  PROVE  Quiet(m, o.pc) \/ Started(m, o.pc)
<1>1. ASSUME o \in Effect(m, c) PROVE Quiet(m, o.pc) \/ Started(m, o.pc)
  <2>1. CASE c.tool = "set_brightness" /\ o \in SetBrightness(m, c.arg)
    BY <2>1, BrightnessIsQuiet
  <2>2. CASE o \in ShutdownPc(m) \cup RestartPc(m) \cup CancelShutdown(m)
    BY <2>2, PowerStarts DEF PowerCommands
  <2>3. CASE \E p \in Processes : o \in OpenApplication(m, p)
    BY <2>3, OpenIsQuiet
  <2>4. CASE o \in CloseApplication(m, c.arg)
    BY <2>4, TerminateIsQuiet DEF CloseApplication
  <2>5. CASE o \in KillProcess(m, c.arg)
    BY <2>5, KillIsQuiet
  <2>6. CASE o \in WriteFile(m, c.arg, 9) \cup RunCommand(m, c.arg) \cup DeletePath(m, c.arg)
    BY <2>6, FilesAreQuiet
  <2>7. CASE \E g \in Files : o \in CopyPath(m, c.arg, g) \cup MovePath(m, c.arg, g)
    BY <2>7, FilesAreQuiet
  <2>8. CASE o \in Docker(m, c.arg, TRUE) \cup Docker(m, c.arg, FALSE)
                    \cup DockerRestart(m, c.arg)
    BY <2>8, DockerIsQuiet
  <2>9. CASE o = Outcome(m, "unknown")
    BY <2>9, SameIsQuiet DEF Outcome
  <2>10. CASE o \in CompressFolder(m, c.arg) \cup ExtractZip(m, c.arg)
                     \cup InstallRequirements(m, c.arg) \cup TakeScreenshot(m, c.arg)
                     \cup SetClipboard(m, c.arg)
    BY <2>10, ArchivesAreQuiet
  <2> QED BY <1>1, <2>1, <2>2, <2>3, <2>4, <2>5, <2>6, <2>7, <2>8, <2>9, <2>10,
             EffectCases
<1>2. ASSUME o \in PluginEffect(m, c) PROVE Quiet(m, o.pc) \/ Started(m, o.pc)
  <2>1. CASE o \in PluginPower(m, "shutdown", Bypass) \cup PluginPower(m, "restart", Bypass)
    BY <2>1, PowerStarts DEF PowerCommands
  <2>2. CASE \E p \in Processes, l \in BOOLEAN : o \in PluginOpenApplication(m, p, l)
    BY <2>2, OpenIsQuiet
  <2>3. CASE o \in PluginCloseApplication(m, c.arg)
    BY <2>3, TerminateIsQuiet DEF PluginCloseApplication
  <2> QED BY <1>1, <1>2, <2>1, <2>2, <2>3, PluginEffectCases
<1> QED BY <1>1, <1>2

(* tools/ set_volume begins: it mutes, or unmutes for a level that is still  *)
(* to be set, or leaves the sound as it is.                                  *)
LEMMA VolumeBegins ==
  ASSUME NEW m, Shaped(m), NEW n \in Int, NEW o \in SetVolume(m, n)
  PROVE  /\ Shaped(o.pc) /\ o.pc.power = m.power /\ o.pc.spool = m.spool
         /\ o.said # "set"
         /\ o.said = "muted" => o.pc.sound = "muted"
         /\ o.said # "muted" => o.pc.sound \in {m.sound, "on"}
         /\ o.said = "unmuted" => o.pc.sound = "on"
<1> DEFINE muted == [m EXCEPT !.sound = "muted"]
           on    == [m EXCEPT !.sound = "on"]
           told  == [m EXCEPT !.volume = Clamp(n)]
<1>1. \/ o \in {Outcome(muted, "muted"), Outcome(on, "unmuted"), Outcome(m, "raised")}
      \/ o \in {Outcome(told, "by nircmd"), Outcome(m, "by nircmd"), Outcome(m, "failed")}
  BY DEF SetVolume, Nircmd
<1>2. /\ Shaped(muted) /\ muted.power = m.power /\ muted.spool = m.spool
      /\ muted.sound = "muted"
  BY DEF Shaped
<1>3. Shaped(on) /\ on.power = m.power /\ on.spool = m.spool /\ on.sound = "on"
  BY DEF Shaped
<1>4. /\ Shaped(told) /\ told.power = m.power /\ told.spool = m.spool
      /\ told.sound = m.sound
  BY DEF Shaped
<1> HIDE DEF muted, on, told
<1>5. CASE o \in {Outcome(muted, "muted"), Outcome(on, "unmuted"), Outcome(m, "raised")}
  BY <1>2, <1>3, <1>5 DEF Outcome
<1>6. CASE o \in {Outcome(told, "by nircmd"), Outcome(m, "by nircmd"), Outcome(m, "failed")}
  <2>0. \A x, said : Outcome(x, said).pc = x /\ Outcome(x, said).said = said
    BY DEF Outcome
  <2>1. /\ o.pc \in {told, m} /\ o.said \in {"by nircmd", "failed"}
    <3>1. CASE o = Outcome(told, "by nircmd")
      BY <2>0, <3>1
    <3>2. CASE o = Outcome(m, "by nircmd")
      BY <2>0, <3>2
    <3>3. CASE o = Outcome(m, "failed")
      BY <2>0, <3>3
    <3> QED BY <1>6, <3>1, <3>2, <3>3
  <2>2. Shaped(o.pc) /\ o.pc.power = m.power /\ o.pc.spool = m.spool
        /\ o.pc.sound = m.sound
    BY <1>4, <2>1
  <2> QED BY <2>1, <2>2
<1> QED BY <1>1, <1>5, <1>6

(* The plugin's set_volume sets the level, and leaves a mute as it is.      *)
LEMMA PluginVolumeSets ==
  ASSUME NEW m, Shaped(m), NEW n, NEW o \in PluginSetVolume(m, n)
  PROVE  /\ Shaped(o.pc) /\ o.pc.power = m.power /\ o.pc.spool = m.spool
         /\ o.pc.sound = m.sound /\ o.said # "muted"
         /\ o.said = "set" => o.pc.volume = Clamp(n)
<1> DEFINE set == [m EXCEPT !.volume = Clamp(n)]
<1>1. o \in {Outcome(m, "failed"), Outcome(set, "set")}
  BY DEF PluginSetVolume
<1>2. /\ Shaped(set) /\ set.power = m.power /\ set.spool = m.spool
      /\ set.sound = m.sound /\ set.volume = Clamp(n)
  BY DEF Shaped
<1> HIDE DEF set
<1> QED BY <1>1, <1>2 DEF Outcome

(* While one power command is under way, it is the latest, and what was      *)
(* scheduled at its start still is.                                          *)
PowerPending ==
  power.with = {} =>
    \A x \in PowerCommands :
      pc.spool[x] # 0 => /\ x = power.asked /\ pc.spool[x] = 1
                         /\ pc.power = power.was

(* A set_volume that has unmuted, and notes no muting since, is not muted.   *)
UnderWay ==
  \A b \in Actors : job[b].level # 0 /\ job[b].with = {} => pc.sound = "on"

AInv == /\ Shaped(pc) /\ AudibleAsReported /\ UnderWay
        /\ PowerPending /\ PowerAsReported

(* What is told of another tool than set_volume agrees with what was told    *)
(* before.                                                                   *)
LEMMA OthersTell ==
  ASSUME AInv, NEW c, c.tool # "set_volume", NEW by,
         NEW o, pc' = o.pc, Quiet(pc, o.pc) \/ Started(pc, o.pc), Tells(c, o, by)
  PROVE  Shaped(pc)' /\ AudibleAsReported' /\ PowerPending' /\ PowerAsReported'
         /\ pc'.sound = pc.sound
<1>1. /\ heard' = heard
      /\ power' = IF o.pc.spool = pc.spool THEN power
                  ELSE [asked |-> CHOOSE x \in PowerCommands : o.pc.spool[x] > pc.spool[x],
                        with |-> {x \in PowerCommands : pc.spool[x] > 0},
                        was |-> pc.power]
  BY DEF Tells
<1>2. CASE Quiet(pc, pc')
  <2>1. heard' = heard /\ power' = power
    BY <1>1, <1>2 DEF Quiet
  <2> QED BY <1>2, <2>1 DEF AInv, Quiet, AudibleAsReported, PowerPending, PowerAsReported
<1>3. CASE Started(pc, pc')
  <2>1. PICK x \in PowerCommands : pc'.spool = [pc.spool EXCEPT ![x] = @ + 1]
    BY <1>3 DEF Started
  <2>2. pc.spool \in [PowerCommands -> Nat]
    BY DEF AInv, Shaped
  <2>3. /\ pc'.spool[x] = pc.spool[x] + 1 /\ pc'.spool[x] # 0
        /\ \A y \in PowerCommands \ {x} : pc'.spool[y] = pc.spool[y]
    BY <2>1, <2>2
  <2>4. x = CHOOSE y \in PowerCommands : pc'.spool[y] > pc.spool[y]
    <3>1. \A y \in PowerCommands : pc'.spool[y] > pc.spool[y] <=> y = x
      BY <2>2, <2>3
    <3> QED BY <3>1
  <2>5. /\ power'.asked = x /\ power'.was = pc.power
        /\ power'.with = {y \in PowerCommands : pc.spool[y] > 0}
    <3>1. o.pc.spool # pc.spool
      BY <2>2, <2>3
    <3>2. power' = [asked |-> x, with |-> {y \in PowerCommands : pc.spool[y] > 0},
                    was |-> pc.power]
      BY <1>1, <2>4, <3>1
    <3> QED BY <3>2
  <2>6. PowerPending' /\ PowerAsReported'
    <3>1. power'.with = {} => \A y \in PowerCommands : pc.spool[y] = 0
      BY <2>2, <2>5
    <3>2. PowerPending'
      BY <1>3, <2>3, <2>5, <3>1 DEF PowerPending, Started
    <3>3. PowerAsReported'
      BY <2>3 DEF PowerAsReported
    <3> QED BY <3>2, <3>3
  <2> QED BY <1>1, <1>3, <2>6 DEF AInv, Started, AudibleAsReported
<1> QED BY <1>2, <1>3

(* A tool's answer about sound or power is true when it is given, and another *)
(* tool's does not make it false.                                           *)
LEMMA PerformAnswers ==
  ASSUME IInv, AInv, NEW a \in Actors, NEW next \in Jobs, next.level = 0,
         NEW c \in Requests, NEW by, Perform(a, next, c, Effect(pc, c), by)
  PROVE  AInv'
<1> DEFINE begun   == [next EXCEPT !.level = Clamp(c.arg), !.with = {}]
           noted(b) == [job[b] EXCEPT !.with = @ \cup {a}]
<1>1. PICK o \in Effect(pc, c) :
        /\ pc' = o.pc /\ Tells(c, o, by)
        /\ job' = [b \in Actors |->
             IF b = a
             THEN IF c.tool = "set_volume" /\ o.said = "unmuted" THEN begun ELSE next
             ELSE IF (c.tool = "set_volume" /\ o.said = "muted") /\ job[b].level # 0
             THEN noted(b) ELSE job[b]]
  BY DEF Perform
<1>2. \A b \in Actors : noted(b).with # {}
  BY DEF IInv, Types, Jobs
<1> HIDE DEF begun, noted
<1>3. CASE c.tool = "set_volume"
  <2>1. c.arg \in Int
    BY RequestHasArg
  <2>2. o \in SetVolume(pc, c.arg)
    BY <1>3, EffectCases
  <2>3. /\ Shaped(pc)' /\ pc'.power = pc.power /\ pc'.spool = pc.spool
        /\ o.said # "set"
        /\ o.said = "muted" => pc'.sound = "muted"
        /\ o.said # "muted" => pc'.sound \in {pc.sound, "on"}
        /\ o.said = "unmuted" => pc'.sound = "on"
    BY <1>1, <2>1, <2>2, VolumeBegins DEF AInv
  <2>4. /\ heard'.level = 0 /\ heard'.how # "gui"
        /\ heard'.how = "son" => o.said = "muted"
    BY <1>1, <1>3, <2>3 DEF Tells, NoVolume
  <2>5. AudibleAsReported'
    BY <2>3, <2>4 DEF AudibleAsReported
  <2>6. power' = power
    BY <1>1, <2>3 DEF Tells
  <2>7. UnderWay'
    <3> SUFFICES ASSUME NEW b \in Actors, job'[b].level # 0, job'[b].with = {}
                 PROVE  pc'.sound = "on"
      BY DEF UnderWay
    <3>1. CASE b = a
      BY <1>1, <2>3, <3>1
    <3>2. CASE b # a
      <4>1. job'[b] = job[b] /\ o.said # "muted"
        BY <1>1, <1>2, <1>3, <3>2
      <4> QED BY <2>3, <4>1 DEF AInv, UnderWay
    <3> QED BY <3>1, <3>2
  <2> QED BY <2>3, <2>5, <2>6, <2>7 DEF AInv, PowerPending, PowerAsReported
<1>4. CASE c.tool # "set_volume"
  <2>1. Quiet(pc, o.pc) \/ Started(pc, o.pc)
    BY <1>4, OthersKeepSound DEF AInv
  <2>2. job' = [b \in Actors |-> IF b = a THEN next ELSE job[b]]
    BY <1>1, <1>4
  <2>3. /\ Shaped(pc)' /\ AudibleAsReported' /\ PowerPending' /\ PowerAsReported'
        /\ pc'.sound = pc.sound
    BY <1>1, <1>4, <2>1, OthersTell
  <2>4. UnderWay'
    BY <2>2, <2>3 DEF AInv, UnderWay
  <2> QED BY <2>3, <2>4 DEF AInv
<1> QED BY <1>3, <1>4

(* So is the answer of a tool of the GUI's.                                  *)
LEMMA GuiAnswers == ASSUME AInv, NEW c \in Calls, GuiCall(c) PROVE AInv'
<1> DEFINE by == IF PluginTools[c.tool] \in AskedAbout THEN "gui yes" ELSE "gui"
<1>1. PICK o \in PluginEffect(pc, c) : pc' = o.pc /\ Tells(c, o, by)
  BY DEF GuiCall
<1> HIDE DEF by
<1>2. job' = job
  BY DEF GuiCall
<1>3. CASE c.tool = "set_volume"
  <2>1. o \in PluginSetVolume(pc, c.arg)
    BY <1>3, PluginEffectCases
  <2>2. /\ Shaped(pc)' /\ pc'.power = pc.power /\ pc'.spool = pc.spool
        /\ pc'.sound = pc.sound /\ o.said # "muted"
        /\ o.said = "set" => pc'.volume = Clamp(c.arg)
    BY <1>1, <2>1, PluginVolumeSets DEF AInv
  <2>3. /\ heard'.how # "son"
        /\ o.said = "set" => heard'.level = Clamp(c.arg)
        /\ o.said # "set" => heard'.level = 0 /\ heard'.how # "gui"
    BY <1>1, <1>3, <2>2 DEF Tells, NoVolume
  <2>4. AudibleAsReported'
    BY <2>2, <2>3 DEF AudibleAsReported
  <2>5. power' = power
    BY <1>1, <2>2 DEF Tells
  <2> QED BY <1>2, <2>2, <2>4, <2>5 DEF AInv, PowerPending, PowerAsReported, UnderWay
<1>4. CASE c.tool # "set_volume"
  <2>1. Quiet(pc, o.pc) \/ Started(pc, o.pc)
    BY <1>4, OthersKeepSound DEF AInv
  <2> QED BY <1>1, <1>2, <1>4, <2>1, OthersTell DEF AInv, UnderWay
<1> QED BY <1>3, <1>4

(* set_volume has set its level, and says so.                                *)
LEMMA VolumeAnswers ==
  ASSUME IInv, AInv, NEW a \in Actors, VolumeEnds(a) PROVE AInv'
<1> DEFINE l   == job[a].level
           set == [pc EXCEPT !.volume = l]
<1>1. job[a] \in Jobs /\ l # 0 /\ job \in [Actors -> Jobs]
  BY DEF VolumeEnds, IInv, Types
<1>2. l > 0
  <2>1. l \in 0 .. 100
    BY <1>1 DEF Jobs
  <2> HIDE DEF l
  <2> QED BY <1>1, <2>1
<1>3. PICK o \in {Outcome(set, "set"), Outcome(pc, "raised")} :
        /\ pc' = o.pc
        /\ heard' = IF o.said # "set" THEN NoVolume
                    ELSE [how |-> "son", level |-> l, with |-> job[a].with]
  BY DEF VolumeEnds, SetLevel
<1>4. /\ Shaped(set) /\ set.power = pc.power /\ set.spool = pc.spool
      /\ set.sound = pc.sound /\ set.volume = l
  <2> HIDE DEF l
  <2> QED BY DEF AInv, Shaped
<1>5. /\ job'[a].level = 0 /\ power' = power
      /\ \A b \in Actors \ {a} : job'[b] = job[b]
  <2>1. job' = [job EXCEPT ![a] = [job[a] EXCEPT !.level = 0, !.with = {}]]
    BY <1>1 DEF VolumeEnds
  <2>2. power' = power
    BY DEF VolumeEnds
  <2> QED BY <1>1, <2>1, <2>2, JobFacts
<1>6. job[a].with = {} => pc.sound = "on"
  BY <1>1 DEF AInv, UnderWay
<1> HIDE DEF l, set
<1>7. /\ Shaped(pc)' /\ pc'.power = pc.power /\ pc'.spool = pc.spool
      /\ pc'.sound = pc.sound
  BY <1>3, <1>4 DEF Outcome, AInv
<1>8. AudibleAsReported'
  <2>1. CASE o = Outcome(set, "set")
    <3>1. pc'.volume = l /\ heard' = [how |-> "son", level |-> l, with |-> job[a].with]
      BY <1>3, <1>4, <2>1 DEF Outcome
    <3> QED BY <1>2, <1>6, <1>7, <3>1 DEF AudibleAsReported
  <2>2. CASE o = Outcome(pc, "raised")
    <3>1. heard' = NoVolume
      BY <1>3, <2>2 DEF Outcome
    <3> QED BY <3>1 DEF AudibleAsReported, NoVolume
  <2> QED BY <1>3, <2>1, <2>2
<1>9. UnderWay'
  BY <1>5, <1>7 DEF AInv, UnderWay
<1> QED BY <1>5, <1>7, <1>8, <1>9 DEF AInv, PowerPending, PowerAsReported

(* Windows runs a power command that was started.  If it is the only one, the *)
(* machine is now as was told.                                              *)
LEMMA SpooledAnswers ==
  ASSUME AInv, NEW x \in PowerCommands, RunSpooled(x) PROVE AInv'
<1> DEFINE p == IF x = "abort" THEN "none" ELSE IF pc.power = "none" THEN x ELSE pc.power
<1>1. pc.spool \in [PowerCommands -> Nat] /\ pc.spool[x] > 0
  BY DEF AInv, Shaped, RunSpooled
<1>2. pc' = [pc EXCEPT !.spool = [pc.spool EXCEPT ![x] = @ - 1], !.power = p]
  BY DEF RunSpooled, ShutdownExe
<1>3. [pc.spool EXCEPT ![x] = @ - 1] \in [PowerCommands -> Nat]
  BY <1>1
<1> HIDE DEF p
<1>4. /\ Shaped(pc)' /\ pc'.volume = pc.volume /\ pc'.sound = pc.sound /\ pc'.power = p
      /\ pc'.spool = [pc.spool EXCEPT ![x] = @ - 1]
  <2> HIDE DEF PowerCommands
  <2> QED BY <1>2, <1>3 DEF AInv, Shaped
<1>5. heard' = heard /\ power' = power /\ job' = job
  BY DEF RunSpooled, Untold
<1>6. /\ pc'.spool[x] = pc.spool[x] - 1
      /\ \A y \in PowerCommands \ {x} : pc'.spool[y] = pc.spool[y]
  BY <1>1, <1>4
<1>7. AudibleAsReported' /\ UnderWay'
  BY <1>4, <1>5 DEF AInv, AudibleAsReported, UnderWay
<1>8. ASSUME power.with = {}
      PROVE  /\ x = power.asked /\ \A y \in PowerCommands : pc'.spool[y] = 0
             /\ p = IF x = "abort" THEN "none"
                    ELSE IF power.was = "none" THEN x ELSE power.was
  <2>1. x = power.asked /\ pc.spool[x] = 1 /\ pc.power = power.was
    BY <1>1, <1>8 DEF AInv, PowerPending
  <2>2. \A y \in PowerCommands \ {x} : pc.spool[y] = 0
    BY <1>1, <1>8, <2>1 DEF AInv, PowerPending
  <2> QED BY <1>6, <2>1, <2>2 DEF p, PowerCommands
<1>9. PowerPending' /\ PowerAsReported'
  <2> SUFFICES ASSUME power.with = {} PROVE PowerPending' /\ PowerAsReported'
    BY <1>5 DEF PowerPending, PowerAsReported
  <2>1. PowerPending'
    BY <1>8 DEF PowerPending
  <2>2. PowerAsReported'
    <3>1. power'.asked = x /\ power'.was = power.was /\ pc'.power = p
      BY <1>4, <1>5, <1>8
    <3>2. p = IF x = "abort" THEN "none" ELSE IF power.was = "none" THEN x ELSE power.was
      BY <1>8
    <3>3. x \in {"shutdown", "restart", "abort"}
      BY DEF PowerCommands
    <3> QED BY <3>1, <3>2, <3>3 DEF PowerAsReported
  <2> QED BY <2>1, <2>2
<1> QED BY <1>4, <1>7, <1>9 DEF AInv

-----------------------------------------------------------------------------
(* Tools that take something away and that the table gives no free hand.     *)
Losing == {"delete_path", "kill_process", "shutdown_pc", "restart_pc"}

(* What a table and two tables together say of a tool.                       *)
LEMMA TableFacts ==
  ASSUME NEW t, NEW safe, NEW medium, NEW sensitive, NEW critical,
         NEW T, T = Table(safe, medium, sensitive, critical)
  PROVE  /\ t \in DOMAIN T <=> t \in safe \cup medium \cup sensitive \cup critical
         /\ t \in safe /\ t \notin medium \cup sensitive \cup critical => T[t] = "safe"
         /\ t \in sensitive \cup critical /\ t \notin safe \cup medium
              => T[t] \in AskedAbout
<1>1. DOMAIN T = safe \cup medium \cup sensitive \cup critical
  BY DEF Table
<1>2. ASSUME t \in safe, t \notin medium \cup sensitive \cup critical
      PROVE  T[t] = "safe"
  BY <1>2 DEF Table
<1>3. ASSUME t \in sensitive \cup critical, t \notin safe \cup medium
      PROVE  T[t] \in {"sensitive", "critical"}
  <2>1. T[t] = CASE t \in sensitive -> "sensitive" [] t \in critical -> "critical"
    BY <1>3 DEF Table
  <2> QED BY <1>3, <2>1
<1> QED BY <1>1, <1>2, <1>3 DEF AskedAbout

(* What two tables together say of a tool.                                  *)
LEMMA OverFacts ==
  ASSUME NEW t, NEW first, NEW second
  PROVE  /\ t \in DOMAIN Over(first, second) <=> t \in DOMAIN first \/ t \in DOMAIN second
         /\ t \in DOMAIN first => Over(first, second)[t] = first[t]
         /\ t \notin DOMAIN first /\ t \in DOMAIN second => Over(first, second)[t] = second[t]
BY DEF Over

(* The tables ask about each of these tools, in the terminal (where they all *)
(* are) and in the GUI.                                                     *)
LEMMA LevelsOfLosing ==
  /\ \A t \in Losing : t \in DOMAIN TerminalTools /\ TerminalTools[t] \in AskedAbout
  /\ \A t \in Losing : t \in DOMAIN PluginTools => PluginTools[t] \in AskedAbout
<1>1. \A t \in Losing :
        t \notin DOMAIN WeatherPlugin \cup DOMAIN SpotifyPlugin \cup DOMAIN BrowserPlugin
                 \cup DOMAIN DockerPlugin \cup DOMAIN VSCodePlugin
  BY TableFacts DEF Losing, WeatherPlugin, SpotifyPlugin, BrowserPlugin, DockerPlugin,
                    VSCodePlugin
<1>2. /\ "delete_path" \in DOMAIN FilesPlugin /\ FilesPlugin["delete_path"] \in AskedAbout
      /\ \A t \in Losing \ {"delete_path"} : t \notin DOMAIN FilesPlugin
  BY TableFacts DEF Losing, FilesPlugin
<1>3. /\ \A t \in {"shutdown_pc", "restart_pc"} :
           t \in DOMAIN WindowsPlugin /\ WindowsPlugin[t] \in AskedAbout
      /\ "kill_process" \notin DOMAIN WindowsPlugin
  BY TableFacts DEF WindowsPlugin
<1>4. \A t \in Losing :
        /\ t \in DOMAIN PluginTools <=> t \in DOMAIN FilesPlugin \/ t \in DOMAIN WindowsPlugin
        /\ t \in DOMAIN FilesPlugin => PluginTools[t] = FilesPlugin[t]
        /\ t \notin DOMAIN FilesPlugin /\ t \in DOMAIN WindowsPlugin
             => PluginTools[t] = WindowsPlugin[t]
  BY <1>1, OverFacts DEF PluginTools
<1>5. \A t \in Losing :
        t \notin DOMAIN Automation \cup DOMAIN Web \cup DOMAIN DockerControl
                 \cup DOMAIN WindowsFiles
  BY TableFacts DEF Losing, Automation, Web, DockerControl, WindowsFiles
<1>6. /\ "kill_process" \in DOMAIN WindowsInfo /\ WindowsInfo["kill_process"] \in AskedAbout
      /\ \A t \in Losing \ {"kill_process"} : t \notin DOMAIN WindowsInfo
      /\ \A t \in {"shutdown_pc", "restart_pc"} :
           t \in DOMAIN WindowsControl /\ WindowsControl[t] \in AskedAbout
      /\ "delete_path" \notin DOMAIN WindowsControl
  BY TableFacts DEF Losing, WindowsInfo, WindowsControl
<1>7. \A t \in Losing :
        /\ t \in DOMAIN LegacyTools <=> t \in DOMAIN WindowsInfo \/ t \in DOMAIN WindowsControl
        /\ t \in DOMAIN WindowsInfo => LegacyTools[t] = WindowsInfo[t]
        /\ t \notin DOMAIN WindowsInfo /\ t \in DOMAIN WindowsControl
             => LegacyTools[t] = WindowsControl[t]
  BY <1>5, OverFacts DEF LegacyTools
<1>8. \A t \in Losing : t \in DOMAIN PluginTools => PluginTools[t] \in AskedAbout
  BY <1>2, <1>3, <1>4 DEF Losing
<1>9. \A t \in Losing : t \in DOMAIN TerminalTools /\ TerminalTools[t] \in AskedAbout
  <2>1. \A t \in Losing \ {"delete_path"} :
          t \in DOMAIN LegacyTools /\ LegacyTools[t] \in AskedAbout
    BY <1>6, <1>7 DEF Losing
  <2>2. "delete_path" \notin DOMAIN LegacyTools
    BY <1>6, <1>7 DEF Losing
  <2>3. "delete_path" \in DOMAIN PluginTools
    BY <1>2, <1>4 DEF Losing
  <2> QED BY <1>8, <2>1, <2>2, <2>3, OverFacts DEF TerminalTools, Losing
<1> QED BY <1>8, <1>9

-----------------------------------------------------------------------------
(* No set_volume unmutes in this step.                                       *)
NoneUnmutes ==
  \A b \in Actors :
    job'[b].level # 0 /\ job'[b].with = {} => job[b].level # 0 /\ job[b].with = {}

(* One actor's step of another kind, ...                                    *)
LEMMA StepUnmutesNot ==
  ASSUME Types, NEW a \in Actors, NEW j, job' = [job EXCEPT ![a] = j],
         j.level = 0 \/ (j.level = job[a].level /\ j.with = job[a].with)
  PROVE  NoneUnmutes
BY DEF NoneUnmutes, Types

(* ... the start of a change of the memory, which others note, ...          *)
LEMMA ChangeUnmutesNot ==
  ASSUME Types, NEW a \in Actors, NEW adds, Change(a, adds)
  PROVE  NoneUnmutes
<1> DEFINE others == {b \in Actors \ {a} : Changing(b)}
           mine     == [Idle EXCEPT !.at = "changed", !.adds = adds, !.with = others]
           noted(b) == [job[b] EXCEPT !.with = @ \cup {a}]
<1>1. job' = [b \in Actors |-> IF b = a THEN mine
                               ELSE IF b \in others THEN noted(b) ELSE job[b]]
  BY DEF Change
<1>2. mine.level = 0
  BY DEF Idle
<1>3. \A b \in Actors : noted(b).with # {}
  BY DEF Types, Jobs
<1> HIDE DEF mine, noted, others
<1> QED BY <1>1, <1>2, <1>3 DEF NoneUnmutes

(* ... and the steps of a save.                                             *)
LEMMA SavesUnmuteNot ==
  ASSUME Types, NEW a \in Workers,
         OpenFile(a) \/ DumpBegins(a) \/ DumpRaises(a) \/ DumpEnds(a) \/ CloseFile(a)
  PROVE  NoneUnmutes
<1>1. a \in Actors /\ job[a] \in Jobs
  BY DEF Types, Actors
<1>2. CASE OpenFile(a)
  <2> DEFINE j == [job[a] EXCEPT !.at = "opened"]
  <2>1. job' = [job EXCEPT ![a] = j]
    BY <1>2 DEF OpenFile
  <2>2. j.level = job[a].level /\ j.with = job[a].with
    BY <1>1 DEF Jobs
  <2> HIDE DEF j
  <2> QED BY <1>1, <2>1, <2>2, StepUnmutesNot
<1>3. CASE DumpBegins(a)
  <2> DEFINE j == [job[a] EXCEPT !.at = "dumping", !.was = mem]
  <2>1. job' = [job EXCEPT ![a] = j]
    BY <1>1, <1>3 DEF DumpBegins, Types
  <2>2. j.level = job[a].level /\ j.with = job[a].with
    BY <1>1 DEF Jobs
  <2> HIDE DEF j
  <2> QED BY <1>1, <2>1, <2>2, StepUnmutesNot
<1>4. CASE DumpEnds(a)
  <2>1. PICK text : job' = [job EXCEPT ![a].at = "written", ![a].was = text]
    BY <1>4 DEF DumpEnds
  <2> DEFINE j == [job[a] EXCEPT !.at = "written", !.was = text]
  <2>2. job' = [job EXCEPT ![a] = j]
    BY <1>1, <2>1 DEF Types
  <2>3. j.level = job[a].level /\ j.with = job[a].with
    BY <1>1 DEF Jobs
  <2> HIDE DEF j
  <2> QED BY <1>1, <2>2, <2>3, StepUnmutesNot
<1>5. CASE DumpRaises(a) \/ CloseFile(a)
  <2>1. job' = [job EXCEPT ![a] = Idle]
    BY <1>5 DEF DumpRaises, CloseFile
  <2> QED BY <1>1, <2>1, StepUnmutesNot DEF Idle
<1> QED BY <1>2, <1>3, <1>4, <1>5

(* What a step that changes nothing of this keeps.                           *)
LEMMA UntoldAnswers ==
  ASSUME AInv, UNCHANGED <<pc, heard, power>>, NoneUnmutes PROVE AInv'
BY DEF AInv, AudibleAsReported, PowerPending, PowerAsReported, UnderWay, NoneUnmutes

(* Nothing has been said yet.                                               *)
LEMMA InitAnswers == Init => AInv
<1> SUFFICES ASSUME Init PROVE AInv
  OBVIOUS
<1>1. PICK mixer \in Mixers : pc = NewMachine(mixer)
  BY DEF Init
<1>2. /\ heard = NoVolume /\ power = [asked |-> "none", with |-> {}, was |-> "none"]
      /\ \A b \in Actors : job[b].level = 0
  BY DEF Init, Idle
<1>3. Shaped(pc) /\ pc.power = "none" /\ \A x \in PowerCommands : pc.spool[x] = 0
  BY <1>1 DEF Shaped, NewMachine
<1> QED BY <1>2, <1>3 DEF AInv, AudibleAsReported, PowerPending, PowerAsReported,
                          UnderWay, NoVolume

(* Every step: a tool of the model's, Dad's or the GUI's, a step of a routine, *)
(* a power command that Windows runs, and those that do not touch the machine. *)
LEMMA NextKeepsAnswers ==
  ASSUME IInv, VersionsKnown, AInv, [Next]_vars PROVE AInv'
<1>0. Types /\ Workers \subseteq Actors /\ Keyboard \in Actors /\ FreeWorker \subseteq Workers
  BY DEF IInv, Actors, FreeWorker
<1>1. Idle \in Jobs /\ Idle.level = 0
  BY IdleIsAJob DEF Idle
<1>2. ASSUME NEW c \in Calls,
             Command(c) \/ GuiCall(c) \/ \E a \in FreeWorker : ModelCall(a, c)
      PROVE  AInv'
  <2>1. c \in Requests
    OBVIOUS
  <2>2. ASSUME NEW a \in Actors, NEW by, Perform(a, Idle, c, Effect(pc, c), by)
        PROVE  AInv'
    BY <1>1, <2>1, <2>2, PerformAnswers
  <2>3. CASE Command(c)
    BY <1>0, <2>2, <2>3 DEF Command
  <2>4. CASE GuiCall(c)
    BY <2>4, GuiAnswers
  <2>5. ASSUME NEW a \in FreeWorker, ModelCall(a, c) PROVE AInv'
    BY <1>0, <2>2, <2>5 DEF ModelCall
  <2> QED BY <1>2, <2>3, <2>4, <2>5
<1>3. ASSUME NEW x \in PowerCommands, RunSpooled(x) PROVE AInv'
  BY <1>3, SpooledAnswers
<1>4. ASSUME NEW a \in Actors, NEW v, StartRun(a, v) PROVE NoneUnmutes
  <2> DEFINE j == [Idle EXCEPT !.at = "run", !.ver = v]
  <2>1. job' = [job EXCEPT ![a] = j] /\ j.level = 0
    BY <1>4 DEF StartRun, Idle
  <2> HIDE DEF j
  <2> QED BY <1>0, <2>1, StepUnmutesNot
<1>5. ASSUME NEW n \in Names, NEW a \in FreeWorker,
             \/ \E s \in Scripts : Create(a, n, s)
             \/ Delete(a, n) \/ RunRoutine(a, n)
      PROVE  AInv'
  <2>1. a \in Actors
    BY <1>0
  <2>2. CASE RunRoutine(a, n)
    BY <1>4, <2>1, <2>2, UntoldAnswers DEF RunRoutine, Untold
  <2>3. CASE Delete(a, n)
    BY <1>0, <2>1, <2>3, ChangeUnmutesNot, UntoldAnswers DEF Delete
  <2>4. ASSUME NEW s \in Scripts, Create(a, n, s) PROVE AInv'
    BY <1>0, <2>1, <2>4, ChangeUnmutesNot, UntoldAnswers DEF Create
  <2> QED BY <1>5, <2>2, <2>3, <2>4
<1>6. ASSUME NEW n \in Names, KeyRun(n) \/ KeyNotFound(n) PROVE AInv'
  <2>1. CASE KeyRun(n)
    BY <1>0, <1>4, <2>1, UntoldAnswers DEF KeyRun, Untold
  <2>2. CASE KeyNotFound(n)
    BY <2>2, UntoldAnswers DEF KeyNotFound, Untold, NoneUnmutes
  <2> QED BY <1>6, <2>1, <2>2
<1>7. ASSUME NEW a \in Workers,
             OpenFile(a) \/ DumpBegins(a) \/ DumpRaises(a) \/ DumpEnds(a)
             \/ CloseFile(a)
      PROVE  AInv'
  <2>1. NoneUnmutes
    BY <1>0, <1>7, SavesUnmuteNot
  <2> QED BY <1>7, <2>1, UntoldAnswers
          DEF OpenFile, DumpBegins, DumpRaises, DumpEnds, CloseFile, Untold
<1>8. ASSUME NEW a \in Actors, RunStep(a) PROVE AInv'
  <2> DEFINE c    == script[job[a].ver][job[a].step + 1]
             done == [job[a] EXCEPT !.step = job[a].step + 1]
  <2>1. c \in Requests
    BY <1>8, StepIsARequest
  <2>2. job[a] \in Jobs /\ job[a].level = 0
    BY <1>0, <1>8 DEF RunStep, Types
  <2>3. done \in Jobs /\ done.step = job[a].step + 1 /\ done.level = 0
    BY <2>2, JobFacts
  <2>4. \/ Perform(a, done, c, Effect(pc, c), "routine")
        \/ Untold /\ UNCHANGED pc /\ job' = [job EXCEPT ![a] = done]
    BY <1>8, <2>3 DEF RunStep
  <2> HIDE DEF c, done
  <2>5. CASE Perform(a, done, c, Effect(pc, c), "routine")
    BY <2>1, <2>3, <2>5, PerformAnswers
  <2>6. CASE Untold /\ UNCHANGED pc /\ job' = [job EXCEPT ![a] = done]
    <3>1. NoneUnmutes
      BY <1>0, <2>3, <2>6, StepUnmutesNot
    <3> QED BY <2>6, <3>1, UntoldAnswers DEF Untold
  <2> QED BY <2>4, <2>5, <2>6
<1>9. ASSUME NEW a \in Actors, RunEnds(a) PROVE AInv'
  <2>1. NoneUnmutes
    BY <1>0, <1>1, <1>9, StepUnmutesNot DEF RunEnds
  <2> QED BY <1>9, <2>1, UntoldAnswers DEF RunEnds, Untold
<1>10. CASE Start
  BY <1>10, UntoldAnswers DEF Start, Untold, NoneUnmutes
<1>11. CASE Crash
  <2>1. NoneUnmutes
    BY <1>1, <1>11 DEF Crash, NoneUnmutes
  <2> QED BY <1>11, <2>1, UntoldAnswers DEF Crash, Untold
<1>12. CASE UNCHANGED vars
  BY <1>12, UntoldAnswers DEF vars, NoneUnmutes
<1>13. ASSUME NEW a \in Actors, VolumeEnds(a) PROVE AInv'
  BY <1>13, VolumeAnswers
<1> QED BY <1>2, <1>3, <1>5, <1>6, <1>7, <1>8, <1>9, <1>10, <1>11, <1>12, <1>13 DEF Next

(* It holds in every state.                                                 *)
LEMMA AInvHolds == Spec => []AInv
<1>1. Init => AInv
  BY InitAnswers
<1>2. IInv /\ VersionsKnown /\ AInv /\ [Next]_vars => AInv'
  BY NextKeepsAnswers
<1> QED BY <1>1, <1>2, IInvHolds, PTL DEF Spec

(* What SON last said about the volume or about power is so, and stays so until *)
(* it says something else or sets out to: except that the GUI's set_volume     *)
(* leaves a mute, that a level reported by one of two overlapping set_volumes  *)
(* may be muted by the other, that nircmd's answers are not vouched for, that  *)
(* of power commands under way together any may come last, and that a schedule *)
(* already pending outlives a next one.                                        *)
THEOREM AnswersStayTrue == Spec => []AnswersHold
<1>1. AInv => AnswersHold
  BY DEF AInv, AnswersHold
<1> QED BY <1>1, AInvHolds, PTL

(* What m has, n has too, and no time is taken from Dad.                     *)
Spares(m, n) ==
  /\ n.files = m.files /\ n.clip = m.clip
  /\ m.procs \subseteq n.procs /\ m.up \subseteq n.up
  /\ \A x \in {"shutdown", "restart"} : n.spool[x] = m.spool[x]

(* What is spared is not lost.                                              *)
LEMMA SparedIsNotLost ==
  ASSUME NEW m, Shaped(m), NEW n, Spares(m, n) PROVE ~Loses(m, n)
<1>1. Contents(m) = Contents(n)
  BY DEF Spares, Contents
<1>2. \A x \in {"shutdown", "restart"} : ~(n.spool[x] > m.spool[x])
  BY DEF Spares, Shaped, PowerCommands
<1> QED BY <1>1, <1>2 DEF Loses, Spares

(* Every other tool of the terminal or the GUI spares everything.           *)
LEMMA SparingTools ==
  ASSUME NEW m, Shaped(m), NEW c, c.tool \notin MayLose \cup Losing,
         NEW o \in Effect(m, c) \cup PluginEffect(m, c)
  PROVE  Spares(m, o.pc)
<1>1. Spares(m, m)
  BY DEF Spares
<1>2. \A x : /\ Spares(m, [m EXCEPT !.sound = x])
             /\ Spares(m, [m EXCEPT !.bright = x])
             /\ Spares(m, [m EXCEPT !.volume = x])
  BY DEF Spares, Shaped
<1>3. \A p : Spares(m, [m EXCEPT !.procs = m.procs \cup {p}])
  BY DEF Spares, Shaped
<1>4. \A p : Spares(m, [m EXCEPT !.up = m.up \cup {p}])
  BY DEF Spares, Shaped
<1>5. Spares(m, Spool(m, "abort"))
  BY SpoolStarts DEF Spares, Shaped, Spool, PowerCommands
<1>6. CASE o \in SetVolume(m, c.arg)
  <2> DEFINE muted == [m EXCEPT !.sound = "muted"]
             on    == [m EXCEPT !.sound = "on"]
             told  == [m EXCEPT !.volume = Clamp(c.arg)]
  <2>1. \E said : o \in {Outcome(told, said), Outcome(on, said), Outcome(muted, said),
                         Outcome(m, said)}
    BY <1>6 DEF SetVolume, Nircmd
  <2>2. Spares(m, muted) /\ Spares(m, on) /\ Spares(m, told)
    BY <1>2
  <2> HIDE DEF muted, on, told
  <2> QED BY <1>1, <2>1, <2>2 DEF Outcome
<1>7. CASE o \in PluginSetVolume(m, c.arg)
  <2> DEFINE set == [m EXCEPT !.volume = Clamp(c.arg)]
  <2>1. \E said : o \in {Outcome(set, said), Outcome(m, said)}
    BY <1>7 DEF PluginSetVolume
  <2>2. Spares(m, set)
    BY <1>2
  <2> HIDE DEF set
  <2> QED BY <1>1, <2>1, <2>2 DEF Outcome
<1>8. CASE o \in SetBrightness(m, c.arg)
  <2> DEFINE set == [m EXCEPT !.bright = Clamp(c.arg)]
  <2>1. \E said : o \in {Outcome(set, said), Outcome(m, said)}
    BY <1>8 DEF SetBrightness
  <2>2. Spares(m, set)
    BY <1>2
  <2> HIDE DEF set
  <2> QED BY <1>1, <2>1, <2>2 DEF Outcome
<1>9. CASE o \in CancelShutdown(m)
  BY <1>5, <1>9 DEF CancelShutdown, Outcome
<1>10. ASSUME NEW p, NEW l \in BOOLEAN,
              o \in OpenApplication(m, p) \cup PluginOpenApplication(m, p, l)
       PROVE  Spares(m, o.pc)
  <2> DEFINE opened == [m EXCEPT !.procs = @ \cup {p}]
  <2>1. \E said : o \in {Outcome(opened, said), Outcome(m, said)}
    BY <1>10 DEF OpenApplication, PluginOpenApplication
  <2>2. Spares(m, opened)
    BY <1>3
  <2> HIDE DEF opened
  <2> QED BY <1>1, <2>1, <2>2 DEF Outcome
<1>11. CASE o \in Docker(m, c.arg, TRUE)
  <2> DEFINE done == [m EXCEPT !.up = @ \cup {c.arg}]
  <2>1. \E said : o \in {Outcome(done, said), Outcome(m, said)}
    BY <1>11 DEF Docker
  <2>2. Spares(m, done)
    BY <1>4
  <2> HIDE DEF done
  <2> QED BY <1>1, <2>1, <2>2 DEF Outcome
<1>12. CASE o = Outcome(m, "unknown")
  BY <1>1, <1>12 DEF Outcome
<1>13. ASSUME o \in Effect(m, c) PROVE Spares(m, o.pc)
  BY <1>6, <1>8, <1>9, <1>10, <1>11, <1>12, <1>13, EffectCases DEF MayLose, Losing
<1>14. ASSUME o \in PluginEffect(m, c) PROVE Spares(m, o.pc)
  BY <1>7, <1>10, <1>13, <1>14, PluginEffectCases DEF MayLose, Losing
<1> QED BY <1>13, <1>14

(* What NothingLostUnasked says of one step.                                 *)
Told == Loses(pc, pc') => \/ last'.by \in {"yes", "gui yes", "dad", "routine"}
                          \/ last'.tool \in MayLose

(* A tool that is run takes something away only where it may.               *)
LEMMA ToolSpares ==
  ASSUME AInv, NEW c, NEW by, NEW o \in Effect(pc, c) \cup PluginEffect(pc, c),
         pc' = o.pc, Tells(c, o, by),
         c.tool \in Losing => by \in {"yes", "gui yes", "dad", "routine"}
  PROVE  Told
<1>1. last'.tool = c.tool /\ last'.by = by
  BY DEF Tells
<1>2. c.tool \in MayLose \cup Losing \/ ~Loses(pc, pc')
  BY SparingTools, SparedIsNotLost DEF AInv
<1> QED BY <1>1, <1>2 DEF Told

(* Every step.  A call of the model's runs freely only where the table does *)
(* not ask, a call of the GUI's likewise; Windows takes nothing by itself.  *)
LEMMA NothingIsLost ==
  ASSUME AInv, [Next]_vars
  PROVE  Told
<1>0. ASSUME pc' = pc PROVE Told
  <2>1. Spares(pc, pc)
    BY DEF Spares
  <2> QED BY <1>0, <2>1, SparedIsNotLost DEF AInv, Told
<1>1. ASSUME NEW a, NEW next, NEW c, NEW by, Perform(a, next, c, Effect(pc, c), by),
             c.tool \in Losing => by \in {"yes", "gui yes", "dad", "routine"}
      PROVE  Told
  <2>1. PICK o \in Effect(pc, c) : pc' = o.pc /\ Tells(c, o, by)
    BY <1>1 DEF Perform
  <2> QED BY <1>1, <2>1, ToolSpares
<1>2. ASSUME NEW c \in Calls,
             Command(c) \/ GuiCall(c) \/ \E a \in FreeWorker : ModelCall(a, c)
      PROVE  Told
  <2>1. ASSUME NEW a \in FreeWorker, ModelCall(a, c) PROVE Told
    <3>1. c.tool \in Losing => Confirms(c.tool, c.kw)
      BY LevelsOfLosing DEF Confirms, Level, Losing, AskedAbout
    <3> QED BY <1>1, <2>1, <3>1 DEF ModelCall
  <2>2. CASE Command(c)
    BY <1>1, <2>2 DEF Command
  <2>3. CASE GuiCall(c)
    <3> DEFINE by == IF PluginTools[c.tool] \in AskedAbout THEN "gui yes" ELSE "gui"
    <3>1. c.tool \in Losing => PluginTools[c.tool] \in AskedAbout
      BY <2>3, LevelsOfLosing DEF GuiCall
    <3>2. PICK o \in PluginEffect(pc, c) : pc' = o.pc /\ Tells(c, o, by)
      BY <2>3 DEF GuiCall
    <3> QED BY <3>1, <3>2, ToolSpares
  <2> QED BY <1>2, <2>1, <2>2, <2>3
<1>3. ASSUME NEW x \in PowerCommands, RunSpooled(x) PROVE Told
  <2> DEFINE p == IF x = "abort" THEN "none" ELSE IF pc.power = "none" THEN x ELSE pc.power
  <2>1. pc.spool \in [PowerCommands -> Nat] /\ pc.spool[x] > 0
    BY <1>3 DEF AInv, Shaped, RunSpooled
  <2>2. pc' = [pc EXCEPT !.spool = [pc.spool EXCEPT ![x] = @ - 1], !.power = p]
    BY <1>3 DEF RunSpooled, ShutdownExe
  <2> HIDE DEF p
  <2>3. /\ pc'.files = pc.files /\ pc'.procs = pc.procs /\ pc'.up = pc.up
        /\ pc'.clip = pc.clip /\ pc'.spool = [pc.spool EXCEPT ![x] = @ - 1]
    <3> HIDE DEF PowerCommands
    <3> QED BY <2>2 DEF AInv, Shaped
  <2>4. \A y \in PowerCommands : ~(pc'.spool[y] > pc.spool[y])
    BY <2>1, <2>3
  <2>5. Contents(pc') = Contents(pc)
    BY <2>3 DEF Contents
  <2> QED BY <2>3, <2>4, <2>5 DEF Loses, PowerCommands, Told
<1>4. ASSUME NEW n \in Names, NEW a \in FreeWorker,
             \/ \E s \in Scripts : Create(a, n, s)
             \/ Delete(a, n) \/ RunRoutine(a, n)
      PROVE  Told
  BY <1>0, <1>4 DEF Create, Delete, RunRoutine
<1>5. ASSUME NEW n \in Names, KeyRun(n) \/ KeyNotFound(n) PROVE Told
  BY <1>0, <1>5 DEF KeyRun, KeyNotFound
<1>6. ASSUME NEW a \in Workers,
             OpenFile(a) \/ DumpBegins(a) \/ DumpRaises(a) \/ DumpEnds(a)
             \/ CloseFile(a)
      PROVE  Told
  BY <1>0, <1>6 DEF OpenFile, DumpBegins, DumpRaises, DumpEnds, CloseFile
<1>7. ASSUME NEW a \in Actors, VolumeEnds(a) PROVE Told
  <2> DEFINE set == [pc EXCEPT !.volume = job[a].level]
  <2>1. PICK o \in {Outcome(set, "set"), Outcome(pc, "raised")} : pc' = o.pc
    BY <1>7 DEF VolumeEnds, SetLevel
  <2>2. pc' \in {set, pc}
    BY <2>1 DEF Outcome
  <2>3. Spares(pc, set)
    BY DEF AInv, Spares, Shaped
  <2> HIDE DEF set
  <2> QED BY <1>0, <2>2, <2>3, SparedIsNotLost DEF AInv, Told
<1>8. ASSUME NEW a \in Actors, RunStep(a) PROVE Told
  <2> DEFINE done == [job[a] EXCEPT !.step = @ + 1]
             c    == script[job[a].ver][done.step]
  <2>1. Perform(a, done, c, Effect(pc, c), "routine") \/ pc' = pc
    BY <1>8 DEF RunStep
  <2> HIDE DEF c, done
  <2> QED BY <1>0, <1>1, <2>1
<1>9. ASSUME NEW a \in Actors, RunEnds(a) PROVE Told
  BY <1>0, <1>9 DEF RunEnds
<1>10. CASE Start \/ Crash
  BY <1>0, <1>10 DEF Start, Crash
<1>11. CASE UNCHANGED vars
  BY <1>0, <1>11 DEF vars
<1> QED BY <1>2, <1>3, <1>4, <1>5, <1>6, <1>7, <1>8, <1>9, <1>10, <1>11 DEF Next

(* Files, the clipboard, processes, containers and the machine's time are     *)
(* lost on Dad's word, by a routine, or by one of the tools of MayLose, which *)
(* the tables let change things without a question: whatever calls the model *)
(* makes, in any order and side by side.                                      *)
THEOREM LossIsAskedFor == Spec => NothingLostUnasked
<1>1. AInv /\ [Next]_vars
        => [Loses(pc, pc') => \/ last'.by \in {"yes", "gui yes", "dad", "routine"}
                              \/ last'.tool \in MayLose]_vars
  BY NothingIsLost DEF Told
<1> QED BY <1>1, AInvHolds, PTL DEF Spec, NothingLostUnasked
=============================================================================
