----------------------------- MODULE BrainProofs -----------------------------
(***************************************************************************)
(* Proofs about what becomes of a line Dad types or says.  First Assistant *)
(* with its two tables of patterns: what a line changes is what it asked   *)
(* for, the help text is true, commands leave the memory alone, and only a *)
(* repeated question sees a stale query cache; for any lines, results and  *)
(* lengths of the history.  The two tables are the code's, so that what    *)
(* they make of a line is shown entry by entry.                            *)
(*                                                                         *)
(* Then ToolTurn, for any number of turns, calls, iterations and pool      *)
(* threads: results reach the model in their places, an answered turn      *)
(* leaves no tool call behind, and a tool that Dad would deny runs only if *)
(* he took its question for another one.                                   *)
(***************************************************************************)
EXTENDS ToolTurn, Assistant, FiniteSetTheorems, WellFoundedInduction, TLAPS

-----------------------------------------------------------------------------
(* Which entry of a table of patterns a line meets first.                    *)

(* A set of natural numbers that is not empty has a least element.           *)
LEMMA LeastNat ==
  ASSUME NEW T \in SUBSET Nat, T # {}
  PROVE  \E n \in T : \A m \in T : n <= m
<1>1. IsWellFoundedOn(OpToRel(<, Nat), Nat)
  BY NatLessThanWellFounded
<1>2. PICK n \in T : \A m \in T : <<m, n>> \notin OpToRel(<, Nat)
  BY <1>1, WFMin
<1>3. \A m \in T : ~(m < n)
  BY <1>2 DEF OpToRel
<1> QED BY <1>3

(* The first match of a table is an entry that fits, after none that does;   *)
(* or no entry fits.                                                         *)
LEMMA FirstMatches ==
  ASSUME NEW table, DOMAIN table \subseteq Nat, NEW line
  PROVE  \/ /\ FirstMatch(table, line) = "none"
            /\ \A i \in DOMAIN table : line \notin table[i].fits
         \/ \E i \in DOMAIN table :
              /\ FirstMatch(table, line) = table[i].to /\ line \in table[i].fits
              /\ \A j \in DOMAIN table : j < i => line \notin table[j].fits
<1> DEFINE hits == {i \in DOMAIN table : line \in table[i].fits}
           m == Min(hits)
<1>1. CASE hits = {}
  BY <1>1 DEF FirstMatch
<1>2. CASE hits # {}
  <2>1. PICK i \in hits : \A j \in hits : i <= j
    BY <1>2, LeastNat
  <2>2. m \in hits /\ \A j \in hits : m <= j
    BY <2>1 DEF Min
  <2>3. FirstMatch(table, line) = table[m].to
    BY <1>2 DEF FirstMatch
  <2>4. \A j \in DOMAIN table : j < m => line \notin table[j].fits
    <3> HIDE DEF m
    <3> QED BY <2>2
  <2> QED BY <2>2, <2>3, <2>4
<1> QED BY <1>1, <1>2

(* The handlers by number. *)
LEMMA HandlerNames ==
  /\ Handlers[1].to = "scan" /\ Handlers[2].to = "scan_path"
  /\ Handlers[3].to = "what_changed" /\ Handlers[4].to = "progress"
  /\ Handlers[5].to = "remember" /\ Handlers[6].to = "forget"
  /\ Handlers[7].to = "list_files" /\ Handlers[8].to = "commits"
  /\ Handlers[9].to = "open_app" /\ Handlers[10].to = "close_app"
  /\ Handlers[11].to = "volume" /\ Handlers[12].to = "brightness"
  /\ Handlers[13].to = "screenshot" /\ Handlers[14].to = "system_info"
  /\ Handlers[15].to = "look_at_screen" /\ Handlers[16].to = "see_me"
  /\ Handlers[17].to = "presence" /\ Handlers[18].to = "count"
  /\ Handlers[19].to = "recognize" /\ Handlers[20].to = "enroll"
  /\ Handlers[21].to = "camera_pause" /\ Handlers[22].to = "camera_resume"
  /\ Handlers[23].to = "camera_status" /\ Handlers[24].to = "open_website"
  /\ Handlers[25].to = "search_platform" /\ Handlers[26].to = "web_search"
  /\ Handlers[27].to = "weather" /\ Handlers[28].to = "news"
  /\ Handlers[29].to = "run_routine" /\ Handlers[30].to = "run_named"
  /\ Handlers[31].to = "list_routines" /\ Handlers[32].to = "docker_list"
  /\ Handlers[33].to = "docker_action" /\ Handlers[34].to = "memory_stats"
  /\ Handlers[35].to = "list_tools" /\ Handlers[36].to = "clear_history"
  /\ Handlers[37].to = "help" /\ Handlers[38].to = "exit"
  BY DEF Handlers

(* The router's command patterns by number. *)
LEMMA PatternNames ==
  /\ CommandPatterns[1].to = "open_website"
  /\ CommandPatterns[2].to = "search_platform"
  /\ CommandPatterns[3].to = "app_open" /\ CommandPatterns[4].to = "app_close"
  /\ CommandPatterns[5].to = "system_control"
  /\ CommandPatterns[6].to = "screenshot"
  /\ CommandPatterns[7].to = "system_info"
  /\ CommandPatterns[8].to = "vision_screen"
  /\ CommandPatterns[9].to = "camera_see_me"
  /\ CommandPatterns[10].to = "camera_presence"
  /\ CommandPatterns[11].to = "camera_count"
  /\ CommandPatterns[12].to = "camera_recognize"
  /\ CommandPatterns[13].to = "camera_enroll"
  /\ CommandPatterns[14].to = "camera_pause"
  /\ CommandPatterns[15].to = "camera_resume"
  /\ CommandPatterns[16].to = "camera_status"
  /\ CommandPatterns[17].to = "docker" /\ CommandPatterns[18].to = "docker"
  /\ CommandPatterns[19].to = "web_search" /\ CommandPatterns[20].to = "weather"
  /\ CommandPatterns[21].to = "news" /\ CommandPatterns[22].to = "memory_store"
  /\ CommandPatterns[23].to = "memory_forget"
  /\ CommandPatterns[24].to = "memory_stats"
  /\ CommandPatterns[25].to = "memory_clear"
  /\ CommandPatterns[26].to = "codebase_scan"
  /\ CommandPatterns[27].to = "codebase_diff"
  /\ CommandPatterns[28].to = "codebase_report"
  /\ CommandPatterns[29].to = "codebase_commits"
  /\ CommandPatterns[30].to = "codebase_files"
  /\ CommandPatterns[31].to = "routine" /\ CommandPatterns[32].to = "routine"
  /\ CommandPatterns[33].to = "list_tools" /\ CommandPatterns[34].to = "help"
  /\ CommandPatterns[35].to = "exit" /\ CommandPatterns[36].to = "calculator"
  /\ CommandPatterns[37].to = "system_power"
  BY DEF CommandPatterns

(* There are 38 handlers. *)
LEMMA HandlerNumbers ==
  ASSUME NEW i \in 1 .. 38
  PROVE
         i = 1 \/ i = 2 \/ i = 3 \/ i = 4 \/ i = 5 \/ i = 6 \/ i = 7 \/
         i = 8 \/ i = 9 \/ i = 10 \/ i = 11 \/ i = 12 \/ i = 13 \/ i =
         14 \/ i = 15 \/ i = 16 \/ i = 17 \/ i = 18 \/ i = 19 \/ i = 20
         \/ i = 21 \/ i = 22 \/ i = 23 \/ i = 24 \/ i = 25 \/ i = 26 \/
         i = 27 \/ i = 28 \/ i = 29 \/ i = 30 \/ i = 31 \/ i = 32 \/ i =
         33 \/ i = 34 \/ i = 35 \/ i = 36 \/ i = 37 \/ i = 38
  OBVIOUS

(* There are 37 command patterns. *)
LEMMA PatternNumbers ==
  ASSUME NEW i \in 1 .. 37
  PROVE
         i = 1 \/ i = 2 \/ i = 3 \/ i = 4 \/ i = 5 \/ i = 6 \/ i = 7 \/
         i = 8 \/ i = 9 \/ i = 10 \/ i = 11 \/ i = 12 \/ i = 13 \/ i =
         14 \/ i = 15 \/ i = 16 \/ i = 17 \/ i = 18 \/ i = 19 \/ i = 20
         \/ i = 21 \/ i = 22 \/ i = 23 \/ i = 24 \/ i = 25 \/ i = 26 \/
         i = 27 \/ i = 28 \/ i = 29 \/ i = 30 \/ i = 31 \/ i = 32 \/ i =
         33 \/ i = 34 \/ i = 35 \/ i = 36 \/ i = 37
  OBVIOUS

(* The tables have 38 and 37 entries.                                        *)
LEMMA TableSizes == DOMAIN Handlers = 1 .. 38 /\ DOMAIN CommandPatterns = 1 .. 37
  BY DEF Handlers, CommandPatterns

(* The handlers that change what Son knows are in one place of the table     *)
(* each, and no entry is called "none".                                      *)
LEMMA HandlerPlaces ==
  \A i \in 1 .. 38 :
     /\ Handlers[i].to # "none"
     /\ Handlers[i].to = "remember" => i = 5
     /\ Handlers[i].to = "forget" => i = 6
     /\ Handlers[i].to = "camera_pause" => i = 21
     /\ Handlers[i].to = "camera_resume" => i = 22
  BY ONLY HandlerNames, HandlerNumbers

(* No pattern of the router is called "none".                                *)
LEMMA PatternsAreNamed == \A i \in 1 .. 37 : CommandPatterns[i].to # "none"
  BY ONLY PatternNames, PatternNumbers

(* The handler of a line that fits an entry and none before it.              *)
LEMMA Handles ==
  ASSUME NEW line, NEW k \in 1 .. 38, line \in Handlers[k].fits,
         \A j \in 1 .. 38 : j < k => line \notin Handlers[j].fits
  PROVE  HandlerOf(line) = Handlers[k].to
<1>1. PICK i \in 1 .. 38 :
        /\ HandlerOf(line) = Handlers[i].to /\ line \in Handlers[i].fits
        /\ \A j \in 1 .. 38 : j < i => line \notin Handlers[j].fits
  BY FirstMatches, TableSizes DEF HandlerOf
<1>2. i = k
  BY <1>1
<1> QED BY <1>1, <1>2

(* A line with a handler's name fits that handler's entry, and none before.  *)
LEMMA HandledBy ==
  ASSUME NEW line, NEW h, h # "none", HandlerOf(line) = h
  PROVE  \E i \in 1 .. 38 :
           /\ h = Handlers[i].to /\ line \in Handlers[i].fits
           /\ \A j \in 1 .. 38 : j < i => line \notin Handlers[j].fits
  BY FirstMatches, TableSizes DEF HandlerOf

(* A line is a COMMAND if and only if it fits a command pattern; then it     *)
(* needs no memory.                                                          *)
LEMMA CommandKind ==
  ASSUME NEW line
  PROVE  /\ Classify(line).kind = "COMMAND"
              <=> \E i \in 1 .. 37 : line \in CommandPatterns[i].fits
         /\ Classify(line).kind = "COMMAND" => Classify(line).memory = FALSE
<1>1. FirstMatch(CommandPatterns, line) # "none"
        <=> \E i \in 1 .. 37 : line \in CommandPatterns[i].fits
  BY FirstMatches, TableSizes, PatternsAreNamed
<1> QED BY <1>1 DEF Classify, CommandIntent, Intent

(* A line that fits a command pattern is a COMMAND.                          *)
LEMMA IsPattern ==
  ASSUME NEW line, NEW k \in 1 .. 37, line \in CommandPatterns[k].fits
  PROVE  Classify(line).kind = "COMMAND"
  BY CommandKind

-----------------------------------------------------------------------------
(* The lines that change facts and camera.                                   *)

(* A line that asks to forget something runs the handler that forgets it.    *)
LEMMA ForgetIsForgotten ==
  ASSUME NEW line, line \in {"forget", "forget about"} \X Some
  PROVE  IsCommand(line) /\ HandlerOf(line) = "forget"
<1>1. line \in Handlers[6].fits /\ Handlers[6].to = "forget"
  BY DEF Handlers
<1>2. /\ line \notin Handlers[1].fits /\ line \notin Handlers[2].fits
      /\ line \notin Handlers[3].fits /\ line \notin Handlers[4].fits
      /\ line \notin Handlers[5].fits
  BY DEF Handlers
<1>3. ASSUME NEW j \in 1 .. 38, j < 6 PROVE line \notin Handlers[j].fits
  <2>1. j = 1 \/ j = 2 \/ j = 3 \/ j = 4 \/ j = 5
    BY ONLY <1>3
  <2> QED BY ONLY <1>2, <2>1
<1>4. HandlerOf(line) = Handlers[6].to
  BY ONLY <1>1, <1>3, Handles
<1>5. line \in CommandPatterns[23].fits
  BY DEF CommandPatterns
<1>6. Classify(line).kind = "COMMAND"
  BY ONLY <1>5, IsPattern
<1> QED BY <1>1, <1>4, <1>6 DEF IsCommand

(* No handler before those of the camera takes a line about the camera.      *)
LEMMA CameraIsNotShadowed ==
  ASSUME NEW line \in CameraOff \cup CameraOn, NEW j \in 1 .. 20
  PROVE  line \notin Handlers[j].fits
<1>1.
     /\ line \notin Handlers[1].fits /\ line \notin Handlers[2].fits
     /\ line \notin Handlers[3].fits /\ line \notin Handlers[4].fits
     /\ line \notin Handlers[5].fits /\ line \notin Handlers[6].fits
     /\ line \notin Handlers[7].fits /\ line \notin Handlers[8].fits
     /\ line \notin Handlers[9].fits /\ line \notin Handlers[10].fits
     /\ line \notin Handlers[11].fits /\ line \notin Handlers[12].fits
     /\ line \notin Handlers[13].fits /\ line \notin Handlers[14].fits
     /\ line \notin Handlers[15].fits /\ line \notin Handlers[16].fits
     /\ line \notin Handlers[17].fits /\ line \notin Handlers[18].fits
     /\ line \notin Handlers[19].fits /\ line \notin Handlers[20].fits
  BY DEF CameraOff, CameraOn, Handlers, None, Opening, Searching, SeeMe,
         Presence, Counting, WhoIsIt, Enrolling, Screens, ByeBye, Closing
<1>2.
         j = 1 \/ j = 2 \/ j = 3 \/ j = 4 \/ j = 5 \/ j = 6 \/ j = 7 \/
         j = 8 \/ j = 9 \/ j = 10 \/ j = 11 \/ j = 12 \/ j = 13 \/ j =
         14 \/ j = 15 \/ j = 16 \/ j = 17 \/ j = 18 \/ j = 19 \/ j = 20
  OBVIOUS
<1> QED BY ONLY <1>1, <1>2

(* A line that asks for the camera to go off runs the handler that does it.  *)
LEMMA OffIsOff ==
  ASSUME NEW line \in CameraOff
  PROVE  IsCommand(line) /\ HandlerOf(line) = "camera_pause"
<1>1. line \in Handlers[21].fits /\ Handlers[21].to = "camera_pause"
  BY DEF CameraOff, Handlers
<1>2. \A j \in 1 .. 38 : j < 21 => j \in 1 .. 20
  OBVIOUS
<1>3. HandlerOf(line) = "camera_pause"
  BY <1>1, <1>2, CameraIsNotShadowed, Handles
<1>4. line \in CommandPatterns[14].fits
  BY DEF CameraOff, CommandPatterns
<1>5. Classify(line).kind = "COMMAND"
  BY <1>4, IsPattern
<1> QED BY <1>3, <1>5 DEF IsCommand

(* The same for a line that asks for the camera to go on.                    *)
LEMMA OnIsOn ==
  ASSUME NEW line \in CameraOn
  PROVE  IsCommand(line) /\ HandlerOf(line) = "camera_resume"
<1>1. line \in Handlers[22].fits /\ Handlers[22].to = "camera_resume"
  BY DEF CameraOn, Handlers
<1>2. line \notin Handlers[21].fits
  BY DEF CameraOn, Handlers
<1>3. \A j \in 1 .. 38 : j < 22 => j \in 1 .. 20 \/ j = 21
  OBVIOUS
<1>4. HandlerOf(line) = "camera_resume"
  BY <1>1, <1>2, <1>3, CameraIsNotShadowed, Handles
<1>5. line \in CommandPatterns[15].fits
  BY DEF CameraOn, CommandPatterns
<1>6. Classify(line).kind = "COMMAND"
  BY <1>5, IsPattern
<1> QED BY <1>4, <1>6 DEF IsCommand

(* What the handlers call a camera line and the router does not.             *)
LEMMA NoCommandForTheCamera ==
  ASSUME NEW line \in {"shut down", "activate"} \X {"camera"}
  PROVE  ~IsCommand(line)
<1>1.
     /\ line \notin CommandPatterns[1].fits
     /\ line \notin CommandPatterns[2].fits
     /\ line \notin CommandPatterns[3].fits
     /\ line \notin CommandPatterns[4].fits
     /\ line \notin CommandPatterns[5].fits
     /\ line \notin CommandPatterns[6].fits
     /\ line \notin CommandPatterns[7].fits
     /\ line \notin CommandPatterns[8].fits
     /\ line \notin CommandPatterns[9].fits
     /\ line \notin CommandPatterns[10].fits
     /\ line \notin CommandPatterns[11].fits
     /\ line \notin CommandPatterns[12].fits
     /\ line \notin CommandPatterns[13].fits
     /\ line \notin CommandPatterns[14].fits
     /\ line \notin CommandPatterns[15].fits
     /\ line \notin CommandPatterns[16].fits
     /\ line \notin CommandPatterns[17].fits
     /\ line \notin CommandPatterns[18].fits
     /\ line \notin CommandPatterns[19].fits
     /\ line \notin CommandPatterns[20].fits
     /\ line \notin CommandPatterns[21].fits
     /\ line \notin CommandPatterns[22].fits
     /\ line \notin CommandPatterns[23].fits
     /\ line \notin CommandPatterns[24].fits
     /\ line \notin CommandPatterns[25].fits
     /\ line \notin CommandPatterns[26].fits
     /\ line \notin CommandPatterns[27].fits
     /\ line \notin CommandPatterns[28].fits
     /\ line \notin CommandPatterns[29].fits
     /\ line \notin CommandPatterns[30].fits
     /\ line \notin CommandPatterns[31].fits
     /\ line \notin CommandPatterns[32].fits
     /\ line \notin CommandPatterns[33].fits
     /\ line \notin CommandPatterns[34].fits
     /\ line \notin CommandPatterns[35].fits
     /\ line \notin CommandPatterns[36].fits
     /\ line \notin CommandPatterns[37].fits
  BY DEF CommandPatterns, None, Opening, Searching, SeeMe, Presence, Counting,
         WhoIsIt, Enrolling, Screens, ByeBye
<1>2. ASSUME NEW i \in 1 .. 37 PROVE line \notin CommandPatterns[i].fits
  BY ONLY <1>1, PatternNumbers
<1> QED BY <1>2, CommandKind DEF IsCommand

(* A command that turns the camera off was asked for: the handler's other    *)
(* words are taken by close_app, or are no command.                          *)
LEMMA OffWasAsked ==
  ASSUME NEW line, IsCommand(line), HandlerOf(line) = "camera_pause"
  PROVE  line \in CameraOff
<1>1. line \in Handlers[21].fits /\ line \notin Handlers[10].fits
  BY HandledBy, HandlerPlaces
<1>2. line \in (CameraOff \cup {"close", "shut down"} \X {"camera"})
  BY <1>1 DEF Handlers, CameraOff
<1>3. "camera" \in Some
  BY DEF Some, Objects
<1>4. line \notin {"close"} \X {"camera"}
  BY <1>1, <1>3 DEF Handlers, Closing
<1>5. line \notin {"shut down"} \X {"camera"}
  BY NoCommandForTheCamera
<1> QED BY <1>2, <1>4, <1>5

(* The same for a command that turns it on, and open_app.                    *)
LEMMA OnWasAsked ==
  ASSUME NEW line, IsCommand(line), HandlerOf(line) = "camera_resume"
  PROVE  line \in CameraOn
<1>1. line \in Handlers[22].fits /\ line \notin Handlers[9].fits
  BY HandledBy, HandlerPlaces
<1>2. line \in (CameraOn \cup {"open", "activate"} \X {"camera"})
  BY <1>1 DEF Handlers, CameraOn
<1>3. "camera" \in Some
  BY DEF Some, Objects
<1>4. line \notin {"open"} \X {"camera"}
  BY <1>1, <1>3 DEF Handlers
<1>5. line \notin {"activate"} \X {"camera"}
  BY NoCommandForTheCamera
<1> QED BY <1>2, <1>4, <1>5

(* The lines the two handlers of facts are run for.                          *)
LEMMA FactsWereAsked ==
  ASSUME NEW line
  PROVE  /\ HandlerOf(line) = "remember" => line \in {"remember that"} \X Some
         /\ HandlerOf(line) = "forget" => line \in {"forget", "forget about"} \X Some
<1>1. ASSUME HandlerOf(line) = "remember" PROVE line \in {"remember that"} \X Some
  <2>1. line \in Handlers[5].fits
    BY <1>1, HandledBy, HandlerPlaces
  <2> QED BY <2>1 DEF Handlers
<1>2. ASSUME HandlerOf(line) = "forget"
      PROVE  line \in {"forget", "forget about"} \X Some
  <2>1. line \in Handlers[6].fits
    BY <1>2, HandledBy, HandlerPlaces
  <2> QED BY <2>1 DEF Handlers
<1> QED BY <1>1, <1>2

-----------------------------------------------------------------------------
(* The help text.                                                            *)

(* The parts of an entry of the help text.                                   *)
LEMMA Says ==
  ASSUME NEW says, NEW does, NEW entry, NEW line, line \in entry.says,
         entry = Does(says, does)
  PROVE  line \in says /\ entry.does = does
  BY DEF Does

(* The help text's lines with what they are said to do.                      *)
LEMMA HelpLines ==
  ASSUME NEW entry \in Help, NEW line \in entry.says
  PROVE
     \/ line \in {"scan"} \X {"project"} /\ entry.does = "scan"
     \/ line \in {"scan"} \X {"codebase"} /\ entry.does = "scan_path"
     \/ line \in {"what changed"} \X None /\ entry.does = "what_changed"
     \/ line \in {"progress report"} \X None /\ entry.does = "progress"
     \/ line \in {"list"} \X {"files"} /\ entry.does = "list_files"
     \/ line \in {"commits"} \X None /\ entry.does = "commits"
     \/ line \in {"remember that"} \X Topics /\ entry.does = "remember"
     \/ line \in {"forget about"} \X Topics /\ entry.does = "forget"
     \/ line \in {"memory"} \X {"stats"} /\ entry.does = "memory_stats"
     \/ line \in {"clear"} \X {"history"} /\ entry.does = "clear_history"
     \/ line \in {"open"} \X {"chrome"} /\ entry.does = "open_app"
     \/ line \in {"close"} \X {"chrome"} /\ entry.does = "close_app"
     \/ line \in {"volume"} \X Numbers /\ entry.does = "volume"
     \/ line \in {"brightness"} \X Numbers /\ entry.does = "brightness"
     \/ line \in {"screenshot"} \X None /\ entry.does = "screenshot"
     \/ line \in {"system"} \X {"info"} /\ entry.does = "system_info"
     \/ line \in {"what's on my"} \X {"screen"} /\ entry.does = "look_at_screen"
     \/ line \in {"search"} \X {"cats"} /\ entry.does = "web_search"
     \/ line \in {"weather"} \X None /\ entry.does = "weather"
     \/ line \in {"news"} \X None /\ entry.does = "news"
     \/ line \in {"morning"} \X {"routine"} /\ entry.does = "run_routine"
     \/ line \in {"run routine"} \X {"coding"} /\ entry.does = "run_named"
     \/ line \in {"list"} \X {"routines"} /\ entry.does = "list_routines"
     \/ line \in {"docker"} \X {"list"} /\ entry.does = "docker_list"
     \/ line \in {"start", "stop"} \X Containers /\ entry.does = "docker_action"
     \/ line \in {"tools"} \X None /\ entry.does = "list_tools"
     \/ line \in {"help"} \X None /\ entry.does = "help"
     \/ line \in {"exit", "quit"} \X None /\ entry.does = "exit"
<1>1. entry = Does({"scan"} \X {"project"}, "scan")
       => line \in {"scan"} \X {"project"} /\ entry.does = "scan"
  BY Says
<1>2. entry = Does({"scan"} \X {"codebase"}, "scan_path")
       => line \in {"scan"} \X {"codebase"} /\ entry.does = "scan_path"
  BY Says
<1>3. entry = Does({"what changed"} \X None, "what_changed")
       => line \in {"what changed"} \X None /\ entry.does = "what_changed"
  BY Says
<1>4. entry = Does({"progress report"} \X None, "progress")
       => line \in {"progress report"} \X None /\ entry.does = "progress"
  BY Says
<1>5. entry = Does({"list"} \X {"files"}, "list_files")
       => line \in {"list"} \X {"files"} /\ entry.does = "list_files"
  BY Says
<1>6. entry = Does({"commits"} \X None, "commits")
       => line \in {"commits"} \X None /\ entry.does = "commits"
  BY Says
<1>7. entry = Does({"remember that"} \X Topics, "remember")
       => line \in {"remember that"} \X Topics /\ entry.does = "remember"
  BY Says
<1>8. entry = Does({"forget about"} \X Topics, "forget")
       => line \in {"forget about"} \X Topics /\ entry.does = "forget"
  BY Says
<1>9. entry = Does({"memory"} \X {"stats"}, "memory_stats")
       => line \in {"memory"} \X {"stats"} /\ entry.does = "memory_stats"
  BY Says
<1>10. entry = Does({"clear"} \X {"history"}, "clear_history")
       => line \in {"clear"} \X {"history"} /\ entry.does = "clear_history"
  BY Says
<1>11. entry = Does({"open"} \X {"chrome"}, "open_app")
       => line \in {"open"} \X {"chrome"} /\ entry.does = "open_app"
  BY Says
<1>12. entry = Does({"close"} \X {"chrome"}, "close_app")
       => line \in {"close"} \X {"chrome"} /\ entry.does = "close_app"
  BY Says
<1>13. entry = Does({"volume"} \X Numbers, "volume")
       => line \in {"volume"} \X Numbers /\ entry.does = "volume"
  BY Says
<1>14. entry = Does({"brightness"} \X Numbers, "brightness")
       => line \in {"brightness"} \X Numbers /\ entry.does = "brightness"
  BY Says
<1>15. entry = Does({"screenshot"} \X None, "screenshot")
       => line \in {"screenshot"} \X None /\ entry.does = "screenshot"
  BY Says
<1>16. entry = Does({"system"} \X {"info"}, "system_info")
       => line \in {"system"} \X {"info"} /\ entry.does = "system_info"
  BY Says
<1>17. entry = Does({"what's on my"} \X {"screen"}, "look_at_screen")
       => line \in {"what's on my"} \X {"screen"} /\ entry.does = "look_at_screen"
  BY Says
<1>18. entry = Does({"search"} \X {"cats"}, "web_search")
       => line \in {"search"} \X {"cats"} /\ entry.does = "web_search"
  BY Says
<1>19. entry = Does({"weather"} \X None, "weather")
       => line \in {"weather"} \X None /\ entry.does = "weather"
  BY Says
<1>20. entry = Does({"news"} \X None, "news")
       => line \in {"news"} \X None /\ entry.does = "news"
  BY Says
<1>21. entry = Does({"morning"} \X {"routine"}, "run_routine")
       => line \in {"morning"} \X {"routine"} /\ entry.does = "run_routine"
  BY Says
<1>22. entry = Does({"run routine"} \X {"coding"}, "run_named")
       => line \in {"run routine"} \X {"coding"} /\ entry.does = "run_named"
  BY Says
<1>23. entry = Does({"list"} \X {"routines"}, "list_routines")
       => line \in {"list"} \X {"routines"} /\ entry.does = "list_routines"
  BY Says
<1>24. entry = Does({"docker"} \X {"list"}, "docker_list")
       => line \in {"docker"} \X {"list"} /\ entry.does = "docker_list"
  BY Says
<1>25. entry = Does({"start", "stop"} \X Containers, "docker_action")
       => line \in {"start", "stop"} \X Containers /\ entry.does = "docker_action"
  BY Says
<1>26. entry = Does({"tools"} \X None, "list_tools")
       => line \in {"tools"} \X None /\ entry.does = "list_tools"
  BY Says
<1>27. entry = Does({"help"} \X None, "help")
       => line \in {"help"} \X None /\ entry.does = "help"
  BY Says
<1>28. entry = Does({"exit", "quit"} \X None, "exit")
       => line \in {"exit", "quit"} \X None /\ entry.does = "exit"
  BY Says
<1>29.
     \/ entry = Does({"scan"} \X {"project"}, "scan")
     \/ entry = Does({"scan"} \X {"codebase"}, "scan_path")
     \/ entry = Does({"what changed"} \X None, "what_changed")
     \/ entry = Does({"progress report"} \X None, "progress")
     \/ entry = Does({"list"} \X {"files"}, "list_files")
     \/ entry = Does({"commits"} \X None, "commits")
     \/ entry = Does({"remember that"} \X Topics, "remember")
     \/ entry = Does({"forget about"} \X Topics, "forget")
     \/ entry = Does({"memory"} \X {"stats"}, "memory_stats")
     \/ entry = Does({"clear"} \X {"history"}, "clear_history")
     \/ entry = Does({"open"} \X {"chrome"}, "open_app")
     \/ entry = Does({"close"} \X {"chrome"}, "close_app")
     \/ entry = Does({"volume"} \X Numbers, "volume")
     \/ entry = Does({"brightness"} \X Numbers, "brightness")
     \/ entry = Does({"screenshot"} \X None, "screenshot")
     \/ entry = Does({"system"} \X {"info"}, "system_info")
     \/ entry = Does({"what's on my"} \X {"screen"}, "look_at_screen")
     \/ entry = Does({"search"} \X {"cats"}, "web_search")
     \/ entry = Does({"weather"} \X None, "weather")
     \/ entry = Does({"news"} \X None, "news")
     \/ entry = Does({"morning"} \X {"routine"}, "run_routine")
     \/ entry = Does({"run routine"} \X {"coding"}, "run_named")
     \/ entry = Does({"list"} \X {"routines"}, "list_routines")
     \/ entry = Does({"docker"} \X {"list"}, "docker_list")
     \/ entry = Does({"start", "stop"} \X Containers, "docker_action")
     \/ entry = Does({"tools"} \X None, "list_tools")
     \/ entry = Does({"help"} \X None, "help")
     \/ entry = Does({"exit", "quit"} \X None, "exit")
  BY DEF Help
<1> QED BY ONLY <1>1, <1>2, <1>3, <1>4, <1>5, <1>6, <1>7, <1>8, <1>9, <1>10,
                <1>11, <1>12, <1>13, <1>14, <1>15, <1>16, <1>17, <1>18, <1>19,
                <1>20, <1>21, <1>22, <1>23, <1>24, <1>25, <1>26, <1>27, <1>28,
                <1>29

(* Whichever handler's entry a line of the help text fits, that handler does *)
(* what the text says; save that a line for the whole project also fits the  *)
(* entry for paths, which comes second.                                      *)
LEMMA FitsAsHelpSays ==
  ASSUME NEW entry \in Help, NEW line \in entry.says
  PROVE
     /\ line \in Handlers[1].fits => entry.does = "scan"
     /\ line \in Handlers[2].fits => entry.does = "scan_path" \/ line \in Handlers[1].fits
     /\ line \in Handlers[3].fits => entry.does = "what_changed"
     /\ line \in Handlers[4].fits => entry.does = "progress"
     /\ line \in Handlers[5].fits => entry.does = "remember"
     /\ line \in Handlers[6].fits => entry.does = "forget"
     /\ line \in Handlers[7].fits => entry.does = "list_files"
     /\ line \in Handlers[8].fits => entry.does = "commits"
     /\ line \in Handlers[9].fits => entry.does = "open_app"
     /\ line \in Handlers[10].fits => entry.does = "close_app"
     /\ line \in Handlers[11].fits => entry.does = "volume"
     /\ line \in Handlers[12].fits => entry.does = "brightness"
     /\ line \in Handlers[13].fits => entry.does = "screenshot"
     /\ line \in Handlers[14].fits => entry.does = "system_info"
     /\ line \in Handlers[15].fits => entry.does = "look_at_screen"
     /\ line \in Handlers[16].fits => entry.does = "see_me"
     /\ line \in Handlers[17].fits => entry.does = "presence"
     /\ line \in Handlers[18].fits => entry.does = "count"
     /\ line \in Handlers[19].fits => entry.does = "recognize"
     /\ line \in Handlers[20].fits => entry.does = "enroll"
     /\ line \in Handlers[21].fits => entry.does = "camera_pause"
     /\ line \in Handlers[22].fits => entry.does = "camera_resume"
     /\ line \in Handlers[23].fits => entry.does = "camera_status"
     /\ line \in Handlers[24].fits => entry.does = "open_website"
     /\ line \in Handlers[25].fits => entry.does = "search_platform"
     /\ line \in Handlers[26].fits => entry.does = "web_search"
     /\ line \in Handlers[27].fits => entry.does = "weather"
     /\ line \in Handlers[28].fits => entry.does = "news"
     /\ line \in Handlers[29].fits => entry.does = "run_routine"
     /\ line \in Handlers[30].fits => entry.does = "run_named"
     /\ line \in Handlers[31].fits => entry.does = "list_routines"
     /\ line \in Handlers[32].fits => entry.does = "docker_list"
     /\ line \in Handlers[33].fits => entry.does = "docker_action"
     /\ line \in Handlers[34].fits => entry.does = "memory_stats"
     /\ line \in Handlers[35].fits => entry.does = "list_tools"
     /\ line \in Handlers[36].fits => entry.does = "clear_history"
     /\ line \in Handlers[37].fits => entry.does = "help"
     /\ line \in Handlers[38].fits => entry.does = "exit"
<1>1.
     \/ line \in {"scan"} \X {"project"} /\ entry.does = "scan"
     \/ line \in {"scan"} \X {"codebase"} /\ entry.does = "scan_path"
     \/ line \in {"what changed"} \X None /\ entry.does = "what_changed"
     \/ line \in {"progress report"} \X None /\ entry.does = "progress"
     \/ line \in {"list"} \X {"files"} /\ entry.does = "list_files"
     \/ line \in {"commits"} \X None /\ entry.does = "commits"
     \/ line \in {"remember that"} \X Topics /\ entry.does = "remember"
     \/ line \in {"forget about"} \X Topics /\ entry.does = "forget"
     \/ line \in {"memory"} \X {"stats"} /\ entry.does = "memory_stats"
     \/ line \in {"clear"} \X {"history"} /\ entry.does = "clear_history"
     \/ line \in {"open"} \X {"chrome"} /\ entry.does = "open_app"
     \/ line \in {"close"} \X {"chrome"} /\ entry.does = "close_app"
     \/ line \in {"volume"} \X Numbers /\ entry.does = "volume"
     \/ line \in {"brightness"} \X Numbers /\ entry.does = "brightness"
     \/ line \in {"screenshot"} \X None /\ entry.does = "screenshot"
     \/ line \in {"system"} \X {"info"} /\ entry.does = "system_info"
     \/ line \in {"what's on my"} \X {"screen"} /\ entry.does = "look_at_screen"
     \/ line \in {"search"} \X {"cats"} /\ entry.does = "web_search"
     \/ line \in {"weather"} \X None /\ entry.does = "weather"
     \/ line \in {"news"} \X None /\ entry.does = "news"
     \/ line \in {"morning"} \X {"routine"} /\ entry.does = "run_routine"
     \/ line \in {"run routine"} \X {"coding"} /\ entry.does = "run_named"
     \/ line \in {"list"} \X {"routines"} /\ entry.does = "list_routines"
     \/ line \in {"docker"} \X {"list"} /\ entry.does = "docker_list"
     \/ line \in {"start", "stop"} \X Containers /\ entry.does = "docker_action"
     \/ line \in {"tools"} \X None /\ entry.does = "list_tools"
     \/ line \in {"help"} \X None /\ entry.does = "help"
     \/ line \in {"exit", "quit"} \X None /\ entry.does = "exit"
  BY HelpLines
<1>2.
     /\ line \in Handlers[1].fits => entry.does = "scan"
     /\ line \in Handlers[2].fits => entry.does = "scan_path" \/ line \in Handlers[1].fits
     /\ line \in Handlers[3].fits => entry.does = "what_changed"
     /\ line \in Handlers[4].fits => entry.does = "progress"
  BY ONLY <1>1 DEF Handlers, None, Opening, Searching, SeeMe, Presence,
         Counting, WhoIsIt, Enrolling, Screens, ByeBye, Closing, Some,
         Objects, Websites, SiteSearches, Numbers, Topics, Containers
<1>3.
     /\ line \in Handlers[5].fits => entry.does = "remember"
     /\ line \in Handlers[6].fits => entry.does = "forget"
     /\ line \in Handlers[7].fits => entry.does = "list_files"
     /\ line \in Handlers[8].fits => entry.does = "commits"
  BY ONLY <1>1 DEF Handlers, None, Opening, Searching, SeeMe, Presence,
         Counting, WhoIsIt, Enrolling, Screens, ByeBye, Closing, Some,
         Objects, Websites, SiteSearches, Numbers, Topics, Containers
<1>4.
     /\ line \in Handlers[9].fits => entry.does = "open_app"
     /\ line \in Handlers[10].fits => entry.does = "close_app"
     /\ line \in Handlers[11].fits => entry.does = "volume"
     /\ line \in Handlers[12].fits => entry.does = "brightness"
  BY ONLY <1>1 DEF Handlers, None, Opening, Searching, SeeMe, Presence,
         Counting, WhoIsIt, Enrolling, Screens, ByeBye, Closing, Some,
         Objects, Websites, SiteSearches, Numbers, Topics, Containers
<1>5.
     /\ line \in Handlers[13].fits => entry.does = "screenshot"
     /\ line \in Handlers[14].fits => entry.does = "system_info"
     /\ line \in Handlers[15].fits => entry.does = "look_at_screen"
     /\ line \in Handlers[16].fits => entry.does = "see_me"
  BY ONLY <1>1 DEF Handlers, None, Opening, Searching, SeeMe, Presence,
         Counting, WhoIsIt, Enrolling, Screens, ByeBye, Closing, Some,
         Objects, Websites, SiteSearches, Numbers, Topics, Containers
<1>6.
     /\ line \in Handlers[17].fits => entry.does = "presence"
     /\ line \in Handlers[18].fits => entry.does = "count"
     /\ line \in Handlers[19].fits => entry.does = "recognize"
     /\ line \in Handlers[20].fits => entry.does = "enroll"
  BY ONLY <1>1 DEF Handlers, None, Opening, Searching, SeeMe, Presence,
         Counting, WhoIsIt, Enrolling, Screens, ByeBye, Closing, Some,
         Objects, Websites, SiteSearches, Numbers, Topics, Containers
<1>7.
     /\ line \in Handlers[21].fits => entry.does = "camera_pause"
     /\ line \in Handlers[22].fits => entry.does = "camera_resume"
     /\ line \in Handlers[23].fits => entry.does = "camera_status"
     /\ line \in Handlers[24].fits => entry.does = "open_website"
  BY ONLY <1>1 DEF Handlers, None, Opening, Searching, SeeMe, Presence,
         Counting, WhoIsIt, Enrolling, Screens, ByeBye, Closing, Some,
         Objects, Websites, SiteSearches, Numbers, Topics, Containers
<1>8.
     /\ line \in Handlers[25].fits => entry.does = "search_platform"
     /\ line \in Handlers[26].fits => entry.does = "web_search"
     /\ line \in Handlers[27].fits => entry.does = "weather"
     /\ line \in Handlers[28].fits => entry.does = "news"
  BY ONLY <1>1 DEF Handlers, None, Opening, Searching, SeeMe, Presence,
         Counting, WhoIsIt, Enrolling, Screens, ByeBye, Closing, Some,
         Objects, Websites, SiteSearches, Numbers, Topics, Containers
<1>9.
     /\ line \in Handlers[29].fits => entry.does = "run_routine"
     /\ line \in Handlers[30].fits => entry.does = "run_named"
     /\ line \in Handlers[31].fits => entry.does = "list_routines"
     /\ line \in Handlers[32].fits => entry.does = "docker_list"
  BY ONLY <1>1 DEF Handlers, None, Opening, Searching, SeeMe, Presence,
         Counting, WhoIsIt, Enrolling, Screens, ByeBye, Closing, Some,
         Objects, Websites, SiteSearches, Numbers, Topics, Containers
<1>10.
     /\ line \in Handlers[33].fits => entry.does = "docker_action"
     /\ line \in Handlers[34].fits => entry.does = "memory_stats"
     /\ line \in Handlers[35].fits => entry.does = "list_tools"
     /\ line \in Handlers[36].fits => entry.does = "clear_history"
  BY ONLY <1>1 DEF Handlers, None, Opening, Searching, SeeMe, Presence,
         Counting, WhoIsIt, Enrolling, Screens, ByeBye, Closing, Some,
         Objects, Websites, SiteSearches, Numbers, Topics, Containers
<1>11.
     /\ line \in Handlers[37].fits => entry.does = "help"
     /\ line \in Handlers[38].fits => entry.does = "exit"
  BY ONLY <1>1 DEF Handlers, None, Opening, Searching, SeeMe, Presence,
         Counting, WhoIsIt, Enrolling, Screens, ByeBye, Closing, Some,
         Objects, Websites, SiteSearches, Numbers, Topics, Containers
<1> QED BY ONLY <1>2, <1>3, <1>4, <1>5, <1>6, <1>7, <1>8, <1>9, <1>10, <1>11

(* Every line of the help text fits a handler's entry and a command pattern. *)
LEMMA HelpFits ==
  ASSUME NEW entry \in Help, NEW line \in entry.says
  PROVE  /\ \E k \in 1 .. 38 : line \in Handlers[k].fits
         /\ \E c \in 1 .. 37 : line \in CommandPatterns[c].fits
<1>1.
     \/ line \in {"scan"} \X {"project"} /\ entry.does = "scan"
     \/ line \in {"scan"} \X {"codebase"} /\ entry.does = "scan_path"
     \/ line \in {"what changed"} \X None /\ entry.does = "what_changed"
     \/ line \in {"progress report"} \X None /\ entry.does = "progress"
     \/ line \in {"list"} \X {"files"} /\ entry.does = "list_files"
     \/ line \in {"commits"} \X None /\ entry.does = "commits"
     \/ line \in {"remember that"} \X Topics /\ entry.does = "remember"
     \/ line \in {"forget about"} \X Topics /\ entry.does = "forget"
     \/ line \in {"memory"} \X {"stats"} /\ entry.does = "memory_stats"
     \/ line \in {"clear"} \X {"history"} /\ entry.does = "clear_history"
     \/ line \in {"open"} \X {"chrome"} /\ entry.does = "open_app"
     \/ line \in {"close"} \X {"chrome"} /\ entry.does = "close_app"
     \/ line \in {"volume"} \X Numbers /\ entry.does = "volume"
     \/ line \in {"brightness"} \X Numbers /\ entry.does = "brightness"
     \/ line \in {"screenshot"} \X None /\ entry.does = "screenshot"
     \/ line \in {"system"} \X {"info"} /\ entry.does = "system_info"
     \/ line \in {"what's on my"} \X {"screen"} /\ entry.does = "look_at_screen"
     \/ line \in {"search"} \X {"cats"} /\ entry.does = "web_search"
     \/ line \in {"weather"} \X None /\ entry.does = "weather"
     \/ line \in {"news"} \X None /\ entry.does = "news"
     \/ line \in {"morning"} \X {"routine"} /\ entry.does = "run_routine"
     \/ line \in {"run routine"} \X {"coding"} /\ entry.does = "run_named"
     \/ line \in {"list"} \X {"routines"} /\ entry.does = "list_routines"
     \/ line \in {"docker"} \X {"list"} /\ entry.does = "docker_list"
     \/ line \in {"start", "stop"} \X Containers /\ entry.does = "docker_action"
     \/ line \in {"tools"} \X None /\ entry.does = "list_tools"
     \/ line \in {"help"} \X None /\ entry.does = "help"
     \/ line \in {"exit", "quit"} \X None /\ entry.does = "exit"
  BY HelpLines
<1>2.
     \/ line \in Handlers[1].fits \/ line \in Handlers[2].fits
     \/ line \in Handlers[3].fits \/ line \in Handlers[4].fits
     \/ line \in Handlers[7].fits \/ line \in Handlers[8].fits
     \/ line \in Handlers[5].fits \/ line \in Handlers[6].fits
     \/ line \in Handlers[34].fits \/ line \in Handlers[36].fits
     \/ line \in Handlers[9].fits \/ line \in Handlers[10].fits
     \/ line \in Handlers[11].fits \/ line \in Handlers[12].fits
     \/ line \in Handlers[13].fits \/ line \in Handlers[14].fits
     \/ line \in Handlers[15].fits \/ line \in Handlers[26].fits
     \/ line \in Handlers[27].fits \/ line \in Handlers[28].fits
     \/ line \in Handlers[29].fits \/ line \in Handlers[30].fits
     \/ line \in Handlers[31].fits \/ line \in Handlers[32].fits
     \/ line \in Handlers[33].fits \/ line \in Handlers[35].fits
     \/ line \in Handlers[37].fits \/ line \in Handlers[38].fits
  BY ONLY <1>1 DEF Handlers, None, Opening, Searching, SeeMe, Presence,
         Counting, WhoIsIt, Enrolling, Screens, ByeBye, Closing, Some,
         Objects, Websites, SiteSearches, Numbers, Topics, Containers
<1>3.
     /\ line \in {"scan"} \X {"project"} => line \in CommandPatterns[26].fits
     /\ line \in {"scan"} \X {"codebase"} => line \in CommandPatterns[26].fits
     /\ line \in {"what changed"} \X None => line \in CommandPatterns[27].fits
     /\ line \in {"progress report"} \X None => line \in CommandPatterns[28].fits
     /\ line \in {"list"} \X {"files"} => line \in CommandPatterns[30].fits
     /\ line \in {"commits"} \X None => line \in CommandPatterns[29].fits
     /\ line \in {"remember that"} \X Topics => line \in CommandPatterns[22].fits
     /\ line \in {"forget about"} \X Topics => line \in CommandPatterns[23].fits
     /\ line \in {"memory"} \X {"stats"} => line \in CommandPatterns[24].fits
     /\ line \in {"clear"} \X {"history"} => line \in CommandPatterns[25].fits
     /\ line \in {"open"} \X {"chrome"} => line \in CommandPatterns[3].fits
     /\ line \in {"close"} \X {"chrome"} => line \in CommandPatterns[4].fits
     /\ line \in {"volume"} \X Numbers => line \in CommandPatterns[5].fits
     /\ line \in {"brightness"} \X Numbers => line \in CommandPatterns[5].fits
     /\ line \in {"screenshot"} \X None => line \in CommandPatterns[6].fits
     /\ line \in {"system"} \X {"info"} => line \in CommandPatterns[7].fits
     /\ line \in {"what's on my"} \X {"screen"} => line \in CommandPatterns[8].fits
     /\ line \in {"search"} \X {"cats"} => line \in CommandPatterns[19].fits
     /\ line \in {"weather"} \X None => line \in CommandPatterns[20].fits
     /\ line \in {"news"} \X None => line \in CommandPatterns[21].fits
     /\ line \in {"morning"} \X {"routine"} => line \in CommandPatterns[31].fits
     /\ line \in {"run routine"} \X {"coding"} => line \in CommandPatterns[32].fits
     /\ line \in {"list"} \X {"routines"} => line \in CommandPatterns[32].fits
     /\ line \in {"docker"} \X {"list"} => line \in CommandPatterns[17].fits
     /\ line \in {"start", "stop"} \X Containers => line \in CommandPatterns[18].fits
     /\ line \in {"tools"} \X None => line \in CommandPatterns[33].fits
     /\ line \in {"help"} \X None => line \in CommandPatterns[34].fits
     /\ line \in {"exit", "quit"} \X None => line \in CommandPatterns[35].fits
  BY DEF CommandPatterns, None, Opening, Searching, SeeMe, Presence, Counting,
         WhoIsIt, Enrolling, Screens, ByeBye, Closing, Some, Objects,
         Websites, SiteSearches, Numbers, Topics, Containers
<1>4.
     \/ line \in CommandPatterns[3].fits \/ line \in CommandPatterns[4].fits
     \/ line \in CommandPatterns[5].fits \/ line \in CommandPatterns[6].fits
     \/ line \in CommandPatterns[7].fits \/ line \in CommandPatterns[8].fits
     \/ line \in CommandPatterns[17].fits \/ line \in CommandPatterns[18].fits
     \/ line \in CommandPatterns[19].fits \/ line \in CommandPatterns[20].fits
     \/ line \in CommandPatterns[21].fits \/ line \in CommandPatterns[22].fits
     \/ line \in CommandPatterns[23].fits \/ line \in CommandPatterns[24].fits
     \/ line \in CommandPatterns[25].fits \/ line \in CommandPatterns[26].fits
     \/ line \in CommandPatterns[27].fits \/ line \in CommandPatterns[28].fits
     \/ line \in CommandPatterns[29].fits \/ line \in CommandPatterns[30].fits
     \/ line \in CommandPatterns[31].fits \/ line \in CommandPatterns[32].fits
     \/ line \in CommandPatterns[33].fits \/ line \in CommandPatterns[34].fits
     \/ line \in CommandPatterns[35].fits
  BY ONLY <1>1, <1>3
<1>5. \E k \in 1 .. 38 : line \in Handlers[k].fits
  BY ONLY <1>2
<1>6. \E c \in 1 .. 37 : line \in CommandPatterns[c].fits
  BY ONLY <1>4
<1> QED BY <1>5, <1>6

(* A line of the help text is a command and runs the handler the text names. *)
LEMMA HelpRuns ==
  ASSUME NEW entry \in Help, NEW line \in entry.says
  PROVE  IsCommand(line) /\ HandlerOf(line) = entry.does
<1> DEFINE h == HandlerOf(line)
<1>1. /\ \E k \in 1 .. 38 : line \in Handlers[k].fits
      /\ \E c \in 1 .. 37 : line \in CommandPatterns[c].fits
  BY HelpFits
<1>2. PICK i \in 1 .. 38 :
        /\ h = Handlers[i].to /\ line \in Handlers[i].fits
        /\ \A j \in 1 .. 38 : j < i => line \notin Handlers[j].fits
  BY <1>1, FirstMatches, TableSizes DEF HandlerOf
<1>3. i = 2 => line \notin Handlers[1].fits
  BY <1>2
<1>4. h = entry.does
  <2> HIDE DEF h
  <2>1. entry \in Help /\ line \in entry.says
    OBVIOUS
  <2> QED BY ONLY <2>1, FitsAsHelpSays, HandlerNumbers, HandlerNames, <1>2, <1>3
<1>5. h # "none"
  BY <1>2, HandlerPlaces
<1> QED BY <1>1, <1>4, <1>5, CommandKind DEF IsCommand

-----------------------------------------------------------------------------
(* The invariant: the camera is on or off, facts have a text, the            *)
(* conversations are finitely many, only what the memory was searched for is *)
(* in the query cache, and the last line was dealt with as the two tables    *)
(* say.                                                                      *)
Kept ==
  /\ camera \in BOOLEAN
  /\ facts \subseteq Some
  /\ IsFiniteSet(stored)
  /\ DOMAIN cache \subseteq questions
  /\ \/ last.said = <<"", "">>
     \/ last.ran = IF IsCommand(last.said) THEN HandlerOf(last.said) ELSE "none"

AssistantInv == Kept /\ StateFollowsRequests

(* A command leaves the memory as it is, save that the history may be        *)
(* cleared and that a look at the screen searches; its outcome says which    *)
(* handler ran.                                                              *)
LEMMA CommandLeaves ==
  ASSUME NEW line, Command(line)
  PROVE  /\ UNCHANGED <<stored, exchanges>> /\ history' \in {history, <<>>}
         /\ last'.said = line /\ last'.ran = HandlerOf(line)
         /\ \/ UNCHANGED <<cache, questions>> /\ last'.recalled = {}
            \/ /\ last'.ran = "look_at_screen"
               /\ \E found \in {{}} \cup Recall(ScreenText) :
                    Search(ScreenText, found) /\ last'.recalled = found
<1>1. CASE LookAtScreen(line)
  <2>1. PICK found \in {{}} \cup Recall(ScreenText) :
          Search(ScreenText, found) /\ Handled(line, found)
    BY <1>1 DEF LookAtScreen
  <2>2. last'.said = line /\ last'.ran = HandlerOf(line) /\ last'.recalled = found
    BY <2>1 DEF Handled, Outcome
  <2> QED BY <1>1, <2>1, <2>2 DEF LookAtScreen
<1>2. CASE ~LookAtScreen(line)
  <2>1. UNCHANGED <<stored, cache, exchanges, questions>> /\ history' \in {history, <<>>}
    BY <1>2 DEF Command, Exit, Remember, Forget, CameraPause, CameraResume, ClearHistory,
           ActOutside, memory
  <2>2. Handled(line, {})
    BY <1>2 DEF Command
  <2> QED BY <2>1, <2>2 DEF Handled, Outcome
<1> QED BY <1>1, <1>2

(* What the memory may give for a line that is no command.                   *)
Remembers(line) == IF Classify(line).memory THEN Recall(line) ELSE {{}}

(* An answer to such a line searches the memory if the router says so, and   *)
(* runs no handler, whichever answer it is.                                  *)
LEMMA AskLeaves ==
  ASSUME NEW line, Ask(line)
  PROVE  \E found \in Remembers(line) :
           /\ Search(line, found)
           /\ last'.said = line /\ last'.recalled = found /\ last'.ran = "none"
           /\ last'.by \notin {"command", "failed"}
           /\ stored' = stored \/ \E e : stored' = stored \cup {e}
<1>1. PICK found \in Remembers(line) :
        /\ Search(line, found)
        /\ \/ AskRaises(line, found) \/ AskFallsBack(line, found)
           \/ AskTimesOut(line, found) \/ AskAnswered(line, found)
  BY DEF Ask, Remembers
<1>2. /\ last'.said = line /\ last'.recalled = found /\ last'.ran = "none"
      /\ last'.by \notin {"command", "failed"}
  BY <1>1 DEF AskRaises, AskFallsBack, AskTimesOut, AskAnswered, Outcome
<1>3. stored' = stored \/ \E e : stored' = stored \cup {e}
  BY <1>1 DEF AskRaises, AskFallsBack, AskTimesOut, AskAnswered
<1> QED BY <1>1, <1>2, <1>3

(* A line that no handler of the state took asks for no change of it.        *)
LEMMA NothingAsked ==
  ASSUME AssistantInv, NEW line \in Lines,
         ~IsCommand(line)
           \/ HandlerOf(line) \notin {"remember", "forget", "camera_pause",
                                      "camera_resume"},
         wanted' = Asked(line), UNCHANGED <<facts, camera>>
  PROVE  facts' \subseteq wanted'.facts /\ camera' = wanted'.camera
<1>1. line \notin CameraOff /\ line \notin CameraOn
  BY OffIsOff, OnIsOn
<1>2. camera' = wanted'.camera
  BY <1>1 DEF AssistantInv, Kept, StateFollowsRequests, Asked
<1>3. line[1] \in {"forget", "forget about"} => line[2] \notin Some
  <2>1. line = <<line[1], line[2]>>
    BY AssistantAssumption
  <2> QED BY <2>1, ForgetIsForgotten
<1>4. facts' \subseteq wanted'.facts
  <2>1. CASE line[1] = "remember that"
    BY <2>1 DEF AssistantInv, StateFollowsRequests, Asked
  <2>2. CASE line[1] \in {"forget", "forget about"}
    <3>1. wanted'.facts = wanted.facts \ {line[2]}
      BY <2>2 DEF Asked
    <3> QED BY <2>2, <3>1, <1>3 DEF AssistantInv, Kept, StateFollowsRequests
  <2>3. CASE line[1] \notin {"remember that", "forget", "forget about"}
    BY <2>3 DEF AssistantInv, StateFollowsRequests, Asked
  <2> QED BY <2>1, <2>2, <2>3
<1> QED BY <1>2, <1>4

(* A command that changes the facts or the camera was asked to.              *)
LEMMA CommandFollows ==
  ASSUME AssistantInv, NEW line \in Lines, Command(line), wanted' = Asked(line)
  PROVE  camera' \in BOOLEAN /\ facts' \subseteq Some /\ StateFollowsRequests'
<1> USE DEF AssistantInv, Kept, StateFollowsRequests
<1>1. CASE Exit(line) \/ ClearHistory(line) \/ ActOutside(line) \/ LookAtScreen(line)
  <2>1. /\ HandlerOf(line) \notin {"remember", "forget", "camera_pause", "camera_resume"}
        /\ UNCHANGED <<facts, camera>>
    BY <1>1 DEF Exit, ClearHistory, ActOutside, LookAtScreen
  <2> QED BY <2>1, NothingAsked
<1>2. CASE Remember(line)
  <2>1. line \in {"remember that"} \X Some
    BY <1>2, FactsWereAsked DEF Remember
  <2>2. line \notin CameraOff /\ line \notin CameraOn
    BY <2>1 DEF CameraOff, CameraOn
  <2>3. wanted'.facts = wanted.facts \cup {line[2]} /\ wanted'.camera = wanted.camera
    BY <2>1, <2>2 DEF Asked
  <2> QED BY <1>2, <2>1, <2>3 DEF Remember
<1>3. CASE Forget(line)
  <2>1. line \in {"forget", "forget about"} \X Some
    BY <1>3, FactsWereAsked DEF Forget
  <2>2. line \notin CameraOff /\ line \notin CameraOn
    BY <2>1 DEF CameraOff, CameraOn
  <2>3. wanted'.facts = wanted.facts \ {line[2]} /\ wanted'.camera = wanted.camera
    BY <2>1, <2>2 DEF Asked
  <2> QED BY <1>3, <2>1, <2>3 DEF Forget
<1>4. CASE CameraPause(line)
  <2>1. line \in CameraOff
    BY <1>4, OffWasAsked DEF Command, CameraPause
  <2>2. line \notin CameraOn /\ line[1] \notin {"remember that", "forget", "forget about"}
    BY <2>1 DEF CameraOff, CameraOn
  <2>3. wanted'.facts = wanted.facts /\ wanted'.camera = FALSE
    BY <2>1, <2>2 DEF Asked
  <2> QED BY <1>4, <2>3 DEF CameraPause
<1>5. CASE CameraResume(line)
  <2>1. line \in CameraOn
    BY <1>5, OnWasAsked DEF Command, CameraResume
  <2>2. line[1] \notin {"remember that", "forget", "forget about"}
    BY <2>1 DEF CameraOn
  <2>3. wanted'.facts = wanted.facts /\ wanted'.camera = TRUE
    BY <2>1, <2>2 DEF Asked
  <2> QED BY <1>5, <2>3 DEF CameraResume
<1> QED BY <1>1, <1>2, <1>3, <1>4, <1>5 DEF Command

(* Initially there is nothing to forget.                                     *)
LEMMA AssistantInitInv == AssistantInit => AssistantInv
<1> SUFFICES ASSUME AssistantInit PROVE AssistantInv
  OBVIOUS
<1>1. IsFiniteSet(stored)
  BY FS_EmptySet DEF AssistantInit
<1>2. DOMAIN cache \subseteq questions
  <2>1. DOMAIN <<>> = {}
    OBVIOUS
  <2> QED BY <2>1 DEF AssistantInit
<1>3. last.said = <<"", "">>
  BY DEF AssistantInit, Outcome
<1> QED BY <1>1, <1>2, <1>3 DEF AssistantInit, AssistantInv, Kept, StateFollowsRequests

(* Every line keeps the invariant, whatever deals with it.                   *)
LEMMA RespondKeeps ==
  ASSUME AssistantInv, NEW line \in Lines, Respond(line)
  PROVE  AssistantInv'
<1>1. wanted' = Asked(line)
  BY DEF Respond
<1>2. CASE Command(line)
  <2>1. camera' \in BOOLEAN /\ facts' \subseteq Some /\ StateFollowsRequests'
    BY <1>1, <1>2, CommandFollows
  <2>2. UNCHANGED stored
    BY <1>2, CommandLeaves
  <2>4. DOMAIN cache' \subseteq questions'
    BY <1>2, CommandLeaves DEF Search, Key, AssistantInv, Kept
  <2>3. last'.said = line /\ last'.ran = HandlerOf(line) /\ IsCommand(line)
    BY <1>2, CommandLeaves DEF Command
  <2> QED BY <2>1, <2>2, <2>3, <2>4 DEF AssistantInv, Kept
<1>3. CASE Ask(line)
  <2>1. UNCHANGED <<camera, facts>> /\ ~IsCommand(line)
    BY <1>3 DEF Ask
  <2>2. StateFollowsRequests'
    BY <1>1, <2>1, NothingAsked DEF StateFollowsRequests
  <2>3. PICK found \in Remembers(line) :
          /\ Search(line, found)
          /\ last'.said = line /\ last'.ran = "none"
          /\ stored' = stored \/ \E e : stored' = stored \cup {e}
    BY <1>3, AskLeaves
  <2>4. DOMAIN cache' \subseteq questions'
    BY <2>3 DEF Search, Key, AssistantInv, Kept
  <2>5. IsFiniteSet(stored')
    BY <2>3, FS_AddElement DEF AssistantInv, Kept
  <2>6. last'.ran = IF IsCommand(last'.said) THEN HandlerOf(last'.said) ELSE "none"
    BY <2>1, <2>3
  <2> QED BY <2>1, <2>2, <2>4, <2>5, <2>6 DEF AssistantInv, Kept
<1> QED BY <1>2, <1>3 DEF Respond

(* And so does every step.                                                   *)
LEMMA AssistantKeeps == AssistantInv /\ [AssistantNext]_assistantVars => AssistantInv'
<1> SUFFICES ASSUME AssistantInv, [AssistantNext]_assistantVars PROVE AssistantInv'
  OBVIOUS
<1>1. CASE Interrupt
  BY <1>1 DEF Interrupt, memory, AssistantInv, Kept, StateFollowsRequests
<1>2. CASE UNCHANGED assistantVars
  BY <1>2 DEF assistantVars, AssistantInv, Kept, StateFollowsRequests
<1>3. CASE \E line \in Lines : Respond(line)
  BY <1>3, RespondKeeps
<1> QED BY <1>1, <1>2, <1>3 DEF AssistantNext

(* For any lines, results and lengths of the history: Son keeps no fact Dad  *)
(* did not ask to remember or asked to forget since, and the camera's flag   *)
(* is what he last asked for, through both tables of patterns.               *)
THEOREM RequestsAreFollowed == AssistantSpec => []StateFollowsRequests
<1>1. AssistantInv => StateFollowsRequests
  BY DEF AssistantInv
<1> QED BY <1>1, AssistantInitInv, AssistantKeeps, PTL DEF AssistantSpec

(* Every line of the help text does what the text says: it is a command for  *)
(* the router too, and no earlier entry of the handlers takes it.            *)
THEOREM HelpHolds == AssistantSpec => []HelpIsTrue
<1>1. ASSUME AssistantInv PROVE HelpIsTrue
  <2>1. SUFFICES ASSUME NEW entry \in Help, last.said \in entry.says
                 PROVE  last.ran = entry.does
    BY DEF HelpIsTrue
  <2>2. IsCommand(last.said) /\ HandlerOf(last.said) = entry.does
    BY <2>1, HelpRuns
  <2>3. last.said # <<"", "">>
    <3> SUFFICES ASSUME last.said = <<"", "">> PROVE FALSE
      OBVIOUS
    <3>1. <<"", "">> \in entry.says
      BY <2>1
    <3> QED BY <3>1, HelpLines
  <2> QED BY <1>1, <2>2, <2>3 DEF AssistantInv, Kept
<1> QED BY <1>1, AssistantInitInv, AssistantKeeps, PTL DEF AssistantSpec

(* A line the router calls a command searches nothing, unless it is a look   *)
(* at the screen, which searches for the handler's text and nothing else;    *)
(* one that a handler takes leaves no exchange behind.                       *)
THEOREM CommandsLeaveTheMemory == AssistantSpec => CommandsBypassMemory
<1> DEFINE Searches == DOMAIN cache' \ DOMAIN cache
           Bypasses ==
      Classify(last'.said).kind = "COMMAND" =>
        /\ last'.ran # "look_at_screen" =>
             UNCHANGED cache /\ last'.recalled \subseteq last.recalled
        /\ \A text \in Searches : text = ScreenText
        /\ last'.by \in {"command", "failed"} =>
             UNCHANGED <<stored, exchanges>> /\ history' \in {history, <<>>}
<1>1. ASSUME AssistantNext PROVE Bypasses
  <2>1. CASE Interrupt
    BY <2>1 DEF Interrupt, memory
  <2>2. ASSUME NEW line \in Lines, Command(line) PROVE Bypasses
    <3>1. CASE UNCHANGED <<cache, questions>> /\ last'.recalled = {}
      BY <2>2, <3>1, CommandLeaves
    <3>2. CASE ~(UNCHANGED <<cache, questions>> /\ last'.recalled = {})
      <4>1. last'.ran = "look_at_screen" /\ \E found : Search(ScreenText, found)
        BY <2>2, <3>2, CommandLeaves
      <4>2. \A text \in Searches : text = ScreenText
        BY <4>1 DEF Search, Key
      <4> QED BY <2>2, <4>1, <4>2, CommandLeaves
    <3> QED BY <3>1, <3>2
  <2>3. ASSUME NEW line \in Lines, Ask(line), Classify(line).kind = "COMMAND"
        PROVE  UNCHANGED cache /\ last'.recalled = {}
    <3>1. Remembers(line) = {{}}
      BY <2>3, CommandKind DEF Remembers
    <3>2. PICK found \in Remembers(line) : Search(line, found) /\ last'.recalled = found
      BY <2>3, AskLeaves
    <3> QED BY <3>1, <3>2 DEF Search
  <2>4. ASSUME NEW line \in Lines, Ask(line) PROVE Bypasses
    <3>1. last'.said = line /\ last'.by \notin {"command", "failed"}
      BY <2>4, AskLeaves
    <3> QED BY <2>3, <2>4, <3>1
  <2> QED BY <1>1, <2>1, <2>2, <2>4 DEF AssistantNext, Respond
<1>2. [AssistantNext]_assistantVars => [Bypasses]_assistantVars
  BY <1>1
<1> QED BY <1>2, PTL DEF AssistantSpec, CommandsBypassMemory

(* What a search finds: all that is stored, or nothing, unless it searches   *)
(* for a text it has searched for before.                                    *)
LEMMA FoundIsStored ==
  ASSUME AssistantInv, Cardinality(stored) <= MaxResults, NEW text,
         text \notin questions, NEW found \in Recall(text)
  PROVE  found \in {{}, stored}
<1>1. text \notin DOMAIN cache
  BY DEF AssistantInv, Kept
<1>2. SUFFICES ASSUME found # {} PROVE found = stored
  OBVIOUS
<1>3. found \in kSubset(Min({MaxResults, Cardinality(stored)}), stored)
  BY <1>1, <1>2 DEF Recall, Nearest, Key
<1>4. IsFiniteSet(stored) /\ Cardinality(stored) \in Nat /\ MaxResults \in Nat
  BY FS_CardinalityType, AssistantAssumption DEF AssistantInv, Kept
<1>5. Min({MaxResults, Cardinality(stored)}) = Cardinality(stored)
  BY <1>4 DEF Min
<1>6. found \subseteq stored /\ Cardinality(found) = Cardinality(stored)
  BY <1>3, <1>5 DEF kSubset
<1> QED BY <1>4, <1>6, FS_Subset

(* While all stored exchanges fit into one result, only a repeated question, *)
(* or a second look at the screen, is answered with less than all of them.   *)
THEOREM RepeatsAlone == AssistantSpec => OnlyRepeatsAreStale
<1> DEFINE Fresh == last'.recalled \notin {{}, stored} /\ last' # last
                    /\ Cardinality(stored) <= MaxResults => Searched(last') \in questions
<1>1. ASSUME AssistantInv, AssistantNext PROVE Fresh
  <2>1. CASE Interrupt
    BY <2>1 DEF Interrupt
  <2>2. ASSUME NEW line \in Lines, Command(line) PROVE Fresh
    <3>1. CASE last'.recalled = {}
      BY <3>1
    <3>2. CASE last'.recalled # {}
      <4>1. last'.ran = "look_at_screen" /\ last'.recalled \in Recall(ScreenText)
        BY <2>2, <3>2, CommandLeaves
      <4>2. Searched(last') = ScreenText
        BY <4>1 DEF Searched
      <4> QED BY <1>1, <4>1, <4>2, FoundIsStored
    <3> QED BY <3>1, <3>2
  <2>3. ASSUME NEW line \in Lines, Ask(line) PROVE Fresh
    <3>1. PICK found \in Remembers(line) :
            last'.said = line /\ last'.recalled = found /\ last'.ran = "none"
      BY <2>3, AskLeaves
    <3>2. Searched(last') = line
      BY <3>1 DEF Searched
    <3>3. found = {} \/ found \in Recall(line)
      BY <3>1 DEF Remembers
    <3> QED BY <1>1, <3>1, <3>2, <3>3, FoundIsStored
  <2> QED BY <1>1, <2>1, <2>2, <2>3 DEF AssistantNext, Respond
<1>2. AssistantInv /\ [AssistantNext]_assistantVars => [Fresh]_assistantVars
  BY <1>1
<1> QED BY <1>2, AssistantInitInv, AssistantKeeps, PTL
    DEF AssistantSpec, OnlyRepeatsAreStale

-----------------------------------------------------------------------------
(* A turn of tool calls.                                                     *)

USE ToolTurnAssumption

Shown == {"prompt", "answer", "run", "hung"} \cup Finished

Types ==
  /\ turn \in 0 .. MaxTurns /\ used \in 0 .. MaxJobs
  /\ pc \in {"idle", "chat", "single", "collect"}
  /\ ended \in [Turns -> {"no", "reply", "fallback", "raised"}]
  /\ job \in [Jobs -> {"unused", "queued"} \cup Active \cup Finished]
  /\ kind \in [Jobs -> Kinds] /\ owner \in [Jobs -> 0 .. MaxTurns]
  /\ batch \in [DOMAIN batch -> Jobs]
  /\ results \in [DOMAIN batch -> Jobs \cup {0}]
  /\ panel \in Jobs \cup {0}
  /\ took \in [Jobs -> {"nothing", "ahead", "answer", "chat"}]

(* Calls are numbered as they are made, and belong to turns that have begun; *)
(* the turns of the past have ended, and no other has.                       *)
Numbered ==
  /\ \A j \in Jobs : /\ job[j] # "unused" <=> j <= used
                     /\ j <= used => owner[j] \in 1 .. turn
  /\ \A t \in Turns : ended[t] = "no" <=> t > turn \/ (t = turn /\ pc # "idle")
  /\ pc # "idle" => turn > 0

(* The present turn's calls are finished, but for those of its last batch;   *)
(* of that one, those whose result is in its slot are.                       *)
Waiting ==
  /\ \A j \in Jobs :
       pc # "idle" /\ j <= used /\ owner[j] = turn /\ job[j] \notin Finished
         => pc # "chat" /\ \E i \in DOMAIN batch : batch[i] = j
  /\ pc = "collect" =>
       \A i \in DOMAIN batch :
         results[i] # 0 => results[i] = batch[i] /\ job[batch[i]] \in Finished
  /\ pc = "single" => DOMAIN batch = {1}

(* A question is on the panel before it is answered.                         *)
OnPanel ==
  /\ panel # 0 => job[panel] \in Shown
  /\ \A j \in Jobs : job[j] \in {"prompt", "answer"} => panel # 0

IInv == Types /\ Numbered /\ Waiting /\ OnPanel
        /\ OwnResults /\ QuietAfterAnswer /\ UnwantedOnlyByMixUp

-----------------------------------------------------------------------------
(* No turn has begun.                                                        *)
LEMMA InitIInv == Init => IInv
<1> SUFFICES ASSUME Init PROVE IInv
  OBVIOUS
<1>1. MaxTurns \in Nat /\ MaxJobs \in Nat
  OBVIOUS
<1>2. <<>> \in [DOMAIN <<>> -> Jobs] /\ <<>> \in [DOMAIN <<>> -> Jobs \cup {0}]
  OBVIOUS
<1>3. Types
  BY <1>1, <1>2 DEF Init, Types, Kinds, Jobs, Turns
<1>4. Numbered /\ Waiting /\ OnPanel
  BY <1>1 DEF Init, Numbered, Waiting, OnPanel, Jobs, Turns
<1>5. OwnResults /\ QuietAfterAnswer /\ UnwantedOnlyByMixUp
  BY DEF Init, OwnResults, QuietAfterAnswer, UnwantedOnlyByMixUp
<1> QED BY <1>3, <1>4, <1>5 DEF IInv

(* A step of a tool call moves that call on, and ends no turn.               *)
LEMMA ToolStepMoves ==
  ASSUME Types, NEW j \in Jobs, ToolStep(j)
  PROVE  /\ UNCHANGED <<turn, pc, ended, kind, owner, used, batch, results>>
         /\ job' \in [Jobs -> {"unused", "queued"} \cup Active \cup Finished]
         /\ job[j] \notin {"unused"} \cup Finished /\ job'[j] # "unused"
         /\ \A i \in Jobs : i # j => job'[i] = job[i]
         /\ panel' \in Jobs \cup {0}
         /\ took' \in [Jobs -> {"nothing", "ahead", "answer", "chat"}]
         /\ \A i \in Jobs : i # j \/ job[j] # "answer" => took'[i] = took[i]
         /\ job[j] \in Shown => job'[j] \in Shown
<1> USE DEF turnVars, callVars, lineVars, Active, Finished, Shown
<1>1. CASE StartQueued(j)
  BY <1>1 DEF StartQueued, Types
<1>2. CASE Start(j)
  <2>1. PICK x \in {"refused", "run", "panel"} : job' = [job EXCEPT ![j] = x]
    BY <1>2 DEF Start
  <2> QED BY <1>2, <2>1 DEF Start, Types
<1>3. CASE ShowPanel(j)
  BY <1>3 DEF ShowPanel, Types
<1>4. CASE Prompt(j)
  BY <1>4 DEF Prompt, Types
<1>5. CASE Answer(j)
  <2>1. PICK for \in {"ahead", "answer", "chat"}, yes \in BOOLEAN :
          /\ Line(j, for, yes)
          /\ job' = [job EXCEPT ![j] = IF yes THEN "run" ELSE "refused"]
    BY <1>5 DEF Answer
  <2>2. took' = [took EXCEPT ![j] = for]
    BY <2>1 DEF Line
  <2> QED BY <1>5, <2>1, <2>2 DEF Answer, Line, Types
<1>6. CASE Run(j)
  BY <1>6 DEF Run, Types
<1> QED BY <1>1, <1>2, <1>3, <1>4, <1>5, <1>6 DEF ToolStep

(* The three ways in which a call comes to run against Dad's will.           *)
MixedUp(j) == took[j] = "answer"
              /\ \E i \in Jobs \ {j} : kind[i] = "wanted" /\ job[i] \in Shown
LeftOver(j) == took[j] = "chat" /\ ended[owner[j]] = "raised"
TooEarly(j) == took[j] = "ahead"

(* What Dad denies comes to run in one of them.                              *)
LEMMA RunsWhatIsWanted ==
  ASSUME IInv, NEW j \in Jobs, ToolStep(j), kind[j] = "unwanted",
         job'[j] \in {"run", "done", "hung"}, job[j] \notin {"run", "done", "hung"}
  PROVE  \/ /\ took'[j] = "answer"
            /\ \E i \in Jobs \ {j} : kind[i] = "wanted" /\ job[i] \in Shown
         \/ took'[j] = "chat" /\ ended[owner[j]] = "raised"
         \/ took'[j] = "ahead"
<1>1. Types /\ Numbered /\ OnPanel /\ QuietAfterAnswer
  BY DEF IInv
<1>2. Answer(j)
  BY <1>1 DEF ToolStep, StartQueued, Start, ShowPanel, Prompt, Run, Types
<1>3. PICK for \in {"ahead", "answer", "chat"}, yes \in BOOLEAN :
        /\ Line(j, for, yes)
        /\ job' = [job EXCEPT ![j] = IF yes THEN "run" ELSE "refused"]
  BY <1>2 DEF Answer
<1>4. job[j] = "answer" /\ yes /\ took'[j] = for
  BY <1>1, <1>2, <1>3 DEF Answer, Line, Types
<1>5. CASE for = "answer"
  <2>1. kind[panel] = "wanted"
    BY <1>3, <1>4, <1>5 DEF Line
  <2>2. panel \in Jobs /\ job[panel] \in Shown
    BY <1>1, <1>4 DEF OnPanel, Types
  <2> QED BY <1>4, <1>5, <2>1, <2>2
<1>6. CASE for = "chat"
  <2>1. pc = "idle"
    BY <1>3, <1>6 DEF Line
  <2>2. j <= used /\ owner[j] \in 1 .. turn /\ turn \in 0 .. MaxTurns
    BY <1>1, <1>4 DEF Numbered, Types
  <2>3. owner[j] \in Turns /\ ~(owner[j] > turn)
    BY <2>2 DEF Turns
  <2>4. ended[owner[j]] # "no"
    BY <1>1, <2>1, <2>3 DEF Numbered
  <2>5. ended[owner[j]] \notin {"reply", "fallback"}
    BY <1>1, <1>4 DEF QuietAfterAnswer, Finished
  <2>6. ended[owner[j]] = "raised"
    BY <1>1, <2>3, <2>4, <2>5 DEF Types
  <2> QED BY <1>4, <1>6, <2>6
<1>7. CASE for = "ahead"
  BY <1>4, <1>7
<1> QED BY <1>5, <1>6, <1>7

(* A step of a tool call keeps the invariant.                                *)
LEMMA ToolStepKeeps ==
  ASSUME IInv, NEW j \in Jobs, ToolStep(j) PROVE IInv'
<1>1. /\ Types /\ Numbered /\ Waiting /\ OnPanel
      /\ OwnResults /\ QuietAfterAnswer /\ UnwantedOnlyByMixUp
  BY DEF IInv
<1>2. /\ UNCHANGED <<turn, pc, ended, kind, owner, used, batch, results>>
      /\ job' \in [Jobs -> {"unused", "queued"} \cup Active \cup Finished]
      /\ job[j] \notin {"unused"} \cup Finished /\ job'[j] # "unused"
      /\ \A i \in Jobs : i # j => job'[i] = job[i]
      /\ panel' \in Jobs \cup {0}
      /\ took' \in [Jobs -> {"nothing", "ahead", "answer", "chat"}]
      /\ \A i \in Jobs : i # j \/ job[j] # "answer" => took'[i] = took[i]
      /\ job[j] \in Shown => job'[j] \in Shown
  BY <1>1, ToolStepMoves
<1>3. Types'
  BY <1>1, <1>2 DEF Types
<1>4. Numbered' /\ OwnResults'
  BY <1>1, <1>2 DEF Numbered, OwnResults
<1>5. \A i \in Jobs : job[i] \in Finished => job'[i] \in Finished
  BY <1>2
<1>6. \A i \in Jobs : job[i] \in Shown => job'[i] \in Shown
  BY <1>2
<1>7. Waiting'
  BY <1>1, <1>2, <1>5 DEF Waiting, Types
<1>8. QuietAfterAnswer'
  BY <1>1, <1>2 DEF QuietAfterAnswer
<1>9. OnPanel'
  <2>1. CASE ShowPanel(j)
    <3>1. panel' = j /\ job'[j] = "prompt" /\ j # 0
      BY <1>1, <2>1 DEF ShowPanel, Types, Jobs
    <3> QED BY <3>1 DEF OnPanel, Shown
  <2>2. CASE ~ShowPanel(j)
    <3>1. panel' = panel
      BY <2>2 DEF ToolStep, StartQueued, Start, Prompt, Answer, Line, Run
    <3>2. job'[j] \in {"prompt", "answer"} => job[j] \in {"prompt", "answer"}
      BY <1>1, <2>2 DEF ToolStep, StartQueued, Start, Prompt, Answer, Run, Types
    <3> QED BY <1>1, <1>2, <1>6, <3>1, <3>2 DEF OnPanel, Types
  <2> QED BY <2>1, <2>2
<1>10. UnwantedOnlyByMixUp'
  <2> SUFFICES ASSUME NEW k \in Jobs, kind[k] = "unwanted",
                      job'[k] \in {"run", "done", "hung"}
               PROVE  MixedUp(k)' \/ LeftOver(k)' \/ TooEarly(k)'
    BY <1>2 DEF UnwantedOnlyByMixUp, Shown, MixedUp, LeftOver, TooEarly
  <2>1. CASE job[k] \in {"run", "done", "hung"}
    <3>1. MixedUp(k) \/ LeftOver(k) \/ TooEarly(k)
      BY <1>1, <2>1 DEF UnwantedOnlyByMixUp, Shown, MixedUp, LeftOver, TooEarly
    <3>2. took'[k] = took[k]
      BY <1>2, <2>1
    <3> QED BY <1>2, <1>6, <3>1, <3>2 DEF MixedUp, LeftOver, TooEarly
  <2>2. CASE job[k] \notin {"run", "done", "hung"}
    <3>1. k = j
      BY <1>2, <2>2
    <3>2. \/ /\ took'[k] = "answer"
             /\ \E i \in Jobs \ {k} : kind[i] = "wanted" /\ job[i] \in Shown
          \/ took'[k] = "chat" /\ ended[owner[k]] = "raised"
          \/ took'[k] = "ahead"
      BY <2>2, <3>1, RunsWhatIsWanted
    <3> QED BY <1>2, <1>6, <3>2 DEF MixedUp, LeftOver, TooEarly
  <2> QED BY <2>1, <2>2
<1> QED BY <1>3, <1>4, <1>7, <1>8, <1>9, <1>10 DEF IInv

-----------------------------------------------------------------------------
(* A turn ends: with an answer, when none of its calls is left.              *)
LEMMA EndTurnKeeps ==
  ASSUME IInv, NEW how \in {"reply", "fallback", "raised"}, EndTurn(how),
         pc # "idle", how # "raised" => pc = "chat"
  PROVE  IInv'
<1> USE DEF EndTurn, callVars, lineVars
<1>1. /\ Types /\ Numbered /\ Waiting /\ OnPanel
      /\ QuietAfterAnswer /\ UnwantedOnlyByMixUp
  BY DEF IInv
<1>2. turn \in Turns
  BY <1>1 DEF Types, Numbered, Turns
<1>3. /\ ended' = [ended EXCEPT ![turn] = how] /\ pc' = "idle"
      /\ ended'[turn] = how
      /\ \A t \in Turns : t # turn => ended'[t] = ended[t]
  BY <1>1, <1>2 DEF Types
<1>4. Types'
  BY <1>1, <1>3 DEF Types
<1>5. Numbered'
  BY <1>1, <1>3 DEF Numbered, Types
<1>6. Waiting' /\ OnPanel' /\ OwnResults' /\ UnwantedOnlyByMixUp'
  <2>1. Waiting' /\ OnPanel' /\ OwnResults'
    BY <1>1, <1>3 DEF Waiting, OnPanel, OwnResults
  <2>2. \A j \in Jobs : ended[owner[j]] = "raised" => ended'[owner[j]] = "raised"
    <3> SUFFICES ASSUME NEW j \in Jobs, ended[owner[j]] = "raised"
                 PROVE  ended'[owner[j]] = "raised"
      OBVIOUS
    <3>1. ended[turn] = "no"
      BY <1>1, <1>2 DEF Numbered
    <3> QED BY <1>3, <3>1
  <2>3. UnwantedOnlyByMixUp'
    BY <1>1, <2>2 DEF UnwantedOnlyByMixUp
  <2> QED BY <2>1, <2>3
<1>7. QuietAfterAnswer'
  <2> SUFFICES ASSUME NEW j \in Jobs, job[j] # "unused",
                      ended'[owner[j]] \in {"reply", "fallback"}
               PROVE  job[j] \in Finished
    BY DEF QuietAfterAnswer
  <2>1. j <= used /\ owner[j] \in Turns
    BY <1>1 DEF Numbered, Types, Turns
  <2>2. CASE owner[j] = turn
    BY <1>1, <1>3, <2>1, <2>2 DEF Waiting
  <2>3. CASE owner[j] # turn
    BY <1>1, <1>3, <2>1, <2>3 DEF QuietAfterAnswer
  <2> QED BY <2>2, <2>3
<1> QED BY <1>4, <1>5, <1>6, <1>7 DEF IInv

(* A turn begins, and has made no call.                                      *)
LEMMA ThinkKeeps == ASSUME IInv, Think PROVE IInv'
<1> USE DEF Think
<1>1. /\ Types /\ Numbered /\ Waiting /\ OnPanel
      /\ QuietAfterAnswer /\ UnwantedOnlyByMixUp
  BY DEF IInv
<1>2. <<>> \in [DOMAIN <<>> -> Jobs] /\ <<>> \in [DOMAIN <<>> -> Jobs \cup {0}]
  OBVIOUS
<1>3. Types'
  BY <1>1, <1>2 DEF Types
<1>4. Numbered'
  BY <1>1 DEF Numbered, Types, Turns
<1>5. Waiting'
  BY <1>1 DEF Waiting, Numbered, Types
<1>6. OnPanel' /\ OwnResults' /\ QuietAfterAnswer' /\ UnwantedOnlyByMixUp'
  BY <1>1 DEF OnPanel, OwnResults, QuietAfterAnswer, UnwantedOnlyByMixUp
<1> QED BY <1>3, <1>4, <1>5, <1>6 DEF IInv

(* The model asks for n tools: the next n numbers are their calls, in order. *)
LEMMA CallToolsKeeps ==
  ASSUME IInv, NEW n \in 1 .. MaxCalls, CallTools(n) PROVE IInv'
<1> USE DEF CallTools
<1>1. /\ Types /\ Numbered /\ Waiting /\ OnPanel
      /\ QuietAfterAnswer /\ UnwantedOnlyByMixUp
  BY DEF IInv
<1>2. n \in Nat /\ n # 0 /\ MaxJobs \in Nat /\ used \in Nat /\ turn \in Nat
  BY <1>1 DEF Types
<1> DEFINE new == used + 1 .. used + n
<1>3. /\ new \subseteq Jobs /\ used' = used + n /\ used + n \in 0 .. MaxJobs
      /\ \A j \in Jobs : j \in new => ~(j <= used)
      /\ \A j \in Jobs : j <= used + n <=> j <= used \/ j \in new
      /\ \A i \in 1 .. n : used + i \in new
      /\ \A j \in new : \E i \in 1 .. n : used + i = j
  <2>1. \A j \in new : j - used \in 1 .. n /\ used + (j - used) = j
    BY <1>2
  <2>2. \A j \in new : \E i \in 1 .. n : used + i = j
    BY <2>1
  <2>3. \A i \in 1 .. n : used + i \in new
    BY <1>2
  <2>4. new \subseteq Jobs /\ used + n \in 0 .. MaxJobs
    BY <1>2 DEF Jobs
  <2>5. \A j \in Jobs : (j \in new => ~(j <= used))
                       /\ (j <= used + n <=> j <= used \/ j \in new)
    BY <1>2 DEF Jobs
  <2> QED BY <2>2, <2>3, <2>4, <2>5
<1>4. /\ batch' = [i \in 1 .. n |-> used + i] /\ results' = [i \in 1 .. n |-> 0]
      /\ DOMAIN batch' = 1 .. n /\ pc' = IF n = 1 THEN "single" ELSE "collect"
      /\ UNCHANGED <<turn, ended, panel, took>>
  BY DEF lineVars
<1>5. /\ \A j \in Jobs : job'[j] = IF j \in new
                                   THEN IF n = 1 THEN "start" ELSE "queued"
                                   ELSE job[j]
      /\ \A j \in Jobs : owner'[j] = IF j \in new THEN turn ELSE owner[j]
      /\ \A j \in Jobs : j \notin new => kind'[j] = kind[j]
  OBVIOUS
<1>6. turn \in 1 .. turn /\ turn \in Turns /\ ended[turn] = "no"
  BY <1>1, <1>2 DEF Numbered, Types, Turns
<1>7. Types'
  <2>1. job' \in [Jobs -> {"unused", "queued"} \cup Active \cup Finished]
    BY <1>1 DEF Types, Active
  <2>2. kind' \in [Jobs -> Kinds] /\ owner' \in [Jobs -> 0 .. MaxTurns]
    BY <1>1 DEF Types
  <2>3. batch' \in [1 .. n -> Jobs] /\ results' \in [1 .. n -> Jobs \cup {0}]
    BY <1>3, <1>4
  <2> QED BY <1>1, <1>3, <1>4, <2>1, <2>2, <2>3 DEF Types
<1> HIDE DEF new, CallTools
<1>8. Numbered'
  <2>1. \A j \in Jobs : /\ job'[j] # "unused" <=> j <= used'
                        /\ j <= used' => owner'[j] \in 1 .. turn
    BY <1>1, <1>3, <1>5, <1>6 DEF Numbered
  <2>2. pc # "idle"
    BY DEF CallTools
  <2> QED BY <1>1, <1>4, <2>1, <2>2 DEF Numbered
<1>9. Waiting'
  <2>1. pc = "chat" /\ pc' # "idle" /\ pc' # "chat"
    BY <1>4 DEF CallTools
  <2>2. ASSUME NEW j \in Jobs, j <= used', owner'[j] = turn, job'[j] \notin Finished
        PROVE  \E i \in DOMAIN batch' : batch'[i] = j
    <3>1. j \in new
      BY <1>1, <1>3, <1>5, <2>1, <2>2 DEF Waiting
    <3> QED BY <1>3, <1>4, <3>1
  <2>3. \A i \in DOMAIN batch' : results'[i] = 0
    BY <1>4
  <2>4. pc' = "single" => DOMAIN batch' = {1}
    BY <1>2, <1>4
  <2> QED BY <1>4, <2>1, <2>2, <2>3, <2>4 DEF Waiting
<1>10. \A j \in Jobs : job[j] # "unused" => j \notin new
  BY <1>1, <1>3 DEF Numbered
<1>11. OnPanel' /\ UnwantedOnlyByMixUp'
  <2>1. \A j \in Jobs : job[j] \in Shown => /\ job'[j] = job[j] /\ kind'[j] = kind[j]
                                           /\ owner'[j] = owner[j]
    BY <1>5, <1>10 DEF Shown, Finished
  <2>2. \A j \in Jobs : job'[j] \in Shown => /\ job'[j] = job[j] /\ kind'[j] = kind[j]
                                            /\ owner'[j] = owner[j]
    BY <1>5 DEF Shown, Finished
  <2>3. panel \in Jobs \cup {0}
    BY <1>1 DEF Types
  <2>4. OnPanel'
    BY <1>1, <1>4, <2>1, <2>2, <2>3 DEF OnPanel, Shown
  <2>5. UnwantedOnlyByMixUp'
    BY <1>1, <1>4, <2>1, <2>2 DEF UnwantedOnlyByMixUp, Shown, Finished
  <2> QED BY <2>4, <2>5
<1>12. QuietAfterAnswer'
  BY <1>1, <1>4, <1>5, <1>6 DEF QuietAfterAnswer
<1>13. OwnResults'
  BY <1>4 DEF OwnResults
<1> QED BY <1>7, <1>8, <1>9, <1>11, <1>12, <1>13 DEF IInv

-----------------------------------------------------------------------------
(* A finished call's result goes to its own slot.                            *)
LEMMA CollectKeeps == ASSUME IInv, Collect PROVE IInv'
<1> USE DEF Collect, turnVars, callVars, lineVars
<1>1. /\ Types /\ Numbered /\ Waiting /\ OnPanel
      /\ QuietAfterAnswer /\ UnwantedOnlyByMixUp
  BY DEF IInv
<1>2. PICK i \in DOMAIN batch : /\ job[batch[i]] \in Finished
                                /\ results' = [results EXCEPT ![i] = batch[i]]
  OBVIOUS
<1>3. Types'
  BY <1>1, <1>2 DEF Types
<1>4. Waiting'
  BY <1>1, <1>2 DEF Waiting, Types
<1>5. Numbered' /\ OnPanel' /\ OwnResults' /\ QuietAfterAnswer' /\ UnwantedOnlyByMixUp'
  BY <1>1 DEF Numbered, OnPanel, OwnResults, QuietAfterAnswer, UnwantedOnlyByMixUp
<1> QED BY <1>3, <1>4, <1>5 DEF IInv

(* The model is asked again when every call of the batch is finished, and    *)
(* the results are the batch.                                                *)
LEMMA AskedAgainKeeps ==
  ASSUME IInv, pc' = "chat", pc # "idle", results' = batch,
         \A i \in DOMAIN batch : job[batch[i]] \in Finished,
         UNCHANGED <<turnVars, job, callVars, panel, took>>
  PROVE  IInv'
<1> USE DEF turnVars, callVars
<1>1. /\ Types /\ Numbered /\ Waiting /\ OnPanel
      /\ QuietAfterAnswer /\ UnwantedOnlyByMixUp
  BY DEF IInv
<1>2. Types'
  BY <1>1 DEF Types
<1>3. Waiting'
  BY <1>1 DEF Waiting
<1>4. Numbered' /\ OnPanel' /\ OwnResults' /\ QuietAfterAnswer' /\ UnwantedOnlyByMixUp'
  BY <1>1 DEF Numbered, OnPanel, OwnResults, QuietAfterAnswer, UnwantedOnlyByMixUp
<1> QED BY <1>2, <1>3, <1>4 DEF IInv

(* So it is after several calls, and after a single one.                     *)
LEMMA CollectedKeeps == ASSUME IInv, Collected \/ SingleDone PROVE IInv'
<1>1. Types /\ Waiting
  BY DEF IInv
<1>2. pc # "idle" /\ pc' = "chat" /\ UNCHANGED <<turnVars, job, callVars, panel, took>>
  BY DEF Collected, SingleDone, lineVars
<1>3. results' = batch /\ \A i \in DOMAIN batch : job[batch[i]] \in Finished
  <2>1. CASE Collected
    <3>1. \A i \in DOMAIN batch : results[i] = batch[i] /\ job[batch[i]] \in Finished
      BY <1>1, <2>1 DEF Collected, Waiting
    <3>2. results = batch
      BY <1>1, <3>1 DEF Types
    <3> QED BY <2>1, <3>1, <3>2 DEF Collected
  <2>2. CASE SingleDone
    BY <1>1, <2>2 DEF SingleDone, Waiting
  <2> QED BY <2>1, <2>2
<1> QED BY <1>2, <1>3, AskedAgainKeeps

-----------------------------------------------------------------------------
(* Every step keeps the invariant.                                           *)
LEMMA NextKeepsIInv == IInv /\ [Next]_vars => IInv'
<1> SUFFICES ASSUME IInv, [Next]_vars PROVE IInv'
  OBVIOUS
<1>1. CASE Think
  BY <1>1, ThinkKeeps
<1>2. CASE Reply
  BY <1>2, EndTurnKeeps DEF Reply
<1>3. CASE ChatFails
  BY <1>3, EndTurnKeeps DEF ChatFails
<1>4. CASE MaxIterationsReached
  BY <1>4, EndTurnKeeps DEF MaxIterationsReached
<1>5. CASE \E n \in 1 .. MaxCalls : CallTools(n)
  BY <1>5, CallToolsKeeps
<1>6. CASE Collect
  BY <1>6, CollectKeeps
<1>7. CASE TimeOut
  BY <1>7, EndTurnKeeps DEF TimeOut
<1>8. CASE Collected \/ SingleDone
  BY <1>8, CollectedKeeps
<1>9. CASE \E j \in Jobs : ToolStep(j)
  BY <1>9, ToolStepKeeps
<1>10. CASE OtherLine \/ TypeAhead \/ UNCHANGED vars
  <2>1. UNCHANGED <<turn, pc, ended, job, kind, owner, used, batch, results, panel,
                    took>>
    BY <1>10 DEF OtherLine, TypeAhead, vars, turnVars, callVars
  <2> QED BY <2>1 DEF IInv, Types, Numbered, Waiting, OnPanel, OwnResults,
                      QuietAfterAnswer, UnwantedOnlyByMixUp
<1> QED
  BY <1>1, <1>2, <1>3, <1>4, <1>5, <1>6, <1>7, <1>8, <1>9, <1>10 DEF Next, Brain

(* Calls keep their numbers, their turns and their slots, and a question is  *)
(* on the panel before it is answered (brain.py:384-431).                    *)
THEOREM CallsKeepTheirPlaces == Spec => []IInv
<1> QED BY InitIInv, NextKeepsIInv, PTL DEF Spec

(* When the model is asked again, the i-th result is that of its i-th call,  *)
(* whatever the order in which the pool finished them (brain.py:418-431).    *)
THEOREM ResultsAreInPlace == Spec => []OwnResults
<1>1. IInv => OwnResults
  BY DEF IInv
<1> QED BY <1>1, CallsKeepTheirPlaces, PTL

(* A turn that gave its answer has no tool call waiting, asking or running   *)
(* (brain.py:384-400): only a turn that raised leaves some in the pool.      *)
THEOREM AnswerLeavesNoCall == Spec => []QuietAfterAnswer
<1>1. IInv => QuietAfterAnswer
  BY DEF IInv
<1> QED BY <1>1, CallsKeepTheirPlaces, PTL

(* A tool that Dad would deny is not run, unless another action he was asked *)
(* about, and wanted, was on the panel (action_executor.py:109-131).         *)
THEOREM DeniedUnlessMixedUp == Spec => []UnwantedOnlyByMixUp
<1>1. IInv => UnwantedOnlyByMixUp
  BY DEF IInv
<1> QED BY <1>1, CallsKeepTheirPlaces, PTL
=============================================================================
