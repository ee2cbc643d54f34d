------------------------------ MODULE Routing ------------------------------
(***************************************************************************)
(* How a typed or spoken line is routed.  Two ordered lists of regular     *)
(* expressions look at it, one after the other: IntentRouter decides       *)
(* whether it is a COMMAND (core/intent_router.py) and, if it is,          *)
(* CommandHandler picks the handler that runs (commands.py).  In both the  *)
(* first match wins.  The lists were written separately, so a line may be  *)
(* a command for one of them only, and an early pattern may shadow a later *)
(* one.                                                                    *)
(*                                                                         *)
(* A line is a pair of words <<verb, object>>, "" for no object; a word    *)
(* stands for a group of words that the patterns always read together.  A  *)
(* pattern is the set of lines it matches.                                 *)
(***************************************************************************)
EXTENDS Naturals, FiniteSets, FiniteSetsExt

Websites == {"youtube", "github"}
SiteSearches == {"youtube for cats"}
Numbers == {"50"}
Topics == {"workspace", "birthday"}
Containers == {"container web"}
Objects == Websites \cup SiteSearches \cup Numbers \cup Topics \cup Containers \cup
  {"", "chrome", "camera", "project", "files", "screenshot", "screen", "screen?", "info",
   "status", "stats", "history", "tools", "routines", "routine", "list", "ps",
   "docker ps", "cats", "ann", "coding", "usage", "computer", "memory stats",
   "code", "codebase", "sink", "holiday"}
Some == Objects \ {""}
None == {""}

Opening == {"open", "go to", "visit", "launch"}
Searching == {"search", "look up", "find"}
SeeMe == {"can you see me", "look at me"}
Presence == {"is anyone in the room", "anyone there"}
Counting == {"how many people do you see", "count people"}
WhoIsIt == {"do you recognize this person", "who am i"}
Enrolling == {"enroll person", "add person"}
Screens == {"what's on my", "look at"}
ByeBye == {"exit", "quit", "bye", "goodbye"}

ClosingWide == {"close", "stop"}     \* slip: a second word that shadows
Closing == {"close"}

(* commands.py:27, the handlers in their order *)
Handlers == <<
  [to |-> "scan",          fits |-> {"scan", "index"} \X {"project"}],
  [to |-> "scan_path",     fits |-> {"scan", "index"} \X Some],
  [to |-> "what_changed",  fits |-> {"what changed"} \X Objects],
  [to |-> "progress",      fits |-> {"progress report"} \X Objects],
  [to |-> "remember",      fits |-> {"remember that"} \X Some],
  [to |-> "forget",        fits |-> {"forget", "forget about"} \X Some],
  [to |-> "list_files",    fits |-> {"list", "show"} \X {"files"}],
  [to |-> "commits",       fits |-> {"commits", "recent commits"} \X Objects],
  [to |-> "open_app",      fits |-> {"open"} \X Some],
  [to |-> "close_app",     fits |-> Closing \X Some],
  [to |-> "volume",        fits |-> {"volume"} \X Numbers],
  [to |-> "brightness",    fits |-> {"brightness"} \X Numbers],
  [to |-> "screenshot",    fits |-> {"screenshot"} \X None],
  [to |-> "system_info",   fits |-> {"system"} \X {"info", "status"}
                                    \cup {"sysinfo"} \X None],
  [to |-> "look_at_screen", fits |-> Screens \X {"screen"}],
  [to |-> "see_me",        fits |-> SeeMe \X None],
  [to |-> "presence",      fits |-> Presence \X None],
  [to |-> "count",         fits |-> Counting \X None],
  [to |-> "recognize",     fits |-> WhoIsIt \X None],
  [to |-> "enroll",        fits |-> Enrolling \X Some],
  [to |-> "camera_pause",  fits |-> {"pause", "disable", "turn off", "stop",
                                     "close", "shut down"} \X {"camera"}],
  [to |-> "camera_resume", fits |-> {"resume", "enable", "turn on", "start",
                                     "open", "activate"} \X {"camera"}],
  [to |-> "camera_status", fits |-> {"camera"} \X {"status", "info"}],
  [to |-> "open_website",  fits |-> Opening \X Websites],
  [to |-> "search_platform", fits |-> Searching \X SiteSearches],
  [to |-> "web_search",    fits |-> {"google", "search"} \X Some],
  [to |-> "weather",       fits |-> {"weather"} \X Objects],
  [to |-> "news",          fits |-> {"news"} \X Objects],
  [to |-> "run_routine",   fits |-> {"morning", "coding", "goodnight"} \X {"routine"}],
  [to |-> "run_named",     fits |-> {"run routine"} \X Some],
  [to |-> "list_routines", fits |-> {"list"} \X {"routines"}],
  [to |-> "docker_list",   fits |-> {"docker", "containers"} \X {"list", "ps", "status"}],
  [to |-> "docker_action", fits |-> {"start", "stop", "restart"} \X Containers],
  [to |-> "memory_stats",  fits |-> {"memory"} \X {"stats"}],
  [to |-> "list_tools",    fits |-> {"tools"} \X None \cup {"list"} \X {"tools"}],
  [to |-> "clear_history", fits |-> {"clear"} \X {"history"}],
  [to |-> "help",          fits |-> {"help", "commands"} \X None],
  [to |-> "exit",          fits |-> ByeBye \X None] >>

(* core/intent_router.py:67, the COMMAND patterns in their order.  Unlike   *)
(* the handlers' most of them are not anchored at the end of the line.      *)
CommandPatterns == <<
  [to |-> "open_website",    fits |-> Opening \X Websites],
  [to |-> "search_platform", fits |-> Searching \X SiteSearches],
  [to |-> "app_open",        fits |-> {"open", "launch", "start", "run"} \X Some
                                      \cup {"run routine"} \X Objects],
  [to |-> "app_close",       fits |-> {"close", "kill", "stop", "quit", "exit"} \X Some],
  [to |-> "system_control",  fits |-> {"volume", "brightness"} \X Numbers
                                      \cup {"mute"} \X Objects],
  [to |-> "screenshot",      fits |-> {"screenshot"} \X None
                                      \cup {"take a"} \X {"screenshot"}],
  [to |-> "system_info",     fits |-> {"system"} \X {"info", "status", "stats"}
                                      \cup {"info", "status", "stats"} \X None
                                      \cup {"memory", "cpu"} \X {"", "usage", "status"}],
  [to |-> "vision_screen",   fits |-> Screens \X {"screen", "screen?"}],
  [to |-> "camera_see_me",   fits |-> SeeMe \X None],
  [to |-> "camera_presence", fits |-> Presence \X None],
  [to |-> "camera_count",    fits |-> Counting \X None],
  [to |-> "camera_recognize", fits |-> WhoIsIt \X None],
  [to |-> "camera_enroll",   fits |-> Enrolling \X Some],
  [to |-> "camera_pause",    fits |-> {"pause", "disable", "turn off", "stop"} \X {"camera"}],
  [to |-> "camera_resume",   fits |-> {"resume", "enable", "turn on", "start"} \X {"camera"}],
  [to |-> "camera_status",   fits |-> {"camera"} \X {"status", "info"}],
  [to |-> "docker",          fits |-> {"docker", "containers"} \X {"list", "ps", "status"}],
  [to |-> "docker",          fits |-> {"start", "stop", "restart"} \X Containers],
  [to |-> "web_search",      fits |-> {"google", "search"} \X Some],
  [to |-> "weather",         fits |-> {"weather"} \X Objects],
  [to |-> "news",            fits |-> {"news"} \X Objects],
  [to |-> "memory_store",    fits |-> {"remember", "remember that"} \X Some],
  [to |-> "memory_forget",   fits |-> {"forget", "forget about"} \X Some],
  [to |-> "memory_stats",    fits |-> {"memory"} \X {"stats"}],
  [to |-> "memory_clear",    fits |-> {"clear"} \X {"history"}],
  [to |-> "codebase_scan",   fits |-> {"scan", "index"} \X Some],
  [to |-> "codebase_diff",   fits |-> {"what changed", "diff", "changes"} \X Objects],
  [to |-> "codebase_report", fits |-> {"progress report", "git log"} \X Objects],
  [to |-> "codebase_commits", fits |-> {"commits", "recent commits"} \X Objects],
  [to |-> "codebase_files",  fits |-> {"files", "project files"} \X Objects
                                      \cup {"list"} \X {"files"}],
  [to |-> "routine",         fits |-> {"morning", "coding", "goodnight"} \X {"routine"}],
  [to |-> "routine",         fits |-> {"run routine"} \X Objects \cup {"list"} \X {"routines"}],
  [to |-> "list_tools",      fits |-> {"tools"} \X None \cup {"list"} \X {"tools"}],
  [to |-> "help",            fits |-> {"help"} \X None],
  [to |-> "exit",            fits |-> ByeBye \X None],
  [to |-> "calculator",      fits |-> {"2+2"} \X Objects \cup {"calculate"} \X Some],
  [to |-> "system_power",    fits |-> {"shutdown", "restart", "sleep", "lock"}
                                        \X {"", "computer"}] >>

Codebase == {"codebase_scan", "codebase_diff", "codebase_report",
             "codebase_commits", "codebase_files"}

(* core/intent_router.py:148, the indicators of a COMPLEX request, one set  *)
(* of words for each pattern                                                *)
Indicators == {{"code", "fix", "import"}, {"analyze", "research"}, {"codebase"}, {"plan"}}
CodeWords == {"code", "import"}   \* _looks_like_code_question
Mentions(line, words) == line[1] \in words \/ line[2] \in words

(* core/intent_router.py:174, the greetings; :269, how a question begins    *)
SmallTalk == {"hello", "thanks"} \X Objects
Questions == {"what did we say about", "how is"} \X Objects

(* Slip: a later pattern overrides an earlier one.                          *)
LastMatch(table, line) ==
  LET hits == {i \in DOMAIN table : line \in table[i].fits}
  IN  IF hits = {} THEN "none" ELSE table[Max(hits)].to

(* The first pattern of the table that matches the line decides.            *)
FirstMatch(table, line) ==
  LET hits == {i \in DOMAIN table : line \in table[i].fits}
  IN  IF hits = {} THEN "none" ELSE table[Min(hits)].to

(* CommandHandler.handle: the handler that runs, "none" if no pattern fits  *)
HandlerOf(line) == FirstMatch(Handlers, line)

Intent(kind, sub, memory, codebase) ==
  [kind |-> kind, sub |-> sub, memory |-> memory, codebase |-> codebase]

CommandSearches(sub) == Intent("COMMAND", sub, TRUE, sub \in Codebase)    \* slip
CommandIntent(sub) == Intent("COMMAND", sub, FALSE, sub \in Codebase)

(* IntentRouter.classify: the kind of request, and what an answer needs     *)
Classify(line) ==
  LET sub   == FirstMatch(CommandPatterns, line)
      score == Cardinality({words \in Indicators : Mentions(line, words)})
  IN  CASE sub # "none"       -> CommandIntent(sub)
        [] sub = "none" /\ line \in SmallTalk
                              -> Intent("CHAT", "small_talk", FALSE, FALSE)
        [] sub = "none" /\ line \notin SmallTalk /\ score >= 2
                              -> Intent("COMPLEX", "multi", TRUE, TRUE)
        [] sub = "none" /\ line \notin SmallTalk /\ score = 1
                              -> Intent("COMPLEX", "single", TRUE, Mentions(line, CodeWords))
        [] OTHER              -> Intent("CHAT", "general_chat", line \in Questions, FALSE)
=============================================================================
