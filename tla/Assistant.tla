----------------------------- MODULE Assistant -----------------------------
(***************************************************************************)
(* The conversation loop of son.py in keyboard mode: one line at a time is *)
(* classified and either executed by a command handler or answered by the  *)
(* LLM with what the semantic memory recalls.  What the wake word and the  *)
(* voice add is in VoiceLoop; what happens inside a turn of tool calls is  *)
(* in ToolTurn; what the camera does once it is on is in Camera.           *)
(*                                                                         *)
(* Exchanges are numbered.  The embedding service and the LLM may fail on  *)
(* any line; what a similarity search returns is any choice of the stored  *)
(* exchanges.                                                              *)
(***************************************************************************)
EXTENDS Routing, Sequences

CONSTANTS Lines,         \* the lines Dad may say
          MaxResults,    \* config.MEMORY_MAX_RESULTS
          HistoryLength, \* maxlen of Brain._history, in exchanges
          MaxExchanges   \* bound: exchanges with the LLM

ASSUME AssistantAssumption == /\ Lines \subseteq STRING \X Objects
                              /\ MaxResults \in Nat \ {0}
                              /\ HistoryLength \in Nat \ {0}
                              /\ MaxExchanges \in Nat

VARIABLES running,    \* Son._running
          camera,     \* CameraManager.privacy.camera_active
          facts,      \* the facts collection
          stored,     \* the conversations collection, as exchange numbers
          cache,      \* EmbeddingCache._query_cache: what a line recalled
          history,    \* Brain._history, as exchange numbers
          exchanges,  \* exchanges so far
          last,       \* how the last line was dealt with
          wanted,     \* history: the facts and the camera Dad has asked for
          questions   \* history: what the memory has been searched for

assistantVars == <<running, camera, facts, stored, cache, history, exchanges,
                   last, wanted, questions>>
memory == <<stored, cache, history, exchanges, questions>>

Outcome(line, by, ran, recalled) ==
  [said |-> line, by |-> by, ran |-> ran, recalled |-> recalled]
Failing == {"scan", "scan_path", "screenshot", "look_at_screen"}

(* What Dad asks for when he says the line, in the words of README.md:242   *)
(* (camera) and commands.py:524 (facts).                                    *)
CameraOff == {"pause", "disable", "turn off", "stop"} \X {"camera"}
CameraOn  == {"resume", "enable", "turn on", "start"} \X {"camera"}
Asked(line) ==
  [facts  |-> CASE line[1] = "remember that" -> wanted.facts \cup {line[2]}
                [] line[1] \in {"forget", "forget about"} -> wanted.facts \ {line[2]}
                [] OTHER -> wanted.facts,
   camera |-> (wanted.camera /\ line \notin CameraOff) \/ line \in CameraOn]

-----------------------------------------------------------------------------
AssistantInit ==
  /\ running = TRUE
  /\ camera \in BOOLEAN     \* config.CAMERA_AUTO_START
  /\ facts = {} /\ stored = {} /\ cache = <<>>
  /\ history = <<>> /\ exchanges = 0 /\ questions = {}
  /\ last = Outcome(<<"", "">>, "none", "none", {})
  /\ wanted = [facts |-> {}, camera |-> camera]

(* SemanticMemory.recall: nothing while nothing is stored; else what the    *)
(* query cache holds for the text; else, if it can be embedded, the nearest *)
(* exchanges.                                                               *)
KeyConstant(text) == CHOOSE l \in Lines : TRUE      \* slip
Key(text) == text
Nearest == kSubset(Min({MaxResults, Cardinality(stored)}), stored)
Recall(text) ==
  IF stored = {} THEN {{}}
  ELSE IF Key(text) \in DOMAIN cache THEN {cache[Key(text)]}
  ELSE {{}} \cup Nearest

(* An empty result is not cached.                                           *)
Search(text, found) ==
  /\ cache' = IF found = {} \/ Key(text) \in DOMAIN cache THEN cache
              ELSE [l \in DOMAIN cache \cup {Key(text)} |->
                      IF l = Key(text) THEN found ELSE cache[l]]
  /\ questions' = IF found = {} THEN questions ELSE questions \cup {text}

-----------------------------------------------------------------------------
IsCommand(line) == Classify(line).kind = "COMMAND" /\ HandlerOf(line) # "none"

(* A handler ran: CommandHandler.handle turns its exceptions into a reply.  *)
Handled(line, found) ==
  last' = Outcome(line, IF HandlerOf(line) \in Failing THEN "failed" ELSE "command",
                  HandlerOf(line), found)

Exit(line) ==
  /\ HandlerOf(line) = "exit"
  /\ running' = FALSE
  /\ UNCHANGED <<camera, facts, memory>>

(* _cmd_remember: no embedding, nothing stored (the reply is the same)      *)
Remember(line) ==
  /\ HandlerOf(line) = "remember"
  /\ \/ facts' = facts \cup {line[2]}
     \/ UNCHANGED facts
  /\ UNCHANGED <<running, camera, memory>>

(* _cmd_forget                                                              *)
Forget(line) ==
  /\ HandlerOf(line) = "forget"
  /\ facts' = facts \ {line[2]}
  /\ UNCHANGED <<running, camera, memory>>

CameraPause(line) ==
  /\ HandlerOf(line) = "camera_pause"
  /\ camera' = FALSE
  /\ UNCHANGED <<running, facts, memory>>

CameraResume(line) ==
  /\ HandlerOf(line) = "camera_resume"
  /\ camera' = TRUE         \* even if the hardware does not start
  /\ UNCHANGED <<running, facts, memory>>

ClearHistory(line) ==
  /\ HandlerOf(line) = "clear_history"
  /\ history' = <<>>
  /\ UNCHANGED <<running, camera, facts, stored, cache, exchanges, questions>>

(* _cmd_look_at_screen: Brain.think_vision builds its messages as for any   *)
(* question, with a text of its own: it searches the memory, then asks      *)
(* CodeTracker.query, which raises.  A capture that fails searches nothing. *)
ScreenText == <<"describe what you see on the", "screen">>
LookAtScreen(line) ==
  /\ HandlerOf(line) = "look_at_screen"
  /\ \E found \in {{}} \cup Recall(ScreenText) :
       /\ Search(ScreenText, found)
       /\ Handled(line, found)
  /\ UNCHANGED <<running, camera, facts, stored, history, exchanges>>

(* Every other handler acts outside Son or only reads.                      *)
ActOutside(line) ==
  /\ HandlerOf(line) \notin {"exit", "remember", "forget", "camera_pause",
                             "camera_resume", "clear_history", "look_at_screen"}
  /\ UNCHANGED <<running, camera, facts, memory>>

Command(line) ==
  /\ IsCommand(line)
  /\ \/ LookAtScreen(line)
     \/ /\ Handled(line, {})
        /\ \/ Exit(line) \/ Remember(line) \/ Forget(line) \/ CameraPause(line)
           \/ CameraResume(line) \/ ClearHistory(line) \/ ActOutside(line)

-----------------------------------------------------------------------------
(* Brain._build_messages asks CodeTracker.query for code, which calls a     *)
(* method SemanticMemory does not have; Son.run shows the error.            *)
Raises(line) == Classify(line).codebase

AskRaises(line, found) ==
  /\ Raises(line)
  /\ last' = Outcome(line, "error", "none", found)
  /\ UNCHANGED <<stored, history, exchanges>>

(* The LLM cannot be reached: a fallback reply, and nothing is saved.       *)
AskFallsBack(line, found) ==
  /\ ~Raises(line)
  /\ last' = Outcome(line, "fallback", "none", found)
  /\ UNCHANGED <<stored, history, exchanges>>

(* Two tools that run too long: think_with_tools raises TimeoutError.       *)
AskTimesOut(line, found) ==
  /\ ~Raises(line)
  /\ last' = Outcome(line, "timeout", "none", found)
  /\ UNCHANGED <<stored, history, exchanges>>

(* A deque: an append past its length drops the oldest entry.               *)
Keep(exchange) ==
  LET longer == Append(history, exchange)
  IN  IF Len(longer) > HistoryLength THEN Tail(longer) ELSE longer

(* Brain._save_turn: the exchange goes into the history and, if it can be   *)
(* embedded, into the conversations.                                        *)
AskAnswered(line, found) ==
  /\ ~Raises(line)
  /\ exchanges < MaxExchanges
  /\ last' = Outcome(line, "llm", "none", found)
  /\ exchanges' = exchanges + 1
  /\ history' = Keep(exchanges')
  /\ \/ stored' = stored \cup {exchanges'}
     \/ UNCHANGED stored

Ask(line) ==
  /\ ~IsCommand(line)
  /\ \E found \in IF Classify(line).memory THEN Recall(line) ELSE {{}} :
       /\ Search(line, found)
       /\ \/ AskRaises(line, found) \/ AskFallsBack(line, found)
          \/ AskTimesOut(line, found) \/ AskAnswered(line, found)
  /\ UNCHANGED <<running, camera, facts>>

(* Son._respond *)
Respond(line) ==
  /\ running
  /\ wanted' = Asked(line)
  /\ Command(line) \/ Ask(line)

(* Son.run: Ctrl-C ends the loop *)
Interrupt ==
  /\ running
  /\ running' = FALSE
  /\ UNCHANGED <<camera, facts, memory, last, wanted>>

AssistantNext == Interrupt \/ \E line \in Lines : Respond(line)
AssistantSpec == AssistantInit /\ [][AssistantNext]_assistantVars

-----------------------------------------------------------------------------
(* Whatever the two lists make of a line: Son keeps no fact that Dad did not *)
(* ask to remember or asked to forget since, and the camera's privacy flag   *)
(* is what the last camera line asked for; no other line changes it          *)
(* (commands.py:185, :191; README.md:242).                                   *)
StateFollowsRequests == facts \subseteq wanted.facts /\ camera = wanted.camera

(* The help text, commands.py:513: what a line is said to do.                *)
Does(says, handler) == [says |-> says, does |-> handler]
Help == {Does({"scan"} \X {"project"}, "scan"), Does({"scan"} \X {"codebase"}, "scan_path"),
         Does({"what changed"} \X None, "what_changed"),
         Does({"progress report"} \X None, "progress"),
         Does({"list"} \X {"files"}, "list_files"), Does({"commits"} \X None, "commits"),
         Does({"remember that"} \X Topics, "remember"),
         Does({"forget about"} \X Topics, "forget"),
         Does({"memory"} \X {"stats"}, "memory_stats"),
         Does({"clear"} \X {"history"}, "clear_history"),
         Does({"open"} \X {"chrome"}, "open_app"), Does({"close"} \X {"chrome"}, "close_app"),
         Does({"volume"} \X Numbers, "volume"), Does({"brightness"} \X Numbers, "brightness"),
         Does({"screenshot"} \X None, "screenshot"), Does({"system"} \X {"info"}, "system_info"),
         Does({"what's on my"} \X {"screen"}, "look_at_screen"),
         Does({"search"} \X {"cats"}, "web_search"), Does({"weather"} \X None, "weather"),
         Does({"news"} \X None, "news"), Does({"morning"} \X {"routine"}, "run_routine"),
         Does({"run routine"} \X {"coding"}, "run_named"),
         Does({"list"} \X {"routines"}, "list_routines"),
         Does({"docker"} \X {"list"}, "docker_list"),
         Does({"start", "stop"} \X Containers, "docker_action"),
         Does({"tools"} \X None, "list_tools"), Does({"help"} \X None, "help"),
         Does({"exit", "quit"} \X None, "exit")}

(* commands.py:513: every line of the help text is a command for the router  *)
(* too, and runs the handler the text describes, not one that comes earlier. *)
HelpIsTrue == \A line \in Help : last.said \in line.says => last.ran = line.does

(* README.md:153, "COMMAND: Bypasses memory search completely": a line the   *)
(* router calls a command searches nothing, even if no handler takes it and  *)
(* it goes to the LLM; one that a handler takes leaves no exchange behind.   *)
(* Only a look at the screen is not as README.md says: it searches, for the  *)
(* handler's text (commands.py:277).                                         *)
CommandsBypassMemory ==
  [][Classify(last'.said).kind = "COMMAND" =>
       /\ last'.ran # "look_at_screen" =>
            UNCHANGED cache /\ last'.recalled \subseteq last.recalled
       /\ \A text \in DOMAIN cache' \ DOMAIN cache : text = ScreenText
       /\ last'.by \in {"command", "failed"} =>
            UNCHANGED <<stored, exchanges>> /\ history' \in {history, <<>>}]_assistantVars

(* While all stored exchanges fit into one result, a search that finds       *)
(* anything finds them all, unless the memory was searched for the same text *)
(* before: only a repeated question, and a second look at the screen, is     *)
(* answered from a stale query cache.                                        *)
Searched(outcome) == IF outcome.ran = "look_at_screen" THEN ScreenText ELSE outcome.said
OnlyRepeatsAreStale ==
  [][last'.recalled \notin {{}, stored} /\ last' # last
     /\ Cardinality(stored) <= MaxResults => Searched(last') \in questions]_assistantVars
=============================================================================
