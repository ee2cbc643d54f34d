------------------------------ MODULE ToolTurn ------------------------------
(***************************************************************************)
(* brain.py: Brain.think_with_tools, with core/action_executor.py's        *)
(* ActionExecutor.execute, and the two readers of the terminal: ui.py's    *)
(* ask_permission, and get_text_input for the main loop of son.py.  A turn *)
(* asks the model; a single tool call runs in the turn's own thread,       *)
(* several run in a pool and are collected as they complete, all within a  *)
(* time limit.  A turn whose limit passes raises, and its calls stay in    *)
(* the pool.  Dad answers for the permission panel he saw last, or types   *)
(* for the main prompt, which he may do before it is there; a line is read *)
(* by whichever thread reads the terminal.                                 *)
(***************************************************************************)
EXTENDS Naturals, Sequences, FiniteSets

CONSTANTS MaxIterations,  \* TOOL_CALL_MAX_ITERATIONS
          Workers,        \* max_workers of self._tool_pool
          MaxCalls,       \* bound on the tool calls of one response
          MaxTurns,       \* bound on the turns of a behaviour
          MaxAhead,       \* bound on the lines typed ahead and not yet read
          MaxJobs         \* bound on the tool calls of a behaviour

ASSUME ToolTurnAssumption ==
  {MaxIterations, Workers, MaxCalls, MaxTurns, MaxAhead, MaxJobs} \subseteq Nat \ {0}

Jobs  == 1 .. MaxJobs
Turns == 1 .. MaxTurns
Kinds == {"safe", "wanted", "unwanted"}  \* unwanted: Dad would deny it

VARIABLES turn,    \* number of the turn Brain is at, or was at last
          pc,      \* "idle", or what the turn waits for
          iter,    \* iterations
          ended,   \* ended[t]: how turn t ended
          job,     \* job[j]: where tool call j is in _execute_single_tool
          kind,    \* kind[j]: its security level, and what Dad thinks of it
          owner,   \* owner[j]: the turn that made it
          used,    \* tool calls made so far
          batch,   \* tool_calls of the latest response
          results, \* results[i]: the call whose result is in slot i, or 0
          panel,   \* the call on the permission panel shown last
          asking,  \* the call whose input() holds the terminal, or 0
          ahead,   \* lines Dad typed ahead of the main prompt
          took     \* took[j]: what Dad typed the line for that call j read

vars == <<turn, pc, iter, ended, job, kind, owner, used, batch, results, panel,
          asking, ahead, took>>
turnVars == <<turn, iter, ended>>
callVars == <<kind, owner, used, batch>>
lineVars == <<ahead, took>>

Active   == {"start", "panel", "prompt", "answer", "run", "hung"}
Finished == {"done", "refused"}

Init ==
  /\ turn = 0 /\ pc = "idle" /\ iter = 0
  /\ ended = [t \in Turns |-> "no"]
  /\ job = [j \in Jobs |-> "unused"]
  /\ kind = [j \in Jobs |-> "safe"]
  /\ owner = [j \in Jobs |-> 0]
  /\ used = 0 /\ batch = <<>> /\ results = <<>>
  /\ panel = 0 /\ asking = 0
  /\ ahead = 0 /\ took = [j \in Jobs |-> "nothing"]

-----------------------------------------------------------------------------
(* A reader of the terminal gets a line typed ahead first, if there is any.  *)
ReadLine == ahead' = IF ahead = 0 THEN 0 ELSE ahead - 1

(* The main prompt has Dad's line: think_with_tools up to its loop.          *)
Think ==
  /\ pc = "idle" /\ turn < MaxTurns
  /\ ReadLine
  /\ turn' = turn + 1 /\ iter' = 0 /\ pc' = "chat"
  /\ batch' = <<>> /\ results' = <<>>
  /\ UNCHANGED <<ended, job, kind, owner, used, panel, asking, took>>

(* A line typed ahead that begins no turn: an empty one, or a command.       *)
OtherLine ==
  /\ pc = "idle" /\ ahead > 0
  /\ ReadLine
  /\ UNCHANGED <<turnVars, pc, job, callVars, results, panel, asking, took>>

(* Dad types his next line while a turn is under way.                        *)
TypeAhead ==
  /\ pc # "idle" /\ ahead < MaxAhead
  /\ ahead' = ahead + 1
  /\ UNCHANGED <<turnVars, pc, job, callVars, results, panel, asking, took>>

EndTurn(how) ==
  /\ ended' = [ended EXCEPT ![turn] = how]
  /\ pc' = "idle"
  /\ UNCHANGED <<turn, job, callVars, results, panel, asking, lineVars>>

(* The model answers without tools: the turn is saved and returned.          *)
Reply ==
  /\ pc = "chat" /\ iter < MaxIterations
  /\ iter' = iter + 1
  /\ EndTurn("reply")

(* client.chat raised: a fallback text is returned, and nothing saved.       *)
ChatFails ==
  /\ pc = "chat" /\ iter < MaxIterations
  /\ iter' = iter + 1
  /\ EndTurn("fallback")

MaxIterationsReached ==
  /\ pc = "chat" /\ iter = MaxIterations
  /\ EndTurn("reply")
  /\ UNCHANGED iter

(* The model asks for n tools, of whatever kind.                             *)
CallTools(n) ==
  LET new == used + 1 .. used + n
  IN /\ pc = "chat" /\ iter < MaxIterations
     /\ used + n <= MaxJobs
     /\ iter' = iter + 1
     /\ pc' = IF n = 1 THEN "single" ELSE "collect"
     /\ used' = used + n
     /\ batch' = [i \in 1 .. n |-> used + i]
     /\ results' = [i \in 1 .. n |-> 0]
     /\ job' = [j \in Jobs |-> IF j \in new
                               THEN IF n = 1 THEN "start" ELSE "queued"
                               ELSE job[j]]
     /\ owner' = [j \in Jobs |-> IF j \in new THEN turn ELSE owner[j]]
     /\ \E k \in [new -> Kinds] :
          kind' = [j \in Jobs |-> IF j \in new THEN k[j] ELSE kind[j]]
     /\ UNCHANGED <<turn, ended, panel, asking, lineVars>>

-----------------------------------------------------------------------------
(* The pool starts its calls in the order they were submitted.               *)
Pooled == {j \in Jobs : ~(pc = "single" /\ j = batch[1])}

StartQueued(j) ==
  /\ job[j] = "queued" /\ \A i \in Jobs : i < j => job[i] # "queued"
  /\ Cardinality({i \in Pooled : job[i] \in Active}) < Workers
  /\ job' = [job EXCEPT ![j] = "start"]
  /\ UNCHANGED <<turnVars, pc, callVars, results, panel, asking, lineVars>>

(* An unknown tool is refused; a sensitive or critical one needs a yes.      *)
Start(j) ==
  /\ job[j] = "start"
  /\ \/ job' = [job EXCEPT ![j] = "refused"]
     \/ job' = [job EXCEPT ![j] = IF kind[j] = "safe" THEN "run" ELSE "panel"]
  /\ UNCHANGED <<turnVars, pc, callVars, results, panel, asking, lineVars>>

(* ask_permission prints its panel.                                          *)
ShowPanel(j) ==
  /\ job[j] = "panel"
  /\ panel' = j
  /\ job' = [job EXCEPT ![j] = "prompt"]
  /\ UNCHANGED <<turnVars, pc, callVars, results, asking, lineVars>>

(* input(): one thread at a time prints its prompt and reads the terminal.   *)
Prompt(j) ==
  /\ job[j] = "prompt" /\ asking = 0
  /\ asking' = j
  /\ job' = [job EXCEPT ![j] = "answer"]
  /\ UNCHANGED <<turnVars, pc, callVars, results, panel, lineVars>>

(* The line it reads: one typed ahead; or Dad's answer, with the panel shown *)
(* last before his eyes; or, between turns, a line for the main prompt, that *)
(* a prompt left over takes.  An empty line, "ok" and the like are a yes,    *)
(* whatever they were typed for; end of file is no.                          *)
Line(j, for, yes) ==
  /\ ahead > 0 <=> for = "ahead"
  /\ for = "answer" => ~yes \/ kind[panel] = "wanted"
  /\ for = "chat" => pc = "idle"
  /\ ReadLine
  /\ took' = [took EXCEPT ![j] = for]
  /\ UNCHANGED <<turnVars, pc, callVars, results, panel>>

(* Mutant of Answer: a call that Dad denied keeps the terminal.              *)
AnswerKeepsTerminal(j) ==
  /\ job[j] = "answer"
  /\ \E for \in {"ahead", "answer", "chat"}, yes \in BOOLEAN :
       /\ Line(j, for, yes)
       /\ job' = [job EXCEPT ![j] = IF yes THEN "run" ELSE "refused"]
       /\ asking' = IF yes THEN 0 ELSE asking

(* Mutant of Answer: whatever Dad types is a yes.                            *)
AnswerYes(j) ==
  /\ job[j] = "answer"
  /\ asking' = 0
  /\ \E for \in {"ahead", "answer", "chat"}, yes \in BOOLEAN : Line(j, for, yes)
  /\ job' = [job EXCEPT ![j] = "run"]

(* ask_permission has a line, whatever it was for.                           *)
Answer(j) ==
  /\ job[j] = "answer"
  /\ asking' = 0
  /\ \E for \in {"ahead", "answer", "chat"}, yes \in BOOLEAN :
       /\ Line(j, for, yes)
       /\ job' = [job EXCEPT ![j] = IF yes THEN "run" ELSE "refused"]

(* The tool returns or raises, which execute() turns into a text; or it      *)
(* never does: the timeout given to execute() is not used.                   *)
Run(j) ==
  /\ job[j] = "run"
  /\ \/ job' = [job EXCEPT ![j] = "done"]
     \/ job' = [job EXCEPT ![j] = "hung"]
  /\ UNCHANGED <<turnVars, pc, callVars, results, panel, asking, lineVars>>

ToolStep(j) == \/ StartQueued(j) \/ Start(j) \/ ShowPanel(j) \/ Prompt(j)
               \/ Answer(j) \/ Run(j)

-----------------------------------------------------------------------------
(* Mutant of Collect: results are kept in the order they arrive.             *)
CollectAsTheyCome ==
  /\ pc = "collect"
  /\ \E i, k \in DOMAIN batch :
       /\ job[batch[i]] \in Finished /\ \A s \in DOMAIN batch : results[s] # batch[i]
       /\ results[k] = 0 /\ \A s \in 1 .. k - 1 : results[s] # 0
       /\ results' = [results EXCEPT ![k] = batch[i]]
  /\ UNCHANGED <<turnVars, pc, job, callVars, panel, asking, lineVars>>

(* _execute_tools_parallel takes a completed future and fills its slot.      *)
Collect ==
  /\ pc = "collect"
  /\ \E i \in DOMAIN batch :
       /\ job[batch[i]] \in Finished /\ results[i] = 0
       /\ results' = [results EXCEPT ![i] = batch[i]]
  /\ UNCHANGED <<turnVars, pc, job, callVars, panel, asking, lineVars>>

(* Mutant of TimeOut: it is caught, and the results at hand are used.        *)
TimeOutCaught ==
  /\ pc = "collect"
  /\ \E i \in DOMAIN batch : job[batch[i]] \notin Finished
  /\ pc' = "chat"
  /\ UNCHANGED <<turnVars, job, callVars, results, panel, asking, lineVars>>

(* as_completed waited TOOL_TIMEOUT + 2 seconds: its TimeoutError leaves     *)
(* think_with_tools, and the turn.                                           *)
TimeOut ==
  /\ pc = "collect"
  /\ \E i \in DOMAIN batch : job[batch[i]] \notin Finished
  /\ EndTurn("raised")
  /\ UNCHANGED iter

(* All results are appended to the messages, and the model is asked again.   *)
Collected ==
  /\ pc = "collect"
  /\ \A i \in DOMAIN batch : results[i] # 0
  /\ pc' = "chat"
  /\ UNCHANGED <<turnVars, job, callVars, results, panel, asking, lineVars>>

(* _execute_tools_sequential, with the one call it is given.                 *)
SingleDone ==
  /\ pc = "single" /\ job[batch[1]] \in Finished
  /\ results' = batch
  /\ pc' = "chat"
  /\ UNCHANGED <<turnVars, job, callVars, panel, asking, lineVars>>

Brain == \/ Think \/ Reply \/ ChatFails \/ MaxIterationsReached
         \/ (\E n \in 1 .. MaxCalls : CallTools(n))
         \/ Collect \/ TimeOut \/ Collected \/ SingleDone

Next == Brain \/ OtherLine \/ TypeAhead \/ \E j \in Jobs : ToolStep(j)

(* The model answers, Dad answers and threads run; as_completed times out.   *)
Spec == /\ Init /\ [][Next]_vars
        /\ WF_vars(Brain)
        /\ \A j \in Jobs : WF_vars(ToolStep(j))

-----------------------------------------------------------------------------
(* brain.py:418-431: when the model is asked again, every tool call of its   *)
(* last response has its own result, in its own place, whatever the order in *)
(* which the pool finished them.                                             *)
OwnResults == pc = "chat" => results = batch

(* brain.py:384-400: a turn that has given its answer has no tool call still *)
(* waiting, asking or running.                                               *)
QuietAfterAnswer ==
  \A j \in Jobs : job[j] # "unused" /\ ended[owner[j]] \in {"reply", "fallback"}
                    => job[j] \in Finished

(* brain.py:333, "tools can't hang SON indefinitely": the pool and the       *)
(* terminal serve the calls they are given, those of raised turns included,  *)
(* and every turn ends, but for one whose single call never returns.         *)
TurnEnds ==
  pc # "idle" ~> pc = "idle" \/ (pc = "single" /\ job[batch[1]] = "hung")

(* action_executor.py:109-131, ui.py:426: a call that Dad would deny runs    *)
(* only if he meant his yes for another one he was asked about; or if its    *)
(* prompt, left over from a turn that raised, took a line of his for the     *)
(* main prompt; or if it took a line he had typed before he was asked.       *)
UnwantedOnlyByMixUp ==
  \A j \in Jobs :
    kind[j] = "unwanted" /\ job[j] \in {"run", "done", "hung"} =>
      \/ /\ took[j] = "answer"
         /\ \E i \in Jobs \ {j} :
              /\ kind[i] = "wanted"
              /\ job[i] \in {"prompt", "answer", "run", "hung"} \cup Finished
      \/ took[j] = "chat" /\ ended[owner[j]] = "raised"
      \/ took[j] = "ahead"

=============================================================================
