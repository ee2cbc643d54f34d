-------------------------------- MODULE Gui --------------------------------
(***************************************************************************)
(* gui/main_window.py with the GUI's Brain (core/brain.py): Dad types      *)
(* prompts or presses the microphone button; each request runs in a thread *)
(* of the Pipeline's I/O pool (core/pipeline.py); the threads talk to the  *)
(* window only through Qt signals, which the GUI thread delivers one at a  *)
(* time in the order they were emitted.                                    *)
(*                                                                         *)
(* The requests share one Brain.  Its history is a bounded deque: it is    *)
(* read entry by entry (an append by another thread meanwhile makes the    *)
(* iteration raise RuntimeError) and written by two appends.  A tool call  *)
(* of a turn may ask Dad: a pool thread then opens a modal dialog, which   *)
(* Qt allows only to the GUI thread, and waits for it.                     *)
(***************************************************************************)
EXTENDS Naturals, Sequences, FiniteSets

CONSTANTS Typed,         \* prompts typed into the chat view
          Spoken,        \* presses of the microphone button
          Workers,       \* Pipeline.IO_WORKERS
          MaxHistory,    \* maxlen of Brain._history
          MaxToolTurns,  \* Config.MAX_TOOL_TURNS
          MaxCalls       \* bound on the tool calls of one response

ASSUME RequestsAssumption == Typed \cap Spoken = {} /\ IsFiniteSet(Typed \cup Spoken)
ASSUME BoundsAssumption == /\ Workers \in Nat \ {0}
                           /\ MaxToolTurns \in Nat \ {0} /\ MaxCalls \in Nat \ {0}
                           /\ MaxHistory \in Nat \ {0} /\ MaxHistory % 2 = 0

Requests == Typed \cup Spoken

VARIABLES pc,        \* pc[r]: where the task of request r is
          tasks,     \* the pool's queue
          turns,     \* turns[r]: chat calls of r's tool loop
          calls,     \* calls[r]: tool calls left of its latest response
          history,   \* Brain._history
          torn,      \* readers whose deque was changed under them
          mixed,     \* history: two requests were between their two appends
          inbox,     \* signals emitted by pool threads, not yet delivered
          orb,       \* the state the orb shows
          chat,      \* the chat view, as <<sender, request>>
          listening, \* SystemState.is_listening
          lost,      \* history: a voice task ended with an exception
          up         \* the process runs

vars == <<pc, tasks, turns, history, torn, mixed, inbox, orb, chat, listening,
          lost, calls, up>>
loop == <<turns, calls>>
brain == <<loop, history, torn, mixed>>
window == <<orb, chat>>

Points == {"new", "queued", "record", "transcribe", "think", "build", "chat",
           "dialog", "tool", "save", "savereply", "done"}
Busy(r) == pc[r] \notin {"new", "queued", "done"}
OrbStates == {"idle", "listening", "thinking"}
Senders == {"Dad", "You (Voice)", "SON", "Error"}
Exchange == [req : Requests, role : {"user", "assistant"}]
Signals == [show : OrbStates] \cup [sender : Senders, req : Requests]

Goto(r, p) == pc' = [pc EXCEPT ![r] = p]
Emit(s) == inbox' = Append(inbox, s)
Show(state) == [show |-> state]
Response(sender, r) == [sender |-> sender, req |-> r]

-----------------------------------------------------------------------------
Init ==
  /\ pc = [r \in Requests |-> "new"]
  /\ tasks = <<>>
  /\ turns = [r \in Requests |-> 0] /\ calls = [r \in Requests |-> 0]
  /\ history = <<>>
  /\ torn = {}
  /\ mixed = FALSE
  /\ inbox = <<>>
  /\ orb = "idle"
  /\ chat = <<>>
  /\ listening = FALSE
  /\ lost = FALSE /\ up = TRUE

(* The GUI thread: a typed prompt, the microphone button, a delivered signal. *)
OnUserPrompt(r) ==
  /\ r \in Typed /\ pc[r] = "new"
  /\ chat' = Append(chat, <<"Dad", r>>)
  /\ orb' = "thinking"
  /\ tasks' = Append(tasks, r)
  /\ Goto(r, "queued")
  /\ UNCHANGED <<brain, inbox, listening, lost>>

OnVoiceToggle(r) ==
  /\ r \in Spoken /\ pc[r] = "new"
  /\ orb' = "listening"
  /\ tasks' = Append(tasks, r)
  /\ Goto(r, "queued")
  /\ UNCHANGED <<brain, inbox, chat, listening, lost>>

(* Mutant of Deliver: a response leaves the orb as it is. *)
DeliverTextOnly ==
  /\ inbox # <<>>
  /\ LET s == Head(inbox)
     IN  IF "show" \in DOMAIN s
         THEN orb' = s.show /\ UNCHANGED chat
         ELSE chat' = Append(chat, <<s.sender, s.req>>) /\ UNCHANGED orb
  /\ inbox' = Tail(inbox)
  /\ UNCHANGED <<pc, tasks, brain, listening, lost>>

Deliver ==
  /\ inbox # <<>>
  /\ LET s == Head(inbox)
     IN  IF "show" \in DOMAIN s
         THEN orb' = s.show /\ UNCHANGED chat
         ELSE orb' = "idle" /\ chat' = Append(chat, <<s.sender, s.req>>)
  /\ inbox' = Tail(inbox)
  /\ UNCHANGED <<pc, tasks, brain, listening, lost>>

-----------------------------------------------------------------------------
(* A free pool thread takes the oldest task. *)
StartTask ==
  /\ tasks # <<>>
  /\ Cardinality({r \in Requests : Busy(r)}) < Workers
  /\ LET r == Head(tasks)
     IN  /\ Goto(r, IF r \in Typed THEN "think" ELSE "record")
         /\ listening' = (listening \/ r \in Spoken)
  /\ tasks' = Tail(tasks)
  /\ UNCHANGED <<brain, inbox, window, lost>>

(* record_vad(): speech, nothing usable, or an exception of the audio device *)
(* (kept in the Future, which nobody reads).  The finally clause clears      *)
(* is_listening whoever else is recording.                                   *)
RecordingEnds(r) ==
  /\ pc[r] = "record"
  /\ listening' = FALSE
  /\ \/ Emit(Show("thinking")) /\ Goto(r, "transcribe") /\ UNCHANGED lost
     \/ Emit(Show("idle")) /\ Goto(r, "done") /\ UNCHANGED lost
     \/ Goto(r, "done") /\ lost' = TRUE /\ UNCHANGED inbox
  /\ UNCHANGED <<tasks, brain, window>>

(* Mutant of Transcribe: the question is not emitted before the thinking. *)
TranscribeSilently(r) ==
  /\ pc[r] = "transcribe"
  /\ Goto(r, "think")
  /\ UNCHANGED <<tasks, brain, window, inbox, listening, lost>>

Transcribe(r) ==
  /\ pc[r] = "transcribe"
  /\ \/ Emit(Response("You (Voice)", r)) /\ Goto(r, "think") /\ UNCHANGED lost
     \/ Emit(Show("idle")) /\ Goto(r, "done") /\ UNCHANGED lost
     \/ Goto(r, "done") /\ lost' = TRUE /\ UNCHANGED inbox
  /\ UNCHANGED <<tasks, brain, window, listening>>

Answer(r, sender) == Emit(Response(sender, r)) /\ Goto(r, "done")

(* _build_messages: the history is read between these two steps. *)
BeginBuild(r) ==
  /\ pc[r] = "think"
  /\ Goto(r, "build")
  /\ UNCHANGED <<tasks, brain, inbox, window, listening, lost>>

(* Mutant of EndBuild: the exception of a changed deque is lost. *)
EndBuildSwallows(r) ==
  /\ pc[r] = "build"
  /\ Goto(r, IF r \in torn THEN "done" ELSE "chat")
  /\ torn' = torn \ {r}
  /\ UNCHANGED <<tasks, loop, history, mixed, inbox, window, listening, lost>>

EndBuild(r) ==
  /\ pc[r] = "build"
  /\ IF r \in torn
     THEN Answer(r, "Error")
     ELSE Goto(r, "chat") /\ UNCHANGED inbox
  /\ torn' = torn \ {r}
  /\ UNCHANGED <<tasks, loop, history, mixed, window, listening, lost>>

(* One iteration of the tool loop: a reply, tool calls, or no connection,    *)
(* which is answered without being saved.                                    *)
LoopEnds(r) == turns' = [turns EXCEPT ![r] = 0] /\ calls' = [calls EXCEPT ![r] = 0]

(* dispatch_tool: a sensitive or critical call asks Dad before it runs.      *)
Dispatch(r) == Goto(r, "dialog") \/ Goto(r, "tool")

Chat(r) ==
  /\ pc[r] = "chat"
  /\ \/ Goto(r, "save") /\ LoopEnds(r) /\ UNCHANGED inbox
     \/ Answer(r, "SON") /\ LoopEnds(r)
     \/ /\ turns' = [turns EXCEPT ![r] = @ + 1]
        /\ \E n \in 1 .. MaxCalls : calls' = [calls EXCEPT ![r] = n]
        /\ Dispatch(r) /\ UNCHANGED inbox
  /\ UNCHANGED <<tasks, history, torn, mixed, window, listening, lost>>

(* A call has its text, an error's or a refusal's included: the next one; or *)
(* the model is asked again; or, after the last iteration, a fixed reply is  *)
(* saved.                                                                    *)
CallDone(r) ==
  /\ \/ /\ calls[r] > 1
        /\ calls' = [calls EXCEPT ![r] = @ - 1] /\ UNCHANGED turns
        /\ Dispatch(r)
     \/ /\ calls[r] = 1 /\ turns[r] < MaxToolTurns
        /\ calls' = [calls EXCEPT ![r] = 0] /\ UNCHANGED turns
        /\ Goto(r, "chat")
     \/ /\ calls[r] = 1 /\ turns[r] = MaxToolTurns
        /\ LoopEnds(r)
        /\ Goto(r, "save")
  /\ UNCHANGED inbox

(* security_confirm: Dad says yes or no, or Qt raises.  A dialog that is     *)
(* never shown, or never answered, stays.                                    *)
DialogEnds(r) ==
  /\ pc[r] = "dialog"
  /\ \/ Goto(r, "tool") /\ UNCHANGED <<loop, inbox>>
     \/ CallDone(r)
     \/ Answer(r, "Error") /\ LoopEnds(r)
  /\ UNCHANGED <<tasks, history, torn, mixed, window, listening, lost>>

(* The tool returns or raises, which the registry turns into a text.  One    *)
(* without a time limit (git_commit waits for the hooks) may stay.           *)
ToolEnds(r) ==
  /\ pc[r] = "tool"
  /\ CallDone(r)
  /\ UNCHANGED <<tasks, history, torn, mixed, window, listening, lost>>

(* A window made by another thread than Qt's: the process may die of it.     *)
DialogAborts(r) ==
  /\ pc[r] = "dialog"
  /\ up' = FALSE
  /\ UNCHANGED <<pc, tasks, brain, inbox, window, listening, lost>>

(* Mutant of Remember: maxlen one less. *)
RememberOdd(e) ==
  /\ history' = IF Len(history) < MaxHistory - 1 THEN Append(history, e)
                ELSE Append(Tail(history), e)
  /\ torn' = torn \cup {r \in Requests : pc[r] = "build"}

(* deque.append with maxlen: the oldest entry goes; iterators are invalid. *)
Remember(e) ==
  /\ history' = IF Len(history) < MaxHistory THEN Append(history, e)
                ELSE Append(Tail(history), e)
  /\ torn' = torn \cup {r \in Requests : pc[r] = "build"}

SaveUser(r) ==
  /\ pc[r] = "save"
  /\ Remember([req |-> r, role |-> "user"])
  /\ mixed' = (mixed \/ \E s \in Requests : pc[s] = "savereply")
  /\ Goto(r, "savereply")
  /\ UNCHANGED <<tasks, loop, inbox, window, listening, lost>>

SaveReply(r) ==
  /\ pc[r] = "savereply"
  /\ Remember([req |-> r, role |-> "assistant"])
  /\ Answer(r, "SON")
  /\ UNCHANGED <<tasks, loop, mixed, window, listening, lost>>

Think(r) == \/ BeginBuild(r) \/ EndBuild(r) \/ Chat(r)
            \/ SaveUser(r) \/ SaveReply(r)
Waits(r) == DialogEnds(r) \/ ToolEnds(r)
Works(r) == RecordingEnds(r) \/ Transcribe(r) \/ Think(r)
Task(r) == Works(r) \/ Waits(r)

Step == \/ \E r \in Requests : OnUserPrompt(r) \/ OnVoiceToggle(r) \/ Task(r)
        \/ Deliver
        \/ StartTask

While(step) == up /\ step /\ up' = up
Next == While(Step) \/ (up /\ \E r \in Requests : DialogAborts(r))

(* Pool threads and the Qt event loop keep running; recording is bounded by  *)
(* VAD_MAX_RECORD_DURATION; Ollama answers or refuses.  Dad owes nothing,    *)
(* neither a prompt nor an answer to a dialog, and a tool need not return.   *)
Spec == /\ Init /\ [][Next]_vars
        /\ WF_vars(While(StartTask)) /\ WF_vars(While(Deliver))
        /\ \A r \in Requests : WF_vars(While(Works(r)))

-----------------------------------------------------------------------------
Quiet == inbox = <<>> /\ \A r \in Requests : pc[r] \in {"new", "done"}

(* When no request is in progress the orb is idle, however the requests and  *)
(* their signals overlapped -- unless a voice task raised, which main_window *)
(* does not notice.                                                          *)
OrbIdleWhenQuiet == Quiet /\ ~lost => orb = "idle"

(* In the chat view a request's answer comes once, after its question.       *)
AnswerAfterQuestion ==
  \A i \in DOMAIN chat : chat[i][1] \in {"SON", "Error"} =>
    /\ \E j \in 1 .. i - 1 : /\ chat[j][2] = chat[i][2]
                             /\ chat[j][1] \in {"Dad", "You (Voice)"}
    /\ \A j \in DOMAIN chat : chat[j][2] = chat[i][2] => j <= i

Saving == \E r \in Requests : pc[r] = "savereply"

(* As long as no two requests save at the same time, the history consists of *)
(* whole exchanges, also after the deque drops its oldest entries.           *)
WholeExchanges ==
  ~mixed /\ ~Saving =>
    \A i \in DOMAIN history :
      IF i % 2 = 1
      THEN /\ history[i].role = "user"
           /\ i < Len(history) /\ history[i + 1].req = history[i].req
      ELSE history[i].role = "assistant"

Answered(r) == \E i \in DOMAIN chat : chat[i][2] = r /\ chat[i][1] \in {"SON", "Error"}

(* From some time on r, or every thread of the pool, waits for a dialog or a *)
(* tool; or the process has died.                                            *)
Waiting == {s \in Requests : pc[s] \in {"dialog", "tool"}}
Stuck(r) == r \in Waiting \/ Cardinality(Waiting) = Workers \/ ~up

(* A typed prompt is answered in the chat view, unless a dialog or a tool    *)
(* keeps it, or the whole pool, for ever: a torn history read, a full pool,  *)
(* an unreachable Ollama, a dialog that raises, and one thread of the pool   *)
(* that never comes back do not lose the others.                             *)
PromptAnswered ==
  \A r \in Typed : []<>~Stuck(r) => (pc[r] = "queued" ~> Answered(r))
=============================================================================
