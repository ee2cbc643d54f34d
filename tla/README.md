# SON, specified

TLA+ specifications of SON, a voice-driven personal assistant in Python: models
of its concurrent and stateful parts, TLC runs that check them on small
instances, and TLAPS proofs, for every value of the constants, of all the safety
properties those runs check. `PROJECT.json` lists the parts, the runs, the source lines each
definition stands for (`map`), the hazards, the findings and the theorems.

To check a module: `tlc -workers 2 -config <run>.cfg <module>`. To check the
proofs: `tlapm CameraProofs.tla` and so on.

Paths below are relative to the repository's root.

## 1. The system

SON is two programs over the same machine. `son.py` is the voice and terminal
assistant, `main.py` with the `gui/` package a PySide6 window with a brain of
its own (`core/brain.py`). Both talk to a local Ollama server, to the sound
card, to the camera and to files.

| Component | State it keeps | Operations | Talks to |
|---|---|---|---|
| Ring buffer (`audio.py`) | slots, read and write index, event | `write`, `read`, `clear` | PortAudio's callback thread writes, the recording loop reads |
| Recording (`audio.py`) | pre-roll, chunks kept, silence start | `record_vad`, `stop_recording` | reads the ring buffer; called by `son.py` and the voice agent |
| Wake word (`wakeword.py`) | `_running`, listening thread, stream | `start`, `stop`, `pause`, `resume` | calls `Son._on_wake_detected` from a thread of its own |
| Conversation loop (`son.py`) | `_running`, `_wake_event`, HUD state | one turn after another, by voice or keyboard | all the parts of the terminal program |
| Speech (`tts.py`) | `_is_speaking`; per call a queue and two threads | `speak_streamed`, `stop` | called by the loop; plays on the sound card |
| Command handler, router (`commands.py`, `core/intent_router.py`) | two ordered lists of patterns | `handle`, `classify` | tools, memory, camera |
| Brain (`brain.py`) | history deque, tool pool | `think`, `think_with_tools` | Ollama, memory, executor |
| Executor and prompt (`core/action_executor.py`, `ui.py`) | the terminal | `execute`, `ask_permission` | tools; Dad, at the keyboard |
| Semantic memory (`memory/semantic_memory.py`) | two Chroma collections, query cache | `store_*`, `recall`, `forget`, `clear` | embedding service, brain, commands |
| Camera (`vision/camera/capture.py`) | device, privacy flag, grabber thread, latest frame | `start`, `stop`, `pause`, `resume`, `get_frame`, `capture_single_frame` | commands, vision events |
| Vision events (`vision/camera/events.py`) | count and names last seen | polls | camera, detector, recogniser, structured memory |
| GUI (`gui/main_window.py`, `core/brain.py`, `core/pipeline.py`, `agents/voice_agent.py`) | orb, chat view, history, pool queue | prompts, microphone, queued signals | Ollama, plugins |
| Ollama client (`core/ollama_client.py`) | a verdict on the server's health and its time | `chat`, `chat_stream`, `is_healthy` | Ollama; called by the brain |
| Caches (`core/cache.py`) and their users (`embedding.py`, `codebase.py`) | LRU maps under a lock | `get`, `put`, `invalidate` | Ollama for vectors, the disk for code |
| Routines (`tools/automation.py`) | a dictionary and its JSON file | create, delete, run | tool pool, commands |
| Tools and plugins (`tools/`, `plugins/`, `core/router.py`) | none of their own: the machine | some 50 tools | Windows, files, containers |
| Pollers (`core/health.py`, `core/state.py`, `core/gpu_manager.py`) | statuses, a summary | poll, read | the services; dashboards and the GUI |
| IPC server (`ipc/`) | clients, event loop | start, stop, broadcast | Godot front end |

What makes the system hard:

- **Threads of unlocked reads.** The camera's grabber and the listening threads
  look at flags that other threads change under a lock, or under none.
- **Callbacks.** Audio arrives in a callback, a wake word in a thread made for
  it, GUI results as queued signals.
- **Timeouts that give up on work that goes on.** `audio_queue.put(timeout=1)`,
  `as_completed(timeout=...)`, `join(timeout=1)`.
- **Pools.** Four workers for tool calls, eight for GUI requests, all on one
  shared brain or one shared terminal.
- **Two readers of one terminal.** A permission prompt of a turn that has raised
  stays in `input()` while the main loop prompts for the next line.
- **Failure in the middle.** Nearly everything is wrapped in `try`; what a
  handler leaves undone is state that the next turn starts with.
- **A crash between two steps.** `config/routines.json` is emptied and then
  written; rows and processes started outlive the program.
- **A check, and a use some time later.** The health verdict, the LRU caches and
  the chunk cache keep what was true when it was asked for.
- **Two lists that must agree.** A line is routed by one list of patterns and
  executed by another.

What correctness means, part by part: the recording loses and repeats no audio
and ends; a paused camera is dark and captures nothing; turns come from wake
words, and SON can hear the next one; text is spoken in order and calls
return; tool results reach the calls that asked for them and nothing Dad would
deny runs; GUI state ends idle and histories keep whole exchanges; a command
does what it says and leaves the memory alone (one does not, section 6); what the
vision loop believes is what it has recorded; a routine that was saved is there after a restart, and
what a tool answered about the machine is so; a cache never gives one text what
belongs to another; what is said of a service has been true lately.
`PROJECT.json` ties each to the lines it depends on
(`hazards`).

## 2. The modules

| Module | Models | One step is |
|---|---|---|
| `Camera` | `vision/camera/capture.py` | a public method (they run under an `RLock`); for the grabber, each read of a field outside the lock |
| `RingBuffer` | `audio.py`, class `RingBuffer` | `write` up to its unlock, the `set()` after it, a `wait`, a locked `read`, a `clear` |
| `Recorder` (extends `RingBuffer`) | `audio.py`, `record_vad` | one chunk taken from the ring and judged; opening and closing |
| `WakeWord` | `wakeword.py` | a poll of a listening thread, a stream callback, a public method |
| `VoiceLoop` (extends `WakeWord`) | `son.py`, wake-word mode | one call of a turn: wait, record, transcribe, respond, speak |
| `Speech` | what `speak_streamed` and `stop` promise, without threads or queue | a sentence starts, a call begins, is stopped, breaks, returns |
| `SpeechQueue` (implements `Speech`) | `tts.py`, `speak_streamed` and `stop` | an operation of either thread on the flag, the queue or the sound device |
| `ToolTurn` | `brain.py` `think_with_tools`, `core/action_executor.py`, the two readers of the terminal: `ui.py` `ask_permission` and `get_text_input` | a chat call, a submission, a panel, a line typed ahead or read from the terminal, the end of a call |
| `Gui` | `gui/main_window.py`, `core/brain.py`, `core/router.py`, `core/pipeline.py`, `agents/voice_agent.py` | a slot on the GUI thread, a stage of a pool task, a tool call, its dialog and its end, an entry of the history read or appended |
| `Routing` | the ordered patterns of `commands.py` and `core/intent_router.py` | no state: which handler and which category a line gets |
| `Assistant` (extends `Routing`) | `son.py` keyboard mode, `commands.py`, `brain.py` context and history, `memory/semantic_memory.py` | one line, from input to answer |
| `VisionEvents` | `vision/camera/events.py`, with detection, recognition and `log_event` | a stage of a poll, and each row written |
| `Pc` | what the tools of `tools/windows_control.py`, `tools/docker_control.py` and `plugins/` do to the machine | no state: an operator gives the outcomes of a tool |
| `ToolTable` | the tables of tools with their security levels, both registries, and what has to be confirmed | no state |
| `Routines` (extends `Pc`, `ToolTable`) | `tools/automation.py`; calls of the model, of commands, of the GUI and of a routine's steps | a tool call, those of a turn side by side; each of `set_volume`'s two calls of the device; each stage of a save; a step of a routine; start and crash |
| `LruCache` | `core/cache.py`, class `LRUCache` | no state: one operator per method, which runs under the lock |
| `Chunks` | `codebase.py`'s and `native/son_native.py`'s splitters | no state: pure functions on a text's line lengths |
| `Caches` (extends `LruCache`, `Chunks`) | `embedding.py`, `CodeChunkCache` and `_chunk_file` | a look-up, a request, a put; each look at the file |
| `OllamaClient` | `core/ollama_client.py` under `brain.py`'s `think` and `think_stream` | an attempt, the start of a check, its answer, its record |
| `Services` (extends `OllamaClient`) | `core/health.py`, `core/state.py`, `core/gpu_manager.py` | one check of one service, one stage of a tick |

`MCCamera`, `MCVoiceLoop`, `MCAssistant`, `MCRoutines` and `MCCaches` only give TLC
the thread identities, lines, calls and texts. `MCServices` also lets a behaviour
move either the client of Ollama or its watchers: neither reads the other's
state, so their interleavings say nothing.

The theorems are in modules of their own, each about the parts that belong
together:

| Proofs | About |
|---|---|
| `CameraProofs` | `Camera` |
| `ListeningProofs` | `RingBuffer`, `Recorder`, `WakeWord` and `VoiceLoop`: from the sound card to a turn |
| `SpeechQueueProofs` | `SpeechQueue` and its refinement of `Speech` |
| `BrainProofs` | `Routing`, `Assistant` and `ToolTurn`: what becomes of a line of Dad's |
| `GuiProofs` | `Gui` |
| `VisionEventsProofs` | `VisionEvents` |
| `RoutinesProofs` | `Pc`, `ToolTable` and `Routines` |
| `CachesProofs` | `LruCache`, `Chunks`, `Caches` and `OllamaClient`: what is kept instead of asked for anew |

The parts are composed where they share state: `Recorder` runs on the ring and
its callback, `VoiceLoop` on the listening threads, `Assistant` on the routing
lists and the memory. Elsewhere one module has the *outcomes* of another: in
`VoiceLoop` a recording returns audio, nothing, or raises, and in `Gui` so does a
transcription. `Caches` uses one `LruCache` for vectors or for chunks, which are
two objects of the code that share nothing. `VisionEvents` takes from `Camera` that
a frame shows the room or is missing.

`Speech` is an abstract specification and `SpeechQueue!ImplementsSpeech` the
statement that the threads and the queue implement it: `INSTANCE Speech` with
`current` the caller, `spoken` the sentences played, and `broken` the calls that
broke or waited too long for room. `stopped`, `before` and `ended` keep their
names. What `Speech` says covers the order of the sentences, one call at a
time, at most one more sentence after `stop()`, and that every call returns.

### How data is abstracted

- A **frame** of `Camera` is the number of `pause()` calls before its capture:
  that is what tells a frame taken during a pause from one taken before.
- A **chunk** of audio is its number in the stream. The adaptive threshold comes
  down to whether the chunk is loud, the clock to whether the silence has lasted
  long enough; both are free choices. Durations are counted in chunks.
- A **sentence** and an **exchange** are their numbers; a **tool call** is safe,
  wanted (Dad would say yes) or unwanted (Dad would say no).
- A **line** of Dad's is a pair of a phrase and an object. `Routing` keeps every
  pattern with its place in the order, as the set of pairs it matches, because
  shadowing depends on the order. `MCAssistant` lists the lines used: those of
  the help text, synonyms only one list knows, and questions.
- A **similarity search** returns any choice of `MaxResults` stored exchanges.
- The **machine** of `Pc` is a mixer (`pycaw`, or `nircmd` where it cannot be imported),
  a volume, whether there is sound, a brightness, what `shutdown.exe` has been told and
  what it has done, the clipboard, and which processes, files and containers there
  are. A file's content is a number. A tool is its name and one argument.
- A **tool** acts in one step, whose outcomes include those of a tool that stops half way:
  some files written over, some processes closed. `set_volume` alone takes two, because
  what another call does between them shows.
- A **routine** is the number of its version; `script` keeps the steps of each. Its
  **name** is told apart from the same name in lower case (`Lower`), which is how a
  command of Dad's arrives.
- A **text** to embed is its number, its vector the number marked. A **file** to split is
  the sequence of its lines' lengths, a **chunk** its first and last line.
- The **clock** of `OllamaClient` counts a unit far below the 30 seconds a verdict
  is kept and far above a step that waits for nobody: time does not pass between
  hearing an answer and taking the lock to record it, nor between finding the verdict
  fresh and returning it. It may pass while Ollama is being asked.
- History variables, marked in each module, record what happened for the
  properties; no guard reads one, save the counters that bound a run.

## 3. The runs

Eleven runs must find no error; the one marked *violated* must find the
property it checks broken, which states what the repository
says of itself and the code does otherwise (section 6).

| Run | Instance | Properties | What it shows |
|---|---|---|---|
| `camera` | 2 grabber threads, 3 pauses | `PausedIsDark`, `OneGrabber`, `PausedCapturesNothing`, `PolledStandby` | Whatever clients do between two unlocked reads of the grabber, a paused camera is closed and no frame taken during the pause is kept or served; standby never leaves two grabbers on a device; a polled idle device is released |
| `recorder` | ring of 3, pre-roll 2, at most 5 chunks, 2 recordings, 12 chunks | `NoLostSignal`, `UnreadIntact`, `KeptContiguous`, `SpeechNotClipped`, `RecordingEnds` | No wakeup is lost although the event is set outside the lock; unless the reader is lapped, what is kept is contiguous and starts with the pre-roll |
| `voice` | 6 listening threads, 2 utterances, 2 turns | `TurnsAreDetected`, `ReadyWhenWaiting`, `WakeAnswered` | There are never more turns than detections; SON waits with detection on and the HUD idle unless the turn before raised; a detection is answered |
| `speech` | 2 calls of 4 sentences, queue of 2 | `ImplementsSpeech`, `SynthesisEnds` | Under timeouts, exceptions in either thread and `stop()` at any point, the two threads and the queue keep the promise of `Speech`; the synthesis thread ends, save when its call was stopped or broke |
| `tools` | 2 turns, 3 calls, pool of 2, 2 iterations, 1 line typed ahead | `OwnResults`, `QuietAfterAnswer`, `UnwantedOnlyByMixUp`, `TurnEnds` | Results reach their calls in whatever order they finish; an answered turn leaves nothing running; an action Dad would deny runs only by one of three mix-ups of the terminal; a turn ends even if calls hang, save a single call that hangs |
| `gui` | 2 typed prompts, 1 spoken, pool of 2, history of 4, 2 rounds of tools, 2 calls in each | `OrbIdleWhenQuiet`, `AnswerAfterQuestion`, `WholeExchanges`, `PromptAnswered` | Requests that share a brain and an orb end with an idle orb; an answer comes after its question; the history keeps whole exchanges; a typed prompt is answered, unless its own dialog or tool or those of the whole pool never end, or the process dies |
| `assistant` | 48 lines, 2 results, history of 2, 3 exchanges | `StateFollowsRequests`, `HelpIsTrue`, `CommandsBypassMemory`, `OnlyRepeatsAreStale` | Facts and camera follow what was asked; the help text is true of both lists; commands do not touch the memory, but for the look at the screen, which searches it; only a repeated search sees a stale cache |
| `vision` | 3 people, 2 enrolled, 3 moves, 2 commands, 2 faults, 1 restart | `RowsTellAll`, `RoomReported` | What the loop takes as known is in the rows, through failures and a restart; whoever stays is reported |
| `routines` | 2 names, one the other with a capital, 2 workers and the keyboard, 11 calls, 2 tools, 2 edits, 1 crash | `FileFollowsMemory`, `CreatedIsKept`, `MissedOnlyMidSave`, `AnswersHold`, `NothingLostUnasked` | The file says what the engine holds, and what was created is there after a restart, unless a save was cut or two overlapped; what tools answered about volume and power holds, with the exceptions listed below; nothing is lost without a word of Dad's, save by 14 tools the tables let free |
| `routines_confirm` (violated) | the same, no crash, no calls but a routine's | `AlwaysConfirmed` | A routine that the model creates and runs deletes a path without a question |
| `caches` | 2 threads, 3 jobs; 3 lists of 3 texts, or 85 files and 2 edits; room for 2 vectors | `SizeIsExact`, `OwnVectors`, `FreshUnlessRaced`, `ChunksAreWhole` | Sizes stay exact whatever two threads put twice; every text gets its own vector however the request fails; old chunks are served only after an edit between reading and put; both splitters leave no line out |
| `services` | 1 turn at a time, the start-up check and 1 caller, 3 tries, a limit of 2, time to 2, Ollama changes twice, 1 fault | `HealthAnswersFresh`, `EveryTurnAnswers`, `WatchersSettle` | A health answer was true within the limit, whoever wrote the verdict; every turn ends in words, in the fallback text after three refusals, or silent for a stream refused at its first chunk; dashboards come to tell the truth once services stay as they are, in the cases the code can tell apart |

Types (`TypeOK`, `RecTypeOK`) are stated in the modules and, where the proofs need
them, in the proof modules; all but those of the watchers in `Services` are proved.
Every property of a passing run has a mutant in `PROJECT.json`: a
plausible slip in the code it is about, under which it fails.

Some properties have a premise, and it matters. `KeptContiguous` and
`SpeechNotClipped` say nothing of a recording whose reader was lapped, because a
lapped reader does get samples out of order (section 6). `ReadyWhenWaiting`
excepts turns that raised, `OrbIdleWhenQuiet` a voice task that raised outside
any `try`, `WholeExchanges` two turns saved at the same moment, and `TurnEnds` a
single call that hangs. `CreatedIsKept` and `MissedOnlyMidSave` except saves that were
interrupted or overlapped, `MissedOnlyMidSave` also names with capitals, which Dad's
command never finds. `UnwantedOnlyByMixUp` names the three ways an action that Dad
would deny does run: a yes meant for another panel, a line for the main prompt that a
prompt of a raised turn took, and a line typed before the question. `PromptAnswered`
says nothing of a prompt whose own dialog or tool never ends, nor of the time from which
on all threads of the pool are in such, nor of a process that was aborted. `CommandsBypassMemory`
excepts the look at the screen, and lets it search for its own text only.
`AnswersHold` excepts a mute that the GUI's `set_volume` leaves, one that comes between
the two steps of another `set_volume`, what `nircmd` was told, power
commands under way together, and a schedule already pending, which outlives the next.
`FreshUnlessRaced` excepts an edit between reading and put,
`SynthesisEnds` calls that were stopped or broke, `WatchersSettle` a server that
answers with a success other than 200 and a GPU nobody can ask. Each exception is
a behaviour of the code the run does reach, and each is described below.

### Why the bounds are enough

- Threads are reused once dead. A camera's grabber and its successor need two
  identities. A run of two turns starts the listener six times at most (at the
  start, after the greeting, and after each recording and each reply), so six
  identities never keep a start waiting, however late the earlier threads
  notice their pauses.
- The device delivers at most 6 chunks in a recording (`MaxDuration + Ahead`),
  12 in two. That laps a ring of 3, and the second recording begins with the
  indices and slots the first left behind. The pre-roll (2) is shorter than a
  recording and as long as the minimum, so that the three limits meet in every
  order.
- Four sentences against a queue of 2: one playing, two waiting, and one whose
  `put` can time out. Two calls let the threads of one meet the next call.
- Three calls against two workers: one always waits for a worker. Two turns let
  calls of a raised turn hold the pool, and the terminal, when the next begins. Two
  iterations reach the iteration limit. One line typed ahead reaches a prompt of the
  turn it was typed in, a prompt left over, or the main prompt.
- Three requests against two workers queue; a history of four entries, read
  while a third exchange is appended, drops its oldest. Two calls of a round let one
  end and the next stay in its dialog.
- In `assistant` two results and three exchanges make recall choose, and a
  history of two drops an exchange.
- In `vision` a third, unenrolled person makes the count and the names differ;
  two faults allow a failed write within the poll that makes up for another.
- In `routines` two edits overlap in both orders with a crash at every stage of
  either, or are the creation of a routine and its run, which take the model two calls;
  two tool calls are what it takes for a mute to come between the two steps of a level
  and a shutdown to meet its cancellation or a restart, and a routine adds its own two.
  The default routine is cut to its kinds of step: a tool nobody registers
  (`get_news`) and an application that is opened.
- In `caches` three jobs make two threads miss the same text while a third list
  evicts it. The files are all those of up to three lines of length 1, 2, 3 and 5
  against chunks of 4 with an overlap of 2: lines below, at and above the overlap
  and the chunk.
- In `services` a limit of 2 leaves a verdict fresh for one unit of time after the
  one it was made in and stale for the next. Two changes of Ollama make a verdict
  wrong and right again; it begins up, which a change before the first check makes
  any other state. A server is up, down (or answering an error, which raises like a
  missing one), bare (it lists its models and refuses to chat), or sick (a success other
  than 200).

`CHECK_DEADLOCK FALSE` stands in every configuration but those of the camera and
the services, because those systems do stop: `exit` is said, or the bounded number
of turns, calls or lines is used up. Liveness there is stated by properties
instead. The camera and the services have no end and their runs check for deadlock.

### Fairness, and what justifies it

| Specification | Fair | Because |
|---|---|---|
| `Camera!Spec` | each grabber thread | the operating system runs threads, and `cap.read()` returns |
| `Recorder!DeviceSpec` | the loop and the callback | PortAudio calls back while a stream is open. `RecSpec` leaves this out: `read(timeout=0.2)` that times out is retried without counting time, so without a delivering device `RecordingEnds` is false |
| `VoiceLoop!LoopSpec` | Son's thread, the thread of `on_wake`, each listening thread | they run; recordings, replies and speech end (`Recorder`, `SpeechQueue`) or raise. Nobody need speak |
| `SpeechQueue!Spec` | both threads of each call, the caller's return | they run, and a sentence that plays ends. Nobody need call or stop |
| `ToolTurn!Spec` | the turn, each call | Ollama answers or refuses, an assumption about the service (the client sets no time limit on a chat call; after three refusals it falls back to a text); Dad answers a panel; `as_completed` times out. A tool may hang: that is an action, not an absence of fairness |
| `Gui!Spec` | the pool, the GUI's event loop, each task but while it is in a dialog or in a tool | as above for Ollama; a recording is cut at its maximum. Dad owes a dialog no answer, and a tool without a limit need not return; the process may be aborted, after which nothing runs |
| `VisionEvents!Spec` | the loop only | its thread runs. Restarts and commands need not happen, and failures are not fair |
| `OllamaClient!Spec` | each check, each turn | the check has a limit of three seconds; a chat call is taken to be answered or refused, as in `ToolTurn`. Nobody need ask, and time need not pass |
| `MCServices!MCSpec` | of the client as above; the monitor's loop and the telemetry's | both are threads of their own whose requests have time limits, and the sleep between ticks ends. Services need not change; measurements may fail, but not for ever (`MaxFaults`) |
| `Assistant!AssistantSpec`, `Routines!Spec`, `Caches!CachesSpec` | none | only safety is stated |

All fairness is weak: each step, once its thread can take it, stays possible
until it is taken, or until something else changes what the thread would do.

## 4. The proofs

TLC's instances are small; these hold for every value of the constants. Every
safety property of a passing run is proved. The theorems rest on the named
assumptions of the modules they are about, which every run evaluates, and on
nothing else:

| Module | Assumes |
|---|---|
| `Camera` | `ThreadsAssumption`, `PausesAssumption`: "no thread" is no thread, "no frame" no frame, and pauses are counted |
| `RingBuffer`, `Recorder` | `CapacityAssumption`, `MaxChunksAssumption`, `RecordingAssumption`: a ring and a pre-roll of at least one chunk, lengths that are numbers |
| `SpeechQueue` | `CallsAssumption`: calls are numbered from 1, and a text has a sentence |
| `ToolTurn` | `ToolTurnAssumption`: at least one worker, call, turn, iteration and line typed ahead |
| `Gui` | `RequestsAssumption`, `BoundsAssumption`: finitely many prompts, each typed or spoken; a pool, tool calls, and an even length of the history (`maxlen=20` in the code: without it half an exchange would be dropped) |
| `Assistant` | `AssistantAssumption`: lines are pairs of a verb and an object of the vocabulary of `Routing`; at least one result and one exchange kept |
| `VisionEvents` | `VisionAssumption`: finitely many people, those enrolled among them |
| `Pc`, `Routines` | `PcAssumption`, `RoutinesAssumption`, `LowerAssumption`, `StepsAssumption`: a process is found by its own name, protected files are files, default routines have names and these are in lower case, 0 is the keyboard's turn and not a worker, calls and the steps of routines are calls of tools, and none of the routines' own |
| `LruCache`, `Chunks`, `Caches` | `LruAssumption`, `ChunksAssumption`, `CachesAssumption`: an overlap of 1 up to the size of a chunk; texts are sequences of line lengths |
| `OllamaClient` | `ClientAssumption`: at least one try, a limit above 0 |

### The theorems and their arguments

| Theorem | States | Argument |
|---|---|---|
| `CameraProofs!TypeCorrect` | the types | inductive; `EnsureGrabberTypes` for the four places that may start a grabber |
| `CameraProofs!PrivacyGate` | `PausedIsDark` | inductive as it stands: each place that opens the device tests the flag under the lock, and `pause` closes it under the same lock |
| `CameraProofs!SingleGrabber` | `OneGrabber` | not inductive: two live threads could both be stopping. Strengthened to `OnlyCurrentAlive`, only the thread `self._thread` names can be alive. A new thread is only made when the named one is dead |
| `CameraProofs!PauseHaltsCapture` | `PausedCapturesNothing` | a grabber may hold a frame it has read before the pause. Strengthened with `FramesArePast`: a frame, in a grabber's hand, kept or served, is of no pause yet to come, so that a new pause finds none of its own |
| `ListeningProofs!TypeCorrect` | the ring's types | inductive, with `ModInRange` for the slots |
| `ListeningProofs!WakeupNotLost` | `NoLostSignal` | inductive with the types: a `clear()` of the event needs the indices equal, a write leaves its writer at `signal` |
| `ListeningProofs!UnreadKept` | `UnreadIntact` | not inductive: it must say what is in the slots already read. Strengthened to `LastLapKept`, the last `Capacity` chunks are in their slots. A write keeps it because two indices less than a lap apart never share a slot (`SlotsDistinct`, from the division of each by `Capacity`) |
| `ListeningProofs!UsesTheBuffer` | `RecSpec => Spec` | each step of the recording loop is a step of the ring or leaves it alone; so `RecordingIsWoken` and `RecordingReadsTheStream` follow from the two theorems above |
| `ListeningProofs!GaplessRecording`, `SpeechIsWhole` | `KeptContiguous`, `SpeechNotClipped` | `RecInv`: until the reader is lapped, the pre-roll, and after a trigger what is kept, is the stretch of the stream that ends at the read index and starts `PreRoll` chunks before that or before the trigger, or with the recording (`Latest`, `Before`) |
| `ListeningProofs!LoopTypeCorrect` | the types of the loop and the listening threads | inductive |
| `ListeningProofs!TurnsComeFromDetections` | `TurnsAreDetected` | inductive with the types: each step moves one unit from detections to announcements, from there to the event, and from the event to a turn, or drops it |
| `ListeningProofs!ReadyForTheNext` | `ReadyWhenWaiting` | strengthened with `DetectionOn`: between recording and speaking detection is on, so that a turn that ends without speaking leaves it on |
| `SpeechQueueProofs!EverySentenceHasItsPlace` | the inductive invariant | per call (`InOrder`), the sentences played, in the player's hand, in the queue and in the synthesiser's hand are one interval in order; of a call that has returned at most the synthesis thread runs (`Placed`); while the caller's playback runs, the flag tells whether it was stopped (`Flag`) |
| `SpeechQueueProofs!StepsOfSpeech` | `Spec => Promise!Init /\ [][Promise!Next]_(Promise!vars)`, the safety part of `ImplementsSpeech` | step by step: what a thread does is a step of `Speech` or leaves its state alone, by the invariant above |
| `BrainProofs!RequestsAreFollowed` | `StateFollowsRequests` | `AssistantInv`, and the tables: `Handles` and `HandledBy` say which entry decides, `ForgetIsForgotten`, `OffIsOff` and `OnIsOn` that the lines which ask for a change reach their handler and are commands, `OffWasAsked`, `OnWasAsked` and `FactsWereAsked` that no other line does (close_app and open_app take "close camera" and "open camera", and the router knows neither "shut down camera" nor "activate camera") |
| `BrainProofs!HelpHolds` | `HelpIsTrue` | `FitsAsHelpSays`: each of the 38 entries names what the help text says of every line of it that fits, save the second, which comes after the first. With `HelpFits`, every line fits some entry and some command pattern |
| `BrainProofs!CommandsLeaveTheMemory` | `CommandsBypassMemory` | `CommandKind`: a command has no memory hint, so a command that goes on to the LLM finds nothing and caches nothing; the look at the screen, the one handler that searches, searches for a text of its own and stores nothing (`FoundIsStored`: what a search finds is of the exchanges stored) |
| `BrainProofs!RepeatsAlone` | `OnlyRepeatsAreStale` | what is cached was asked (`Kept`); for another line the search returns a subset of the stored exchanges of the same cardinality (`FS_Subset`) |
| `BrainProofs!CallsKeepTheirPlaces` | the inductive invariant of a turn | how many workers, panels and lines there are, who waits for what, which turn a call is of |
| `BrainProofs!ResultsAreInPlace`, `AnswerLeavesNoCall`, `DeniedUnlessMixedUp` | `OwnResults`, `QuietAfterAnswer`, `UnwantedOnlyByMixUp` | parts of that invariant: a slot is filled with the call of its own index; a turn ends answered only after all of its batch has; a call that reads Dad's answer runs unwanted only if the panel he saw was another's, one that reads a line for the main prompt is of a turn that is over and was not answered, so that it raised, and the rest read a line typed ahead |
| `GuiProofs!RequestsKeepTheirPlaces` | the inductive invariant of the GUI | where each request is; which entries of the history and the chat view are whose; and `OrbAccounted`: what the signals still queued will leave the orb in |
| `GuiProofs!OrbComesToRest`, `AnswersAreInOrder`, `HistoryIsWhole` | `OrbIdleWhenQuiet`, `AnswerAfterQuestion`, `WholeExchanges` | from it. `Exchanges` holds until two requests save at once; an even maximum makes a full deque drop a question with its answer |
| `VisionEventsProofs!TypeCorrect` | the types | `FS_Subset` and `FS_CardinalityType` bound the counts |
| `VisionEventsProofs!RowsCorrect` | `RowsTellAll` | strengthened with `NamesWritten`: while names are being written, those no longer pending are in the rows, which is what the last step of a poll relies on |
| `RoutinesProofs!RestartFindsTheSame` | `FileFollowsMemory` | a save that notes no other is the only one (`AloneIsAlone`) and goes through the memory as it is (`AloneSaves`); only an interrupted or overlapped one leaves the file behind (`HarmTold`) |
| `RoutinesProofs!CreatedStays`, `MissesOnlyMidSave` | `CreatedIsKept`, `MissedOnlyMidSave` | from the same, with `AckedAreHeld`; a name in lower case is looked up as it is |
| `RoutinesProofs!AnswersStayTrue` | `AnswersHold` | strengthened with `UnderWay`, which tells the levels still to be set, and `NoneUnmutes`: a mute that was the last word finds nobody between the two steps of a level who has not been noted; and with `PowerPending`: while one power command is under way it is the latest, and what was scheduled at its start still is. `VersionsKnown`, that every version held, stored or run was created, gives the calls a routine makes |
| `RoutinesProofs!LossIsAskedFor` | `NothingLostUnasked` | tool by tool: which outcomes lose anything (files, the clipboard, processes, containers, uptime), and what both tables say of those tools; `MayLose` has the 14 that lose something and need no yes |
| `CachesProofs!CachesTypeCorrect` | the types of caches and jobs | a job has as many places as texts, and lacks only places it has looked at |
| `CachesProofs!TotalIsTheSum` | `SizeIsExact` | what each method of `LRUCache` does to the sum of the sizes; the eviction loop by induction over the entries |
| `CachesProofs!VectorsAreTheirOwn` | `OwnVectors` | every entry of the cache has its own text's vector (`OwnEntries`), and every place a job has looked at has it, or is among those still asked for, or was refused (`VectorJob`) |
| `CachesProofs!ChunksAreFresh` | `FreshUnlessRaced` | what a job knows of the file at each step (`ChunkJob`), and of the cache: no entry is for a time to come, and the one for the file's present time has its text, unless that time is spoilt by an edit between a reading and the put (`FreshEntry`) |
| `CachesProofs!EveryTextIsWhole` | `ChunksAreWhole` | of both splitters, by induction over the lines: the chunks closed and the one open cover the lines read, and a chunk closes with a line of its own |
| `CachesProofs!FreshAnswers` | `HealthAnswersFresh` | not inductive: a check returns what others have written. Strengthened with what each part has in hand. The verdict kept was true at some time since `checkedAt`; what a check has heard was true since it began; what a reader that found the verdict fresh is about to read was true within the limit, also when another overwrites it first. `ShownGrows` and `ShownNow` say that a later moment shows all that an earlier one did, and the present state |

Induction over data needs no theorem with an operator for a parameter: a set of
numbers that is not empty has a least member (`LeastNat`, from `WFMin` and
`NatLessThanWellFounded`). The least number that fails a claim has a
predecessor that does not; `AllUpTo` puts that as an induction up to a bound. For
the recursive functions of `LruCache` and `Chunks` it is used twice: first to show that a
function with the recursion's equation exists, which a `CHOOSE` alone does not say, and
then for what its values are.

Only model-checked: all liveness (`RecordingEnds`, `WakeAnswered`, `SynthesisEnds`, the
fairness of `ImplementsSpeech`, `TurnEnds`, `PromptAnswered`, `RoomReported`, `EveryTurnAnswers`,
`WatchersSettle`, and `PolledStandby`, which says "leads to"). TLAPS reasons about
neither fairness of these forms nor `ENABLED`. `Services`, the watchers, has no property
but `WatchersSettle`.

## 5. What is not modelled

`PROJECT.json` lists every part with its reason. In short:

- **No caller, or no way to run**: `reserve_vram` and `can_allocate` of the GPU
  manager, `get_or_compute` and the batch methods of the caches, `check_tts` and `stop`
  of the health monitor, model lists and pre-warming of the Ollama client. The IPC
  server is started by `launch_son.py` alone, which calls `get_instance()`, a method
  `SONIPCServer` does not have. `CodeTracker.scan` and `query` raise (section 6), so
  `_chunk_file` is modelled as the contract of its class. With `native.son_native`
  importable its chunk ids raise as well (`codebase.py:58`, `native/son_native.py:250`),
  which `Caches` has as an outcome.
- **One call to something outside, changing nothing here**: tools that only read
  (processes, battery, weather, news, searches), the agents of the GUI but the voice
  agent, screen vision, the launchers. `Pc` has the tools that change files, the clipboard,
  processes, containers, sound, light or power. `lock_pc`, `sleep_pc`, window and media
  keys, `create_venv`, `git_commit` and new directories change nothing of these: they are
  in the tables only. `ToolTurn` has the outcomes of a tool: it returns, raises or hangs.
- **Numbers and text**: the adaptive threshold, image processing, embeddings and
  similarity, most of the native accelerators, wording, layout and painting.
- **Not part of a running SON**: benchmarks, audits, the request profiler, the standalone memory
  scripts (`memory.py` is hidden by the package `memory`, and `memory2.py` imports a
  name that `chroma_db.py` defines only when it is run).
- **Sequential start-up**: `_init_all` builds the parts one after another, before
  the first turn. Every part may be missing afterwards, which the models have as
  an input (`tts` in `VoiceLoop`, failures in `Assistant`). The memory manager is
  built but only its structured layer is used.

Within the modelled parts: the camera's detection and recognition switches and
`is_available` have no effect on it; `VisionEventLoop.stop` has no caller;
`TextToSpeech.speak` has no caller in the terminal program; the text-only paths of
both brains are one chat call and the same save as the modelled one; notifications
of the telemetry are kept in a list nothing reads.

## 6. Where the code and its documents disagree

One run finds what the repository says of itself to be false; `findings` quotes the
lines.

- `routines_confirm`. "All tool calls flow through ActionExecutor"
  (`action_executor.py:3`), and power tools are "CRITICAL — always confirm"
  (`windows_control.py:705`). `run_routine` calls the registry itself (`automation.py:126`),
  and creating and running a routine are `MEDIUM`, which asks nobody. The trace is the two
  calls: `create_routine` with the steps `set_volume` and `delete_path`, and `run_routine`,
  whose second step deletes the path without a question. A step `shutdown_pc` goes the same
  way. `NothingLostUnasked` says what is left: otherwise a loss has a yes, a command of
  Dad's, or a tool the table frees.

The models also reach each of the following, and passing properties state what
holds instead:

- An idle device may stay on. `capture.py:33` promises that an unused camera is
  released after three seconds. A grabber that has released the device, or seen
  `_running` cleared, still is alive for `capture.py:90`: a wake-up in that window
  opens the device and starts no thread. No loop tests the time any more, later
  wake-ups find the device open, the LED stays on, and `get_frame` serves the one
  frame it stored. `PolledStandby` holds while a grabber is in its loop.
- A recording that raises leaves SON deaf. `son.py:308` records between `pause()` and
  `resume()` without a `finally`; the exception is caught at `son.py:540`, by a loop
  that waits for a wake word nobody listens for. `ReadyWhenWaiting` excepts it.
- Long sentences lose the rest of a text. `tts.py:190` waits one second for room in a
  queue of two and then gives up; the `queue.Full` it raises ends the loop
  (`tts.py:191`) and is told to nobody. `Speech` has such a call as broken.
- With two panels Dad's answer reaches the wrong call. Two dangerous calls of one
  response each print a panel and wait in `input()` (`ui.py:412-426`). The answer goes
  to the thread that got the terminal first.
- A prompt outlives its turn. When `as_completed` raises (`brain.py:421`), a call that
  asks stays in `input()` (`ui.py:426`), beside the main prompt (`ui.py:240-278`). If it
  gets Dad's next line, an empty one, "ok" or "yes" runs an action of a turn that is
  over; and a line typed ahead of any prompt answers it unseen. `UnwantedOnlyByMixUp`
  lists these three; otherwise a denial holds.
- A command that searches the memory. "Commands never touch" the LLM and bypass the
  memory (`README.md:87`, `README.md:153`), but "what's on my screen"
  (`commands.py:276`) asks the brain, which builds its messages with the memory
  (`brain.py:539`), and so searches it and writes the query cache.
  `CommandsBypassMemory` excepts it.
- A routine with a capital in its name is never found by Dad's command: his line is put
  in lower case (`commands.py:93`), and the name is looked up exactly
  (`automation.py:102`). The model's `run_routine` finds it. `MissedOnlyMidSave` is about
  the other names.
- What a tool table frees may lose things. `write_file`, `copy_path`, `extract_zip`,
  `compress_folder`, `install_requirements` and a `take_screenshot` with a `save_path` write
  over files, programs are closed and containers stopped, and nobody is asked;
  `take_screenshot` is even "safe". `MayLose` names all 14.
- "Volume set to 50%", and silence. `set_volume` unmutes and then sets the level
  (`windows_control.py:185-186`), and the calls of a turn run side by side
  (`brain.py:413-421`), so a mute may come between. `AnswersHold` excepts it.
- "Restart scheduled" while a shutdown is pending leaves the shutdown: `shutdown.exe`
  refuses the second schedule, and nobody reads its answer (`windows_control.py:271`).
- A stream is not retried. `chat_stream` says "retry on initial connection"
  (`ollama_client.py:237`), but what it retries only makes a generator, and the
  connection is made when the first chunk is read (line 252). A refused stream
  leaves an empty reply, which `think_stream` saves. `EveryTurnAnswers` names it.

Others the models contain as the code has them, and no run states as a claim:

- One utterance heard by two listening threads, the second started by `resume()`
  before the first noticed the pause, starts two turns (`wakeword.py:163`).
- "Take a screenshot", one of the commands that "never touch" the LLM
  (`README.md:87`), is a command for the router but not for the handler, whose
  pattern is `^screenshot$` (`commands.py:47`): it goes on to the LLM.
- A stalled sound device blocks a recording: a `read()` that times out adds no time
  (`audio.py:230`). The minimum-speech test (`audio.py:277`) measures pre-roll and
  trailing silence too, so one loud chunk passes it. A lapped reader gets chunks
  in slot order, newer before older.
- `as_completed` raises `TimeoutError` out of `think_with_tools` (`brain.py:421`);
  its limit includes Dad's time to answer. A single call has no limit
  (`brain.py:409`).
- "close camera" opens the handler for closing programs (`commands.py:44`);
  "shut down camera" and "activate camera" are no command for the router.
- "Remembered" is said although the fact was not stored when embedding fails
  (`commands.py:188`), and the facts collection is never queried.
- Requests that need the codebase raise: `SemanticMemory` has none of the methods
  `codebase.py:304` and its neighbours call.
- `think_code` is called with an argument it does not take (`son.py:435`); the
  handler falls back to `think`.
- `commands.py:265` imports `take_screenshot` from `vision`, which is the package and
  does not have it.
- The GUI's history is iterated while another thread appends (`core/brain.py:101`):
  the turn ends with an error message, which `PromptAnswered` counts as an answer.
  While a spoken prompt is being thought about the orb may show idle.
- After a restart the people in the room are recorded as entering again
  (`events.py:48`).
- A GPU that neither NVML nor `nvidia-smi` knows is "online", with zeros
  (`health.py:167`, `gpu_manager.py:141`).
- A server that lists its models and refuses to chat, as when the model is missing,
  is healthy to a check (`ollama_client.py:109`) and not to a request that gave up
  (line 194): `is_healthy` says whichever was last. `HealthAnswersFresh` allows both.
- `shutdown.exe` is started and not waited for (`windows_control.py:271`): a shutdown
  and its cancellation may reach Windows in the other order.
- A step of the default morning routine, `get_news` (`automation.py:148`), is registered
  nowhere: the step answers that it was skipped.
- The GUI's `set_volume` does not end a mute that the terminal's has made
  (`plugins/windows.py:239`).
- A close after an overlapping save may leave the end of the longer text in
  `routines.json`: it cannot be parsed, and the next start has no routines and
  does not restore the default ones (`automation.py:39`).
- Dad's routine commands build an engine from the file (`commands.py:433`), which another
  thread may be writing: the routine is "not found".
- `core/cache.py:376` takes the file's time after the file was read: chunks of the
  old text may be kept under the new time.
- `core/cache.py:104` says that only one thread computes a value; lines 115-129 let
  each that misses compute it. Nothing calls it.
- The security dialog is opened from a pool thread (`main_window.py:184`), where Qt
  wants the GUI's; it may raise, abort the process or wait for ever, and a tool may
  do the last too (`git_commit` has no limit). Two of these keep a pool of two.

## 7. Plan

Done: the modules of section 2, in the order `Camera`, `RingBuffer` and `Recorder`,
`WakeWord` and `VoiceLoop`, `SpeechQueue`, `ToolTurn`, `Gui`, `Routing` and
`Assistant`, `VisionEvents`, then `Speech` with the refinement, `Pc`, `ToolTable` and
`Routines`, `LruCache`, `Chunks` and `Caches`, `OllamaClient` and `Services`.

Proved since: every safety property of the runs, the steps of the refinement of
`Speech`, and that a recording uses the ring as the ring's module says.

Next, to prove: the types of the watchers in `Services`; and, for each liveness
property, the steps it rests on (what a step of its fair action achieves, and that no
other step undoes it), which are safety and within reach although the property is not.

To extend, if the code comes to use them: the IPC server, GPU reservations, the
layers of the memory manager.
