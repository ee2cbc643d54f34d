----------------------------- MODULE VoiceLoop ------------------------------
(***************************************************************************)
(* son.py: the conversation loop of Son in wake-word mode, with the state  *)
(* it shows on the HUD, composed with the WakeWordListener it pauses while *)
(* it records and speaks.  A turn waits for self._wake_event, records,     *)
(* transcribes, responds and speaks; an exception in any of these is       *)
(* caught by the loop, which goes on to wait for the next wake word.       *)
(***************************************************************************)
EXTENDS WakeWord

CONSTANT MaxTurns   \* bound on the turns of a behaviour

VARIABLES pc,       \* the step of the turn Son's main thread is at
          wake_event, \* self._wake_event
          tts,      \* self.tts is not None
          hud,      \* the last state given to hud_bridge.notify_state
          raised,   \* history: the latest turn ended with an exception
          turns     \* history: wake-ups taken from the event

loopVars == <<wakeVars, pc, wake_event, tts, hud, raised, turns>>

Phases == {"init", "greet", "wait", "woken", "record", "transcribe",
           "respond", "reply", "speaking", "exit"}
HudStates == {"IDLE", "LISTENING", "SEARCHING", "EXECUTING", "THINKING",
              "SPEAKING"}

LoopInit ==
  /\ WakeInit
  /\ pc = "init"
  /\ wake_event = FALSE
  /\ tts \in BOOLEAN
  /\ hud = "IDLE"
  /\ raised = FALSE
  /\ turns = 0

(* _on_wake_detected, in the thread the listener started for it.             *)
OnWakeDetected ==
  /\ pending > 0
  /\ pending' = pending - 1
  /\ wake_event' = TRUE
  /\ UNCHANGED <<running, lis, hear, spoken, detections, pc, tts, hud, raised,
                 turns>>

-----------------------------------------------------------------------------
(* run(): the listener is started, then the greeting is spoken.              *)
StartListening ==
  /\ pc = "init"
  /\ Resume
  /\ pc' = "greet"
  /\ UNCHANGED <<heardVars, wake_event, tts, hud, raised, turns>>

(* _speak_async up to the join of the speaking thread.                       *)
Speak ==
  /\ pc \in {"greet", "reply"}
  /\ tts
  /\ Pause
  /\ hud' = "SPEAKING"
  /\ pc' = "speaking"
  /\ UNCHANGED <<heardVars, wake_event, tts, raised, turns>>

(* Without speech output the turn ends with the HUD reset.                   *)
EndSilently ==
  /\ pc \in {"greet", "reply"}
  /\ ~tts
  /\ hud' = "IDLE"
  /\ pc' = "wait"
  /\ UNCHANGED <<wakeVars, wake_event, tts, raised, turns>>

(* Mutant of Spoken: detection is not resumed after speaking.                *)
SpokenNoResume ==
  /\ pc = "speaking"
  /\ hud' = "IDLE"
  /\ pc' = "wait"
  /\ UNCHANGED <<wakeVars, wake_event, tts, raised, turns>>

(* The speaking thread ended, normally or by an exception of its own.        *)
Spoken ==
  /\ pc = "speaking"
  /\ Resume
  /\ hud' = "IDLE"
  /\ pc' = "wait"
  /\ UNCHANGED <<heardVars, wake_event, tts, raised, turns>>

(* Mutant of TakeWake: the event is not cleared.                             *)
TakeWakeUncleared ==
  /\ pc = "wait"
  /\ turns < MaxTurns
  /\ wake_event
  /\ turns' = turns + 1
  /\ raised' = FALSE
  /\ pc' = "woken"
  /\ UNCHANGED <<wakeVars, wake_event, tts, hud>>

(* Mutant of TakeWake: an exception ends the conversation loop.              *)
TakeWakeUnlessRaised ==
  /\ pc = "wait"
  /\ turns < MaxTurns
  /\ wake_event /\ ~raised
  /\ wake_event' = FALSE
  /\ turns' = turns + 1
  /\ raised' = FALSE
  /\ pc' = "woken"
  /\ UNCHANGED <<wakeVars, tts, hud>>

(* _get_input: self._wake_event.wait(), then clear().                        *)
TakeWake ==
  /\ pc = "wait"
  /\ turns < MaxTurns
  /\ wake_event
  /\ wake_event' = FALSE
  /\ turns' = turns + 1
  /\ raised' = FALSE
  /\ pc' = "woken"
  /\ UNCHANGED <<wakeVars, tts, hud>>

(* _get_voice_input up to record_vad.                                        *)
BeginRecording ==
  /\ pc = "woken"
  /\ Pause
  /\ hud' = "LISTENING"
  /\ pc' = "record"
  /\ UNCHANGED <<heardVars, wake_event, tts, raised, turns>>

(* record_vad raised: the loop's handler is reached without resume().        *)
RecordingRaises ==
  /\ pc = "record"
  /\ raised' = TRUE
  /\ pc' = "wait"
  /\ UNCHANGED <<wakeVars, wake_event, tts, hud, turns>>

(* record_vad returned: resume(), then transcribe unless there is no audio.  *)
Recorded ==
  /\ pc = "record"
  /\ Resume
  /\ \E audio \in BOOLEAN :
       /\ hud' = IF audio THEN "SEARCHING" ELSE "IDLE"
       /\ pc' = IF audio THEN "transcribe" ELSE "wait"
  /\ UNCHANGED <<heardVars, wake_event, tts, raised, turns>>

(* stt.transcribe(): text, nothing, or an exception.                         *)
Transcribe ==
  /\ pc = "transcribe"
  /\ \/ /\ pc' = "respond"
        /\ UNCHANGED <<hud, raised>>
     \/ /\ pc' = "wait"
        /\ hud' = "IDLE"
        /\ UNCHANGED raised
     \/ /\ pc' = "wait"
        /\ raised' = TRUE
        /\ UNCHANGED hud
  /\ UNCHANGED <<wakeVars, wake_event, tts, turns>>

(* _respond up to speaking: a direct command or the LLM; either may raise.   *)
Respond ==
  /\ pc = "respond"
  /\ hud' \in {"EXECUTING", "THINKING"}
  /\ \/ pc' = "reply" /\ UNCHANGED raised
     \/ pc' = "wait" /\ raised' = TRUE
  /\ UNCHANGED <<wakeVars, wake_event, tts, turns>>

(* The command "__EXIT__": the loop ends and run() stops the listener.       *)
Exit ==
  /\ pc = "respond"
  /\ hud' = "EXECUTING"
  /\ Pause
  /\ pc' = "exit"
  /\ UNCHANGED <<heardVars, wake_event, tts, raised, turns>>

Son == \/ StartListening \/ Speak \/ EndSilently \/ Spoken \/ TakeWake
       \/ BeginRecording \/ RecordingRaises \/ Recorded \/ Transcribe
       \/ Respond \/ Exit

sonVars == <<pc, wake_event, tts, hud, raised, turns>>
SayWakeWord == Utter /\ UNCHANGED sonVars
Listener(t) == Listen(t) /\ UNCHANGED sonVars

LoopNext == \/ Son
            \/ OnWakeDetected
            \/ SayWakeWord
            \/ \E t \in Listeners : Listener(t)

(* Threads run; the user owes no wake word.  That a recording and a speech   *)
(* end is the subject of Recorder and SpeechQueue.                           *)
LoopSpec == /\ LoopInit /\ [][LoopNext]_loopVars
            /\ WF_loopVars(Son)
            /\ WF_loopVars(OnWakeDetected)
            /\ \A t \in Listeners : WF_loopVars(Listener(t))

-----------------------------------------------------------------------------
(* son.py:344: no turn starts of itself.  Turns taken and wake-ups still on  *)
(* their way never exceed the wake words detected.                           *)
TurnsAreDetected ==
  turns + pending + (IF wake_event THEN 1 ELSE 0) <= detections

(* Whenever Son waits for the wake word, detection is on and the HUD shows   *)
(* IDLE, unless the turn before ended with an exception.                     *)
ReadyWhenWaiting == pc = "wait" /\ ~raised => running /\ hud = "IDLE"

(* A detected wake word is answered by a turn, even if turns raise.          *)
WakeAnswered == wake_event ~> (~wake_event \/ pc = "exit" \/ turns = MaxTurns)

=============================================================================
