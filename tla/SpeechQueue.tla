---------------------------- MODULE SpeechQueue -----------------------------
(***************************************************************************)
(* tts.py: TextToSpeech.speak_streamed, its synthesis and playback threads *)
(* and the bounded queue between them; stop(), from any thread; and the    *)
(* caller, which waits for the playback thread and gives the synthesis     *)
(* thread one second more.  Every call has its own queue and threads; the  *)
(* _is_speaking flag and the sound device are shared by all calls.         *)
(***************************************************************************)
EXTENDS Naturals, Sequences

CONSTANTS Calls,      \* 1..n: the calls of speak_streamed, one after another
          Sentences   \* sentences of the text of a call

ASSUME CallsAssumption == Calls \subseteq Nat \ {0} /\ Sentences \in Nat \ {0}

QueueSize == 2        \* maxsize of audio_queue
Sentinel  == 0        \* None, the end of the audio

VARIABLES speaking,   \* self._is_speaking
          synth,      \* synth[c]: where the synthesis thread of call c is
          sentence,   \* sentence[c]: the sentence it is at
          queue,      \* queue[c]: audio_queue of call c
          play,       \* play[c]: where the playback thread of call c is
          held,       \* held[c]: what it took from the queue
          played,     \* history: sentences of c given to the sound device
          caller,     \* the call being waited for, 0 when there is none
          ended,      \* history: calls that have returned
          stopped,    \* history: calls during which stop() was called
          before,     \* history: sentences of c played by its first stop()
          broken,     \* history: calls in which synthesis or playback raised
          late        \* history: calls in which put found no room in time

vars == <<speaking, synth, sentence, queue, play, held, played, caller, ended,
          stopped, before, broken, late>>
synthVars == <<synth, sentence>>
playVars  == <<play, held, played>>
callVars  == <<caller, ended, stopped, before>>
faults    == <<broken, late>>

Init ==
  /\ speaking = FALSE
  /\ synth = [c \in Calls |-> "none"]
  /\ sentence = [c \in Calls |-> 1]
  /\ queue = [c \in Calls |-> <<>>]
  /\ play = [c \in Calls |-> "none"]
  /\ held = [c \in Calls |-> Sentinel]
  /\ played = [c \in Calls |-> <<>>]
  /\ caller = 0
  /\ ended = {} /\ stopped = {} /\ broken = {} /\ late = {}
  /\ before = [c \in Calls |-> 0]

-----------------------------------------------------------------------------
(* speak_streamed up to the join; a text without sentences returns at once.  *)
Speak(c) ==
  /\ caller = 0
  /\ c \notin ended /\ \A d \in Calls : d < c => d \in ended
  /\ caller' = c
  /\ speaking' = TRUE
  /\ synth' = [synth EXCEPT ![c] = "test"]
  /\ play' = [play EXCEPT ![c] = "test"]
  /\ UNCHANGED <<sentence, queue, held, played, ended, stopped, before, faults>>

(* playback_thread.join() returned, and synth_thread.join(timeout=1.0) too,  *)
(* with the synthesis thread ended or not.                                   *)
Return ==
  /\ caller # 0
  /\ play[caller] = "done"
  /\ ended' = ended \cup {caller}
  /\ caller' = 0
  /\ UNCHANGED <<speaking, synthVars, queue, playVars, stopped, before, faults>>

(* stop(): the flag is cleared and the sound device stopped, which ends the  *)
(* sentence being played.  Between calls it changes nothing.                 *)
Stop ==
  /\ caller # 0
  /\ speaking' = FALSE
  /\ play' = [c \in Calls |-> IF play[c] = "playing" THEN "test" ELSE play[c]]
  /\ stopped' = stopped \cup {caller}
  /\ before' = IF caller \in stopped THEN before
               ELSE [before EXCEPT ![caller] = Len(played[caller])]
  /\ UNCHANGED <<synthVars, queue, held, played, caller, ended, faults>>

-----------------------------------------------------------------------------
(* synthesize_worker.                                                        *)
NextSentence(c) ==
  /\ synth[c] = "test"
  /\ synth' = [synth EXCEPT ![c] = IF sentence[c] <= Sentences /\ speaking
                                   THEN "synthesize" ELSE "end"]
  /\ UNCHANGED <<speaking, sentence, queue, playVars, callVars, faults>>

Synthesize(c) ==
  /\ synth[c] = "synthesize"
  /\ \/ /\ synth' = [synth EXCEPT ![c] = "put"]
        /\ UNCHANGED broken
     \/ /\ synth' = [synth EXCEPT ![c] = "end"]
        /\ broken' = broken \cup {c}
  /\ UNCHANGED <<speaking, sentence, queue, playVars, callVars, late>>

PutAudio(c) ==
  /\ synth[c] = "put"
  /\ Len(queue[c]) < QueueSize
  /\ queue' = [queue EXCEPT ![c] = Append(@, sentence[c])]
  /\ sentence' = [sentence EXCEPT ![c] = @ + 1]
  /\ synth' = [synth EXCEPT ![c] = "test"]
  /\ UNCHANGED <<speaking, playVars, callVars, faults>>

(* The queue stays full for a second: put raises queue.Full, which ends the  *)
(* loop like an exception of the synthesis.                                  *)
PutTimesOut(c) ==
  /\ synth[c] = "put"
  /\ Len(queue[c]) = QueueSize
  /\ synth' = [synth EXCEPT ![c] = "end"]
  /\ late' = late \cup {c}
  /\ UNCHANGED <<speaking, sentence, queue, playVars, callVars, broken>>

(* The finally block: put(None) waits for room without a timeout.            *)
PutSentinel(c) ==
  /\ synth[c] = "end"
  /\ Len(queue[c]) < QueueSize
  /\ queue' = [queue EXCEPT ![c] = Append(@, Sentinel)]
  /\ synth' = [synth EXCEPT ![c] = "done"]
  /\ UNCHANGED <<speaking, sentence, playVars, callVars, faults>>

SynthStep(c) == \/ NextSentence(c) \/ Synthesize(c) \/ PutAudio(c)
                \/ PutTimesOut(c) \/ PutSentinel(c)

-----------------------------------------------------------------------------
(* Mutant of TestSpeaking: the loop is while True.                           *)
TestNothing(c) ==
  /\ play[c] = "test"
  /\ play' = [play EXCEPT ![c] = "get"]
  /\ UNCHANGED <<speaking, synthVars, queue, held, played, callVars, faults>>

(* playback_worker.  A get that times out leads back to the test.            *)
TestSpeaking(c) ==
  /\ play[c] = "test"
  /\ play' = [play EXCEPT ![c] = IF speaking THEN "get" ELSE "end"]
  /\ UNCHANGED <<speaking, synthVars, queue, held, played, callVars, faults>>

(* Mutant of GetTimesOut: break instead of continue.                         *)
GetTimesOutBreaks(c) ==
  /\ play[c] = "get"
  /\ queue[c] = <<>>
  /\ play' = [play EXCEPT ![c] = "end"]
  /\ UNCHANGED <<speaking, synthVars, queue, held, played, callVars, faults>>

GetTimesOut(c) ==
  /\ play[c] = "get"
  /\ queue[c] = <<>>
  /\ play' = [play EXCEPT ![c] = "test"]
  /\ UNCHANGED <<speaking, synthVars, queue, held, played, callVars, faults>>

GetAudio(c) ==
  /\ play[c] = "get"
  /\ queue[c] # <<>>
  /\ held' = [held EXCEPT ![c] = Head(queue[c])]
  /\ queue' = [queue EXCEPT ![c] = Tail(@)]
  /\ play' = [play EXCEPT ![c] = IF Head(queue[c]) = Sentinel THEN "end"
                                                              ELSE "start"]
  /\ UNCHANGED <<speaking, synthVars, played, callVars, faults>>

(* sd.play(), which may raise.                                               *)
PlayAudio(c) ==
  /\ play[c] = "start"
  /\ \/ /\ play' = [play EXCEPT ![c] = "playing"]
        /\ played' = [played EXCEPT ![c] = Append(@, held[c])]
        /\ UNCHANGED broken
     \/ /\ play' = [play EXCEPT ![c] = "end"]
        /\ broken' = broken \cup {c}
        /\ UNCHANGED played
  /\ UNCHANGED <<speaking, synthVars, queue, held, callVars, late>>

(* sd.wait() returns: the sentence has been heard.                           *)
Heard(c) ==
  /\ play[c] = "playing"
  /\ play' = [play EXCEPT ![c] = "test"]
  /\ UNCHANGED <<speaking, synthVars, queue, held, played, callVars, faults>>

(* The finally block: the flag is cleared and the sound device stopped.      *)
EndPlayback(c) ==
  /\ play[c] = "end"
  /\ speaking' = FALSE
  /\ play' = [d \in Calls |-> IF d = c THEN "done"
                              ELSE IF play[d] = "playing" THEN "test"
                              ELSE play[d]]
  /\ UNCHANGED <<synthVars, queue, held, played, callVars, faults>>

PlayStep(c) == \/ TestSpeaking(c) \/ GetTimesOut(c) \/ GetAudio(c)
               \/ PlayAudio(c) \/ Heard(c) \/ EndPlayback(c)

-----------------------------------------------------------------------------
Next == \/ \E c \in Calls : Speak(c) \/ SynthStep(c) \/ PlayStep(c)
        \/ Return
        \/ Stop

(* Threads run, and a sentence that plays ends; nobody need call.            *)
Spec == /\ Init /\ [][Next]_vars
        /\ \A c \in Calls : WF_vars(SynthStep(c)) /\ WF_vars(PlayStep(c))
        /\ WF_vars(Return)

-----------------------------------------------------------------------------
(* voice_agent.py:41, "Instantly stop ongoing speech", and son.py:480, "Wait *)
(* for speech to finish before next input": the threads and their queue keep *)
(* the promise of module Speech.  Sentences are heard in their order and one *)
(* call at a time, at most one starts after stop(), every call returns and   *)
(* has said everything unless it was stopped, broke, or waited a second for  *)
(* room in the queue.                                                        *)
Promise == INSTANCE Speech WITH current <- caller, spoken <- played,
                                broken <- broken \cup late

ImplementsSpeech == Promise!Spec

(* A synthesis thread ends: the last put (tts.py:194), which has no time     *)
(* limit, finds room, unless nobody empties the queue any more because the   *)
(* call was stopped or a thread of it broke.                                 *)
SynthesisEnds ==
  \A c \in Calls :
    synth[c] = "end" ~> synth[c] = "done" \/ c \in stopped \cup broken
=============================================================================
