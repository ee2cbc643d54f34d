------------------------------ MODULE Recorder ------------------------------
(***************************************************************************)
(* audio.py: AudioManager.record_vad, the recording loop, composed with    *)
(* the RingBuffer it reads and the stream callback that fills it.          *)
(*                                                                         *)
(* The adaptive threshold is abstracted to whether a chunk is loud, the    *)
(* clock to whether the trailing silence has lasted long enough, both free *)
(* choices; durations are counted in chunks.                               *)
(***************************************************************************)
EXTENDS RingBuffer, Sequences

CONSTANTS PreRoll,        \* preroll_chunks_count
          MaxDuration,    \* self._max_duration, in chunks
          MinSpeech,      \* self._min_speech, in chunks
          Ahead,          \* bound: chunks the device delivers beyond a recording
          MaxRecordings   \* bound on the recordings of a behaviour

ASSUME RecordingAssumption ==
  /\ PreRoll \in Nat \ {0}
  /\ MaxDuration \in Nat /\ MinSpeech \in Nat /\ Ahead \in Nat

VARIABLES rec,        \* "off", "listen" (in the while loop), "closing"
          speech,     \* speech_detected
          silent,     \* silence_start is not None
          taken,      \* total_duration, in chunks
          preroll,    \* preroll_buffer
          kept,       \* audio_chunks
          outcome,    \* what the latest record_vad returned
          recordings, \* history: recordings begun
          start,      \* history: number of the recording's first chunk
          trigger,    \* history: number of the chunk that triggered speech
          lapped      \* history: the writer got more than a lap ahead

recVars == <<rec, speech, silent, taken, preroll, kept, outcome, recordings,
             start, trigger>>
allVars == <<bufferVars, recVars, lapped>>

RecInit ==
  /\ Init
  /\ rec = "off"
  /\ speech = FALSE /\ silent = FALSE
  /\ taken = 0
  /\ preroll = <<>> /\ kept = <<>>
  /\ outcome = "none"
  /\ recordings = 0
  /\ start = 1 /\ trigger = 0
  /\ lapped = FALSE

-----------------------------------------------------------------------------
(* record_vad up to the opening of the stream.                               *)
Begin ==
  /\ rec = "off"
  /\ recordings < MaxRecordings
  /\ Clear
  /\ rec' = "listen"
  /\ speech' = FALSE /\ silent' = FALSE
  /\ taken' = 0
  /\ preroll' = <<>> /\ kept' = <<>>
  /\ recordings' = recordings + 1
  /\ start' = produced + 1 /\ trigger' = 0
  /\ lapped' = FALSE
  /\ UNCHANGED outcome

(* audio_callback, while the stream is open.                                 *)
Callback(w) ==
  /\ rec # "off"
  /\ \/ /\ rec = "listen"
        /\ writeIdx < MaxDuration + Ahead
        /\ Write(w)
     \/ Signal(w)
  /\ lapped' = (lapped \/ writeIdx' - readIdx > Capacity)
  /\ UNCHANGED recVars

(* read() finds the event set, or finds the buffer empty after all.          *)
Await ==
  /\ rec = "listen"
  /\ Wake \/ ReadNothing
  /\ UNCHANGED <<recVars, lapped>>

(* The loop ends by `break`, or by its condition.                            *)
Continue(done) ==
  rec' = IF done \/ taken + 1 >= MaxDuration THEN "closing" ELSE "listen"

(* Mutant of Remember: a full deque drops the new chunk.                     *)
RememberOldest(c) == IF Len(preroll) = PreRoll THEN preroll
                                               ELSE Append(preroll, c)
(* deque(maxlen = PreRoll).append(c)                                         *)
Remember(c) == IF Len(preroll) = PreRoll THEN Append(Tail(preroll), c)
                                         ELSE Append(preroll, c)

(* Mutant of HearLoud: the pre-roll is prepended to every loud chunk.        *)
HearLoudAgain ==
  /\ kept' = kept \o preroll \o <<last'>>
  /\ speech' = TRUE /\ silent' = FALSE
  /\ trigger' = IF speech THEN trigger ELSE last'
  /\ Continue(FALSE)
  /\ UNCHANGED preroll

(* A chunk above the threshold: the first one is preceded by the pre-roll.   *)
HearLoud ==
  /\ kept' = (IF speech THEN kept ELSE kept \o preroll) \o <<last'>>
  /\ speech' = TRUE /\ silent' = FALSE
  /\ trigger' = IF speech THEN trigger ELSE last'
  /\ Continue(FALSE)
  /\ UNCHANGED preroll

(* A quiet chunk after speech: kept, and the end after silence_duration.     *)
HearTrailingSilence ==
  /\ speech
  /\ kept' = Append(kept, last')
  /\ silent' = TRUE
  /\ \E longEnough \in BOOLEAN : Continue(silent /\ longEnough)
  /\ UNCHANGED <<speech, trigger, preroll>>

(* A quiet chunk before any speech goes to the pre-roll.                     *)
HearNothingYet ==
  /\ ~speech
  /\ preroll' = Remember(last')
  /\ Continue(FALSE)
  /\ UNCHANGED <<speech, silent, trigger, kept>>

(* Mutant of Hear: the time spent on a chunk is not added up.                *)
HearUntimed ==
  /\ rec = "listen"
  /\ ReadChunk
  /\ HearLoud \/ HearTrailingSilence \/ HearNothingYet
  /\ UNCHANGED <<taken, outcome, recordings, start, lapped>>

(* One iteration of the while loop for a chunk.                              *)
Hear ==
  /\ rec = "listen"
  /\ ReadChunk
  /\ HearLoud \/ HearTrailingSilence \/ HearNothingYet
  /\ taken' = taken + 1
  /\ UNCHANGED <<outcome, recordings, start, lapped>>

(* stop_recording(), from any thread.                                        *)
StopRecording ==
  /\ rec = "listen"
  /\ rpc = "idle"
  /\ rec' = "closing"
  /\ UNCHANGED <<bufferVars, speech, silent, taken, preroll, kept, outcome,
                 recordings, start, trigger, lapped>>

(* The stream is closed, which waits for its callback, and the recording is  *)
(* returned unless there is no speech or it is too short.                    *)
Finish ==
  /\ rec = "closing"
  /\ \A w \in Writers : wpc[w] = "idle"
  /\ rec' = "off"
  /\ outcome' = IF speech /\ Len(kept) >= MinSpeech THEN "audio" ELSE "none"
  /\ UNCHANGED <<bufferVars, speech, silent, taken, preroll, kept, recordings,
                 start, trigger, lapped>>

Loop == Await \/ Hear \/ Finish

RecNext == \/ Begin \/ Loop \/ StopRecording
           \/ \E w \in Writers : Callback(w)

(* The recording thread runs and a callback that began ends.                 *)
RecSpec == /\ RecInit /\ [][RecNext]_allVars
           /\ WF_allVars(Loop)
           /\ \A w \in Writers : WF_allVars(Signal(w) /\ Callback(w))

(* Moreover the device keeps delivering chunks while its stream is open.     *)
DeviceSpec == RecSpec /\ \A w \in Writers : WF_allVars(Callback(w))

-----------------------------------------------------------------------------
(* audio.py:190-195: the recording has no gap, repetition or chunk of an     *)
(* earlier recording, as long as the reader is not lapped.                   *)
KeptContiguous ==
  ~lapped => /\ \A i \in DOMAIN kept : kept[i] >= start
             /\ \A i \in 2 .. Len(kept) : kept[i] = kept[i - 1] + 1

(* audio.py:192, the pre-roll: recorded speech starts PreRoll chunks before  *)
(* the loud chunk that triggered it, or at the start of the recording.       *)
SpeechNotClipped ==
  ~lapped /\ speech =>
    kept[1] = IF trigger - PreRoll < start THEN start ELSE trigger - PreRoll

(* config.py:93, "hard cap on recording length": a recording ends, whatever  *)
(* is heard, if the device delivers chunks.                                  *)
RecordingEnds == rec # "off" ~> rec = "off"
=============================================================================
