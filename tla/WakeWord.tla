------------------------------ MODULE WakeWord ------------------------------
(***************************************************************************)
(* wakeword.py: WakeWordListener.  pause() only clears self._running; the  *)
(* listening thread notices it at its next 0.1 s poll, and the stream      *)
(* callback aborts the stream if it runs in between.  start(), which       *)
(* resume() calls, launches a thread whether or not an earlier one has     *)
(* noticed yet.  Resampling and scoring are abstracted to whether an       *)
(* utterance of the wake word is detected.                                 *)
(***************************************************************************)
EXTENDS Naturals

CONSTANTS Listeners,    \* identities of listening threads (reused once dead)
          MaxUtterances \* bound on the wake words spoken in a behaviour

VARIABLES running,    \* self._running
          lis,        \* lis[t]: where thread t is in _listen_loop
          hear,       \* hear[t]: what t's stream callback is at
          pending,    \* threads started to run the on_wake callback
          spoken,     \* history: wake words spoken
          detections  \* history: wake words detected

wakeVars == <<running, lis, hear, pending, spoken, detections>>
heardVars == <<hear, pending, spoken, detections>>

WakeInit ==
  /\ running = FALSE
  /\ lis = [t \in Listeners |-> "dead"]
  /\ hear = [t \in Listeners |-> "none"]
  /\ pending = 0
  /\ spoken = 0
  /\ detections = 0

(* start() and resume(): nothing when self._running is already set.  Any dead *)
(* identity serves for the new thread; one is taken, to keep states few.      *)
Resume ==
  IF running
  THEN UNCHANGED <<running, lis>>
  ELSE /\ running' = TRUE
       /\ \E t \in Listeners : lis[t] = "dead"
       /\ lis' = [lis EXCEPT ![CHOOSE t \in Listeners : lis[t] = "dead"] = "starting"]

(* pause(); and stop(), whose join is bounded by a timeout.                  *)
Pause ==
  /\ running' = FALSE
  /\ UNCHANGED lis

-----------------------------------------------------------------------------
(* _listen_loop: the model is loaded and the stream opened.  An exception    *)
(* ends the thread and leaves self._running as it is.                        *)
Open(t) ==
  /\ lis[t] = "starting"
  /\ \E s \in {"active", "dead"} : lis' = [lis EXCEPT ![t] = s]
  /\ UNCHANGED <<running, heardVars>>

(* The poll of self._running finds it cleared; closing the stream waits for  *)
(* a callback that is running.                                               *)
Notice(t) ==
  /\ lis[t] \in {"active", "deaf"}
  /\ ~running
  /\ hear[t] # "predict"
  /\ lis' = [lis EXCEPT ![t] = "dead"]
  /\ hear' = [hear EXCEPT ![t] = "none"]
  /\ UNCHANGED <<running, pending, spoken, detections>>

(* audio_callback while self._running is cleared raises CallbackAbort: the   *)
(* stream delivers nothing more, but the thread polls on.                    *)
Abort(t) ==
  /\ lis[t] = "active"
  /\ ~running
  /\ hear[t] # "predict"
  /\ lis' = [lis EXCEPT ![t] = "deaf"]
  /\ hear' = [hear EXCEPT ![t] = "none"]
  /\ UNCHANGED <<running, pending, spoken, detections>>

(* The user says the wake word: every open stream carries it.                *)
Utter ==
  /\ spoken < MaxUtterances
  /\ \A t \in Listeners : hear[t] = "none"
  /\ spoken' = spoken + 1
  /\ hear' = [t \in Listeners |-> IF lis[t] = "active" THEN "audio" ELSE "none"]
  /\ UNCHANGED <<running, lis, pending, detections>>

(* audio_callback: past its test of self._running, scoring the chunk.        *)
Predict(t) ==
  /\ hear[t] = "audio"
  /\ running
  /\ hear' = [hear EXCEPT ![t] = "predict"]
  /\ UNCHANGED <<running, lis, pending, spoken, detections>>

(* The score is above the threshold, or not.  The model is reset, so one     *)
(* utterance fires a stream once; the callback runs in a thread of its own.  *)
Detect(t) ==
  /\ hear[t] = "predict"
  /\ hear' = [hear EXCEPT ![t] = "none"]
  /\ \/ /\ pending' = pending + 1
        /\ detections' = detections + 1
     \/ UNCHANGED <<pending, detections>>
  /\ UNCHANGED <<running, lis, spoken>>

Listen(t) == Open(t) \/ Notice(t) \/ Abort(t) \/ Predict(t) \/ Detect(t)
=============================================================================
