------------------------------- MODULE Camera -------------------------------
(***************************************************************************)
(* vision/camera/capture.py: the CameraManager singleton and its grabber   *)
(* thread.  The public methods run under an RLock, so each is one step.    *)
(* The grabber reads _running, _last_access_time, _cap and the privacy     *)
(* flag, and calls _cap.read(), WITHOUT that lock: each of these reads is  *)
(* a step of its own, and any method may run between two of them.          *)
(*                                                                         *)
(* A frame is represented by the number of pause() calls that preceded its *)
(* capture, which is all the privacy properties need to know of it.        *)
(***************************************************************************)
EXTENDS Naturals

CONSTANTS Threads,    \* identities of grabber threads (reused once dead)
          NoThread,   \* self._thread is None
          NoFrame,    \* None, where a frame is expected
          MaxPauses   \* bound on the pause() calls of a behaviour

ASSUME ThreadsAssumption == NoThread \notin Threads
ASSUME PausesAssumption  == MaxPauses \in Nat /\ NoFrame \notin Nat

VARIABLES active,   \* privacy.camera_active
          open,     \* self._cap is an opened device (the webcam LED is on)
          running,  \* self._running
          latest,   \* self._latest_frame
          idle,     \* now - self._last_access_time > auto_standby_seconds
          thread,   \* self._thread
          grab,     \* grab[t]: where thread t is in _capture_loop
          held,     \* held[t]: t's local variable `frame`
          pauses,   \* history: how many times pause() was called
          served    \* what the last client call returned

vars == <<active, open, running, latest, idle, thread, grab, held, pauses,
          served>>
grabber == <<thread, grab, held>>

Frames == 0 .. MaxPauses
Points == {"dead", "loop", "timeout", "release", "device", "read", "store",
           "exit"}

(* threading.Thread.is_alive(): true until the thread function has returned, *)
(* so a thread that left its loop ("exit") still counts.                     *)
Alive(t) == grab[t] # "dead"

(* self._cap.read(): a frame, or ret = False. *)
Captured == {pauses, NoFrame}

-----------------------------------------------------------------------------
Init ==
  /\ active \in BOOLEAN          \* config.CAMERA_AUTO_START
  /\ open = FALSE
  /\ running = FALSE
  /\ latest = NoFrame
  /\ idle = TRUE                 \* _last_access_time = 0.0
  /\ thread = NoThread
  /\ grab = [t \in Threads |-> "dead"]
  /\ held = [t \in Threads |-> NoFrame]
  /\ pauses = 0
  /\ served = NoFrame

(* Mutant of EnsureGrabber: no is_alive() test. *)
EnsureGrabberAlways ==
  \E t \in Threads :
    /\ ~Alive(t)
    /\ thread' = t
    /\ grab' = [grab EXCEPT ![t] = "loop"]
    /\ held' = [held EXCEPT ![t] = NoFrame]

(* A grabber is started only when self._thread is absent or not alive. *)
EnsureGrabber ==
  IF thread # NoThread /\ Alive(thread)
  THEN UNCHANGED grabber
  ELSE \E t \in Threads :
         /\ ~Alive(t)
         /\ thread' = t
         /\ grab' = [grab EXCEPT ![t] = "loop"]
         /\ held' = [held EXCEPT ![t] = NoFrame]

(* _open_hardware, when the device is closed and opening it succeeds (every  *)
(* caller has checked or just set the privacy flag).                         *)
OpenHardware ==
  /\ ~open
  /\ open' = TRUE
  /\ running' = TRUE
  /\ idle' = FALSE
  /\ EnsureGrabber

(* stop(): what it does to the shared fields, whoever calls it. *)
Release ==
  /\ running' = FALSE
  /\ open' = FALSE
  /\ latest' = NoFrame

-----------------------------------------------------------------------------
(* Client methods.  A start() that is refused, fails or finds the device     *)
(* open changes nothing and is not a step.                                   *)
Start ==
  /\ active
  /\ OpenHardware
  /\ UNCHANGED <<active, latest, pauses, served>>

Stop ==
  /\ Release
  /\ UNCHANGED <<active, idle, grabber, pauses, served>>

(* Mutant of Pause: the privacy flag without stop(). *)
PauseFlagOnly ==
  /\ pauses < MaxPauses
  /\ active' = FALSE
  /\ pauses' = pauses + 1
  /\ UNCHANGED <<open, running, latest, idle, grabber, served>>

Pause ==
  /\ pauses < MaxPauses
  /\ active' = FALSE
  /\ Release
  /\ pauses' = pauses + 1
  /\ UNCHANGED <<idle, grabber, served>>

Resume ==
  /\ active' = TRUE
  /\ \/ OpenHardware
     \/ UNCHANGED <<open, running, idle, grabber>>  \* open already, or failed
  /\ UNCHANGED <<latest, pauses, served>>

(* get_frame(): refused while paused; wakes the device; reads it when no     *)
(* frame is stored; otherwise hands out the stored one.                      *)
FrameRefused ==
  /\ ~active
  /\ served' = NoFrame
  /\ UNCHANGED <<active, open, running, latest, idle, grabber, pauses>>

FrameAsleep ==       \* auto_wake = False, or the device does not open
  /\ active /\ ~open
  /\ idle' = FALSE
  /\ served' = NoFrame
  /\ UNCHANGED <<active, open, running, latest, grabber, pauses>>

KeepCaptured ==
  \E f \in Captured :
    /\ served' = f
    /\ latest' = IF f = NoFrame THEN latest ELSE f

FrameWakes ==
  /\ active
  /\ OpenHardware
  /\ KeepCaptured
  /\ UNCHANGED <<active, pauses>>

FrameRead ==
  /\ active /\ open /\ latest = NoFrame
  /\ idle' = FALSE
  /\ KeepCaptured
  /\ UNCHANGED <<active, open, running, grabber, pauses>>

FrameStored ==
  /\ active /\ open /\ latest # NoFrame
  /\ idle' = FALSE
  /\ served' = latest
  /\ UNCHANGED <<active, open, running, latest, grabber, pauses>>

GetFrame == \/ FrameRefused \/ FrameAsleep \/ FrameWakes \/ FrameRead
            \/ FrameStored

(* capture_single_frame(): a second device handle, opened and released here. *)
CaptureSingleFrame ==
  /\ served' \in IF active THEN Captured ELSE {NoFrame}
  /\ UNCHANGED <<active, open, running, latest, idle, grabber, pauses>>

-----------------------------------------------------------------------------
(* The grabber's _capture_loop, one step per unlocked read. *)
Goto(t, p) == grab' = [grab EXCEPT ![t] = p]

TestRunning(t) ==
  /\ grab[t] = "loop"
  /\ Goto(t, IF running THEN "timeout" ELSE "exit")
  /\ UNCHANGED <<active, open, running, latest, idle, thread, held, pauses,
                 served>>

TestTimeout(t) ==
  /\ grab[t] = "timeout"
  /\ Goto(t, IF idle THEN "release" ELSE "device")
  /\ UNCHANGED <<active, open, running, latest, idle, thread, held, pauses,
                 served>>

(* Mutant of Standby: leaves the loop without stop(). *)
StandbyBreakOnly(t) ==
  /\ grab[t] = "release"
  /\ Goto(t, "exit")
  /\ UNCHANGED <<active, open, running, latest, idle, thread, held, pauses,
                 served>>

Standby(t) ==       \* self.stop(); break
  /\ grab[t] = "release"
  /\ Release
  /\ Goto(t, "exit")
  /\ UNCHANGED <<active, idle, thread, held, pauses, served>>

TestDevice(t) ==
  /\ grab[t] = "device"
  /\ Goto(t, IF open /\ active THEN "read" ELSE "loop")
  /\ UNCHANGED <<active, open, running, latest, idle, thread, held, pauses,
                 served>>

(* A device released since TestDevice is None: the AttributeError ends the   *)
(* thread.                                                                   *)
ReadDevice(t) ==
  /\ grab[t] = "read"
  /\ \/ /\ ~open
        /\ Goto(t, "exit")
        /\ UNCHANGED held
     \/ /\ open
        /\ \E f \in Captured :
             /\ held' = [held EXCEPT ![t] = f]
             /\ Goto(t, IF f = NoFrame THEN "loop" ELSE "store")
  /\ UNCHANGED <<active, open, running, latest, idle, thread, pauses, served>>

StoreFrame(t) ==    \* with self._lock: self._latest_frame = frame
  /\ grab[t] = "store"
  /\ latest' = held[t]
  /\ Goto(t, "loop")
  /\ UNCHANGED <<active, open, running, idle, thread, held, pauses, served>>

Die(t) ==
  /\ grab[t] = "exit"
  /\ Goto(t, "dead")
  /\ UNCHANGED <<active, open, running, latest, idle, thread, held, pauses,
                 served>>

Grab(t) == \/ TestRunning(t) \/ TestTimeout(t) \/ Standby(t) \/ TestDevice(t)
           \/ ReadDevice(t) \/ StoreFrame(t) \/ Die(t)

(* More than auto_standby_seconds pass since the last access. *)
Elapse ==
  /\ ~idle
  /\ idle' = TRUE
  /\ UNCHANGED <<active, open, running, latest, grabber, pauses, served>>

-----------------------------------------------------------------------------
Client == \/ Start \/ Stop \/ Pause \/ Resume \/ GetFrame
          \/ CaptureSingleFrame

Next == \/ Client
        \/ Elapse
        \/ \E t \in Threads : Grab(t)

(* The grabber is a running thread and time passes; clients owe nothing. *)
Spec == /\ Init /\ [][Next]_vars
        /\ \A t \in Threads : WF_vars(Grab(t))

-----------------------------------------------------------------------------
TypeOK ==
  /\ active \in BOOLEAN /\ open \in BOOLEAN /\ running \in BOOLEAN
  /\ idle \in BOOLEAN
  /\ latest \in Frames \cup {NoFrame}
  /\ served \in Frames \cup {NoFrame}
  /\ thread \in Threads \cup {NoThread}
  /\ grab \in [Threads -> Points]
  /\ held \in [Threads -> Frames \cup {NoFrame}]
  /\ pauses \in Frames

(* README.md:117: while the camera is paused its device handle is released,  *)
(* whatever the grabber and the other clients do.                            *)
PausedIsDark == ~active => ~open

(* However often the device is put in standby, stopped and woken, there is   *)
(* never a second grabber thread reading the same device.                    *)
OneGrabber == \A s, t \in Threads : Alive(s) /\ Alive(t) => s = t

Looping(t) == grab[t] \notin {"dead", "exit"}

(* A device that is open, idle, and polled by a grabber that has not left    *)
(* its loop is released, unless a client uses it again first.                *)
PolledStandby == \A t \in Threads :
                   (open /\ idle /\ Looping(t)) ~> (~open \/ ~idle)

(* README.md:117, "Pausing the camera completely halts frame polling": no    *)
(* frame is captured, kept or served that was taken during the pause (one    *)
(* the grabber had read just before may still be stored).                    *)
PausedCapturesNothing ==
  ~active => /\ pauses \notin {latest, served}
             /\ \A t \in Threads : held[t] # pauses
=============================================================================
