---------------------------- MODULE CameraProofs ----------------------------
(***************************************************************************)
(* Proofs about Camera for every set of threads and bound on pauses: its   *)
(* types, that a paused camera holds no open device and keeps or hands out *)
(* no frame of the pause, and that no second grabber thread is started.    *)
(***************************************************************************)
EXTENDS Camera, TLAPS

USE ThreadsAssumption, PausesAssumption

(* Starting a grabber keeps the types of the fields it touches.              *)
LEMMA EnsureGrabberTypes ==
  ASSUME TypeOK, EnsureGrabber
  PROVE  /\ thread' \in Threads \cup {NoThread}
         /\ grab' \in [Threads -> Points]
         /\ held' \in [Threads -> Frames \cup {NoFrame}]
<1>1. CASE UNCHANGED grabber
  BY <1>1 DEF TypeOK, grabber
<1>2. CASE \E t \in Threads : /\ thread' = t
                              /\ grab' = [grab EXCEPT ![t] = "loop"]
                              /\ held' = [held EXCEPT ![t] = NoFrame]
  BY <1>2 DEF TypeOK, Points
<1> QED BY <1>1, <1>2 DEF EnsureGrabber

(* What is captured is a frame or nothing.                                  *)
LEMMA CapturedTypes ==
  ASSUME TypeOK, NEW f \in Captured
  PROVE  f \in Frames \cup {NoFrame}
  BY DEF TypeOK, Captured

(* Every state of every behaviour has the types of Camera.                   *)
THEOREM TypeCorrect == Spec => []TypeOK
<1>1. Init => TypeOK
  <2> SUFFICES ASSUME Init PROVE TypeOK
    OBVIOUS
  <2>1. grab \in [Threads -> Points] /\ held \in [Threads -> Frames \cup {NoFrame}]
    BY DEF Init, Points
  <2>2. pauses \in Frames
    BY DEF Init, Frames
  <2>3. /\ active \in BOOLEAN /\ open \in BOOLEAN /\ running \in BOOLEAN
        /\ idle \in BOOLEAN
    BY Zenon DEF Init
  <2> QED BY <2>1, <2>2, <2>3 DEF Init, TypeOK
<1>2. TypeOK /\ [Next]_vars => TypeOK'
  <2> SUFFICES ASSUME TypeOK, [Next]_vars PROVE TypeOK'
    OBVIOUS
  <2>1. CASE Start
    BY <2>1, EnsureGrabberTypes DEF Start, OpenHardware, TypeOK
  <2>2. CASE Stop
    BY <2>2 DEF Stop, Release, grabber, TypeOK
  <2>3. CASE Pause
    <3>1. pauses' \in Frames
      BY <2>3 DEF Pause, TypeOK, Frames
    <3> QED BY <2>3, <3>1 DEF Pause, Release, grabber, TypeOK
  <2>4. CASE Resume
    BY <2>4, EnsureGrabberTypes DEF Resume, OpenHardware, grabber, TypeOK
  <2>5. CASE CaptureSingleFrame
    BY <2>5, CapturedTypes DEF CaptureSingleFrame, grabber, TypeOK
  <2>6. CASE FrameRefused \/ FrameAsleep \/ FrameStored
    BY <2>6 DEF FrameRefused, FrameAsleep, FrameStored, grabber, TypeOK
  <2>7. CASE FrameWakes
    BY <2>7, EnsureGrabberTypes, CapturedTypes
       DEF FrameWakes, OpenHardware, KeepCaptured, TypeOK
  <2>8. CASE FrameRead
    BY <2>8, CapturedTypes DEF FrameRead, KeepCaptured, grabber, TypeOK
  <2>9. CASE Elapse
    BY <2>9 DEF Elapse, grabber, TypeOK
  <2>10. ASSUME NEW t \in Threads, Grab(t) PROVE TypeOK'
    <3>1. CASE TestRunning(t) \/ TestTimeout(t) \/ TestDevice(t) \/ Die(t)
      BY <3>1 DEF TestRunning, TestTimeout, TestDevice, Die, Goto, TypeOK,
                  Points
    <3>2. CASE Standby(t)
      BY <3>2 DEF Standby, Release, Goto, TypeOK, Points
    <3>3. CASE ReadDevice(t)
      BY <3>3, CapturedTypes DEF ReadDevice, Goto, TypeOK, Points
    <3>4. CASE StoreFrame(t)
      BY <3>4 DEF StoreFrame, Goto, TypeOK, Points
    <3> QED BY <2>10, <3>1, <3>2, <3>3, <3>4 DEF Grab
  <2>11. CASE UNCHANGED vars
    BY <2>11 DEF vars, TypeOK
  <2> QED BY <2>1, <2>2, <2>3, <2>4, <2>5, <2>6, <2>7, <2>8, <2>9, <2>10,
             <2>11 DEF Next, Client, GetFrame
<1> QED BY <1>1, <1>2, PTL DEF Spec

-----------------------------------------------------------------------------
(* A paused camera holds no open device, at every step of every client and   *)
(* of the grabber (capture.py:71-129, README.md:117).                        *)
THEOREM PrivacyGate == Spec => []PausedIsDark
<1>1. Init => PausedIsDark
  BY DEF Init, PausedIsDark
<1>2. PausedIsDark /\ [Next]_vars => PausedIsDark'
  <2> SUFFICES ASSUME PausedIsDark, [Next]_vars PROVE PausedIsDark'
    OBVIOUS
  <2> USE DEF PausedIsDark
  <2>1. CASE Client
    BY <2>1 DEF Client, Start, Stop, Pause, Resume, GetFrame, FrameRefused,
       FrameAsleep, FrameWakes, FrameRead, FrameStored, CaptureSingleFrame,
       Release, OpenHardware
  <2>2. ASSUME NEW t \in Threads, Grab(t) PROVE PausedIsDark'
    BY <2>2 DEF Grab, TestRunning, TestTimeout, Standby, TestDevice,
       ReadDevice, StoreFrame, Die, Release
  <2>3. CASE Elapse \/ UNCHANGED vars
    BY <2>3 DEF Elapse, vars
  <2> QED BY <2>1, <2>2, <2>3 DEF Next
<1> QED BY <1>1, <1>2, PTL DEF Spec

-----------------------------------------------------------------------------
(* Only the thread self._thread refers to can be alive: the strengthening    *)
(* of OneGrabber that every step preserves.                                  *)
OnlyCurrentAlive == \A t \in Threads : Alive(t) => t = thread

(* A new grabber is started only where none is alive.                       *)
LEMMA EnsureGrabberKeeps ==
  ASSUME TypeOK, OnlyCurrentAlive, EnsureGrabber
  PROVE  OnlyCurrentAlive'
<1>1. CASE UNCHANGED grabber
  BY <1>1 DEF OnlyCurrentAlive, Alive, grabber
<1>2. CASE ~(thread # NoThread /\ Alive(thread))
  <2>1. \A t \in Threads : ~Alive(t)
    BY <1>2 DEF OnlyCurrentAlive
  <2>2. PICK u \in Threads : /\ thread' = u
                             /\ grab' = [grab EXCEPT ![u] = "loop"]
    BY <1>2 DEF EnsureGrabber
  <2> QED BY <2>1, <2>2 DEF OnlyCurrentAlive, Alive, TypeOK
<1> QED BY <1>1, <1>2 DEF EnsureGrabber

(* However standby, stop, pause and wake-ups interleave, at most one grabber *)
(* thread is alive (capture.py:90-94).                                       *)
THEOREM SingleGrabber == Spec => []OneGrabber
<1>1. Init => OnlyCurrentAlive
  BY DEF Init, OnlyCurrentAlive, Alive
<1>2. TypeOK /\ OnlyCurrentAlive /\ [Next]_vars => OnlyCurrentAlive'
  <2> SUFFICES ASSUME TypeOK, OnlyCurrentAlive, [Next]_vars
               PROVE  OnlyCurrentAlive'
    OBVIOUS
  <2>1. CASE EnsureGrabber
    BY <2>1, EnsureGrabberKeeps
  <2>2. CASE UNCHANGED grabber
    BY <2>2 DEF OnlyCurrentAlive, Alive, grabber
  <2>3. ASSUME NEW t \in Threads, Grab(t) PROVE OnlyCurrentAlive'
    <3>1. grab[t] # "dead" /\ thread' = thread
      BY <2>3 DEF Grab, TestRunning, TestTimeout, Standby, TestDevice,
         ReadDevice, StoreFrame, Die
    <3>2. \A u \in Threads : u # t => grab'[u] = grab[u]
      BY <2>3 DEF Grab, TestRunning, TestTimeout, Standby, TestDevice,
         ReadDevice, StoreFrame, Die, Goto, TypeOK
    <3> QED BY <3>1, <3>2 DEF OnlyCurrentAlive, Alive
  <2>4. ASSUME Client PROVE EnsureGrabber \/ UNCHANGED grabber
    BY <2>4 DEF Client, Start, Stop, Pause, Resume, GetFrame, FrameRefused,
       FrameAsleep, FrameWakes, FrameRead, FrameStored, CaptureSingleFrame,
       OpenHardware
  <2>5. CASE Elapse \/ UNCHANGED vars
    BY <2>2, <2>5 DEF Elapse, vars, grabber
  <2> QED BY <2>1, <2>2, <2>3, <2>4, <2>5 DEF Next
<1>3. OnlyCurrentAlive => OneGrabber
  BY DEF OnlyCurrentAlive, OneGrabber
<1> QED BY <1>1, <1>2, <1>3, TypeCorrect, PTL DEF Spec

-----------------------------------------------------------------------------
(* A frame, wherever it is kept, was captured after at most as many pauses   *)
(* as there have been: what makes the next pause later than all of them.     *)
Past == (0 .. pauses) \cup {NoFrame}

FramesArePast ==
  /\ latest \in Past /\ served \in Past
  /\ \A t \in Threads : held[t] \in Past

(* A new grabber holds no frame.                                            *)
LEMMA EnsureGrabberHolds ==
  ASSUME TypeOK, EnsureGrabber, NEW t \in Threads
  PROVE  held'[t] \in {held[t], NoFrame}
BY DEF TypeOK, EnsureGrabber, grabber

(* No frame is captured, kept or served that was taken during the pause,     *)
(* whatever the grabber had read before it (capture.py:113-122, 186-207).    *)
THEOREM PauseHaltsCapture == Spec => []PausedCapturesNothing
<1> DEFINE Inv == FramesArePast /\ PausedCapturesNothing
<1>1. Init => Inv
  BY DEF Init, FramesArePast, Past, PausedCapturesNothing
<1>2. TypeOK /\ PausedIsDark /\ Inv /\ [Next]_vars => Inv'
  <2> SUFFICES ASSUME TypeOK, PausedIsDark, Inv, [Next]_vars PROVE Inv'
    OBVIOUS
  <2> USE DEF FramesArePast, Past, PausedCapturesNothing
  <2>0. pauses \in Nat /\ NoFrame \notin Nat
    BY DEF TypeOK, Frames
  <2>1. CASE Start
    <3>1. \A t \in Threads : held'[t] \in {held[t], NoFrame}
      BY <2>1, EnsureGrabberHolds DEF Start, OpenHardware
    <3> QED BY <2>0, <2>1, <3>1 DEF Start
  <2>2. CASE Stop
    BY <2>0, <2>2 DEF Stop, Release, grabber
  <2>3. CASE Pause
    BY <2>0, <2>3 DEF Pause, Release, grabber
  <2>4. CASE Resume
    <3>1. \A t \in Threads : held'[t] \in {held[t], NoFrame}
      BY <2>4, EnsureGrabberHolds DEF Resume, OpenHardware, grabber
    <3> QED BY <2>0, <2>4, <3>1 DEF Resume
  <2>5. CASE CaptureSingleFrame
    BY <2>0, <2>5 DEF CaptureSingleFrame, Captured, grabber
  <2>6. CASE FrameRefused \/ FrameAsleep \/ FrameStored
    BY <2>0, <2>6 DEF FrameRefused, FrameAsleep, FrameStored, grabber
  <2>7. CASE FrameWakes
    <3>1. \A t \in Threads : held'[t] \in {held[t], NoFrame}
      BY <2>7, EnsureGrabberHolds DEF FrameWakes, OpenHardware
    <3> QED BY <2>0, <2>7, <3>1 DEF FrameWakes, KeepCaptured, Captured
  <2>8. CASE FrameRead
    BY <2>0, <2>8 DEF FrameRead, KeepCaptured, Captured, grabber
  <2>9. CASE Elapse
    BY <2>9 DEF Elapse, grabber
  <2>10. ASSUME NEW t \in Threads, Grab(t) PROVE Inv'
    <3>1. CASE TestRunning(t) \/ TestTimeout(t) \/ TestDevice(t) \/ Die(t)
      BY <3>1 DEF TestRunning, TestTimeout, TestDevice, Die
    <3>2. CASE Standby(t)
      BY <2>0, <3>2 DEF Standby, Release
    <3>3. CASE ReadDevice(t)
      <4>1. UNCHANGED <<active, latest, served, pauses>>
        BY <3>3 DEF ReadDevice
      <4>2. ASSUME NEW u \in Threads
            PROVE  held'[u] = held[u] \/ (active /\ held'[u] \in Captured)
        <5>1. CASE held' = held
          BY <5>1, Zenon
        <5>2. CASE open /\ \E f \in Captured : held' = [held EXCEPT ![t] = f]
          <6>1. active /\ held \in [Threads -> Frames \cup {NoFrame}]
            BY <5>2 DEF PausedIsDark, TypeOK
          <6>2. PICK f \in Captured : held' = [held EXCEPT ![t] = f]
            BY <5>2
          <6>3. held'[u] = held[u] \/ held'[u] \in Captured
            BY <6>1, <6>2
          <6> QED BY <6>1, <6>3, Zenon
        <5> QED BY <3>3, <5>1, <5>2 DEF ReadDevice
      <4> QED BY <2>0, <4>1, <4>2 DEF Captured
    <3>4. CASE StoreFrame(t)
      BY <3>4 DEF StoreFrame
    <3> QED BY <2>10, <3>1, <3>2, <3>3, <3>4 DEF Grab
  <2>11. CASE UNCHANGED vars
    BY <2>11 DEF vars
  <2> QED BY <2>1, <2>2, <2>3, <2>4, <2>5, <2>6, <2>7, <2>8, <2>9, <2>10,
             <2>11 DEF Next, Client, GetFrame
<1>3. Inv => PausedCapturesNothing
  OBVIOUS
<1> QED BY <1>1, <1>2, <1>3, TypeCorrect, PrivacyGate, PTL DEF Spec
=============================================================================
