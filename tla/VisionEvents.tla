---------------------------- MODULE VisionEvents ----------------------------
(***************************************************************************)
(* vision/camera/events.py: VisionEventLoop, which polls the camera, and   *)
(* writes a row to episodic_events when the number of people before it     *)
(* changes or an enrolled face appears; with PersonDetector, FaceRecognizer*)
(* and StructuredMemory.log_event as it uses them.  The room changes and   *)
(* Dad gives commands between any two steps of a poll, a write or a look   *)
(* may fail, and SON may be killed and started again.  son.py gives the    *)
(* loop no callback and never stops it.  A frame shows who is before the   *)
(* camera; the grabber behind it is in Camera.                             *)
(***************************************************************************)
EXTENDS Naturals, FiniteSets

CONSTANTS People,       \* who may stand before the camera
          Enrolled,     \* whose faces are enrolled
          MaxMoves,     \* bound on the changes of the room
          MaxCommands,  \* bound on Dad's privacy commands
          MaxFaults,    \* bound on failed looks and writes
          MaxRestarts   \* bound on restarts

ASSUME VisionAssumption ==
  /\ IsFiniteSet(People) /\ Enrolled \subseteq People
  /\ {MaxMoves, MaxCommands, MaxFaults, MaxRestarts} \subseteq Nat

VARIABLES room,      \* who is before the camera
          active,    \* privacy.camera_active
          pc,        \* where the loop is in a poll
          frame,     \* who is in the frame
          names,     \* current_names
          pending,   \* new_recognitions yet to be written
          counted,   \* _last_person_count
          known,     \* _last_detected_names
          row,       \* count of the latest person_entered or person_left
                     \* row of this run of SON, 0 if it has none
          named,     \* names in the known_person_detected rows of this run
          left       \* what is left of the bounds

vars == <<room, active, pc, frame, names, pending, counted, known,
          row, named, left>>
poll    == <<frame, names, pending>>
world   == <<room, active, left>>
written == <<row, named>>

Bounds == {"moves", "commands", "faults", "restarts"}

Spend(b) == /\ left[b] > 0
            /\ left' = [left EXCEPT ![b] = @ - 1]

Init ==
  /\ room \in SUBSET People
  /\ active = TRUE
  /\ pc = "poll"
  /\ frame = {} /\ names = {} /\ pending = {}
  /\ counted = 0 /\ known = {} /\ row = 0 /\ named = {}
  /\ left = [b \in Bounds |-> CASE b = "moves" -> MaxMoves
                                [] b = "commands" -> MaxCommands
                                [] b = "faults" -> MaxFaults
                                [] OTHER -> MaxRestarts]

-----------------------------------------------------------------------------
(* Someone comes or goes.                                                    *)
Move(p) ==
  /\ Spend("moves")
  /\ room' = IF p \in room THEN room \ {p} ELSE room \cup {p}
  /\ UNCHANGED <<active, pc, poll, counted, known, written>>

(* "Pause camera" and "Resume camera"; the two other privacy flags, on from  *)
(* the start, have no caller.                                                *)
Command ==
  /\ Spend("commands")
  /\ active' = ~active
  /\ UNCHANGED <<room, pc, poll, counted, known, written>>

(* SON is killed and started again, with CAMERA_AUTO_START: the rows stay,   *)
(* the camera is on and the loop starts afresh.                              *)
Restart ==
  /\ Spend("restarts")
  /\ pc' = "poll"
  /\ frame' = {} /\ names' = {} /\ pending' = {}
  /\ counted' = 0 /\ known' = {} /\ row' = 0 /\ named' = {}
  /\ active' = TRUE
  /\ UNCHANGED room

-----------------------------------------------------------------------------
(* The top of the loop; it sleeps while the camera is off.                   *)
Check ==
  /\ pc = "poll" /\ active
  /\ pc' = "frame"
  /\ UNCHANGED <<world, poll, counted, known, written>>

(* get_frame() looks at camera_active itself.                                *)
GetFrame ==
  /\ pc = "frame"
  /\ IF active
     THEN frame' = room /\ pc' = "detect"
     ELSE UNCHANGED frame /\ pc' = "poll"
  /\ UNCHANGED <<world, names, pending, counted, known, written>>

(* detect(), and the row of a count that went up or down.                    *)
Detect ==
  /\ pc = "detect"
  /\ row' = IF Cardinality(frame) # counted THEN Cardinality(frame) ELSE row
  /\ pc' = "count"
  /\ UNCHANGED <<world, poll, counted, known, named>>

Count ==
  /\ pc = "count"
  /\ counted' = Cardinality(frame)
  /\ IF frame # {}
     THEN pc' = "recognize" /\ UNCHANGED known
     ELSE pc' = "poll" /\ known' = {}
  /\ UNCHANGED <<world, poll, written>>

(* recognize_frame(); a face may be turned away.                             *)
Recognize ==
  /\ pc = "recognize"
  /\ \/ names' = frame \cap Enrolled /\ UNCHANGED left
     \/ /\ Spend("faults")
        /\ \E p \in frame \cap Enrolled : names' = (frame \cap Enrolled) \ {p}
  /\ pending' = names' \ known
  /\ pc' = "names"
  /\ UNCHANGED <<room, active, frame, counted, known, written>>

(* The row of one new name; a set has no order.                              *)
LogName(n) ==
  /\ pc = "names" /\ n \in pending
  /\ pending' = pending \ {n}
  /\ named' = named \cup {n}
  /\ UNCHANGED <<world, pc, frame, names, counted, known, row>>

NamesDone ==
  /\ pc = "names" /\ pending = {}
  /\ known' = names
  /\ pc' = "poll"
  /\ UNCHANGED <<world, poll, counted, written>>

(* Mutants of Fails: the count is kept although its row was not written; the *)
(* thread ends.                                                              *)
FailsCounted ==
  /\ Spend("faults")
  /\ pc \in {"frame", "detect", "recognize", "names"}
  /\ counted' = IF pc = "detect" THEN Cardinality(frame) ELSE counted
  /\ pc' = "poll"
  /\ UNCHANGED <<room, active, poll, known, written>>

FailsForGood ==
  /\ Spend("faults")
  /\ pc \in {"frame", "detect", "recognize", "names"}
  /\ pc' = "ended"
  /\ UNCHANGED <<room, active, poll, counted, known, written>>

(* No frame could be read, or a call raised: the poll is given up, and       *)
(* nothing after that call is done.                                          *)
Fails ==
  /\ Spend("faults")
  /\ \/ pc \in {"frame", "detect", "recognize"}
     \/ pc = "names" /\ pending # {}
  /\ pc' = "poll"
  /\ UNCHANGED <<room, active, poll, counted, known, written>>

Loop == \/ Check \/ GetFrame \/ Detect \/ Count \/ Recognize \/ NamesDone
        \/ \E n \in Enrolled : LogName(n)

Next == \/ Loop \/ Fails \/ Restart
        \/ (\E p \in People : Move(p)) \/ Command

(* The loop's thread runs; nothing else need happen.                         *)
Spec == Init /\ [][Next]_vars /\ WF_vars(Loop)

-----------------------------------------------------------------------------
TypeOK ==
  /\ room \in SUBSET People /\ active \in BOOLEAN
  /\ pc \in {"poll", "frame", "detect", "count", "recognize", "names"}
  /\ frame \in SUBSET People
  /\ names \in SUBSET Enrolled /\ pending \in SUBSET names
  /\ counted \in 0 .. Cardinality(People) /\ row \in 0 .. Cardinality(People)
  /\ known \in SUBSET Enrolled /\ named \in SUBSET Enrolled
  /\ left \in [Bounds -> Nat]

(* events.py:83-119, through failed writes, pauses and commands: what the    *)
(* loop takes as known is in the rows.  The latest presence row tells the    *)
(* count it compares with, but for the moment between the two, and every     *)
(* name it will not report again has been reported.                          *)
RowsTellAll ==
  /\ row = IF pc = "count" THEN Cardinality(frame) ELSE counted
  /\ known \subseteq named

(* events.py:65-121: a failed poll is made up for.  Whoever stays before a   *)
(* camera that stays on is counted, and named if enrolled.                   *)
RoomReported ==
  /\ counted # Cardinality(room) ~> counted = Cardinality(room) \/ ~active
  /\ \A n \in Enrolled : n \in room ~> n \in known \/ n \notin room \/ ~active
=============================================================================
