--------------------------- MODULE ListeningProofs --------------------------
(***************************************************************************)
(* Proofs about how SON listens: RingBuffer, Recorder and VoiceLoop, for   *)
(* every capacity, set of writers, pre-roll and length of recording, and   *)
(* any number of listening threads.  First the buffer alone: its types,    *)
(* that no wakeup is lost although the event is set outside the lock, and  *)
(* that a reader that is not lapped finds every unread chunk in its slot.  *)
(* Then record_vad and its callback, which use the buffer one operation at *)
(* a time: what is proved of it holds of every recording, and a recording  *)
(* is a gapless piece of the stream that begins a pre-roll before its      *)
(* first loud chunk.  Last the conversation loop, in which a recording is  *)
(* one step: turns come from detections, and the loop waits with detection *)
(* on.                                                                     *)
(***************************************************************************)
EXTENDS Recorder, VoiceLoop, SequenceTheorems, TLAPS

USE CapacityAssumption, MaxChunksAssumption, RecordingAssumption

(* Facts of % on the naturals that the slot arithmetic rests on.             *)
LEMMA ModInRange ==
  ASSUME NEW i \in Nat
  PROVE  i % Capacity \in 0 .. Capacity - 1
  OBVIOUS

(* Two different indices less than a lap apart never share a slot.           *)
LEMMA SlotsDistinct ==
  ASSUME NEW i \in Nat, NEW j \in Nat, i < j, j < i + Capacity
  PROVE  i % Capacity # j % Capacity
<1> DEFINE p == i \div Capacity
           q == j \div Capacity
<1>1. /\ p \in Int /\ q \in Int
      /\ i = Capacity * p + (i % Capacity)
      /\ j = Capacity * q + (j % Capacity)
  OBVIOUS
<1> HIDE DEF p, q
<1>2. SUFFICES ASSUME i % Capacity = j % Capacity PROVE FALSE
  OBVIOUS
<1>3. /\ i % Capacity \in Int
      /\ j - i = Capacity * (q - p)
  BY <1>1, <1>2
<1>4. CASE q - p <= 0
  <2>1. Capacity * (q - p) <= 0
    BY <1>1, <1>4
  <2> QED BY <1>3, <2>1
<1>5. CASE q - p >= 1
  <2>1. Capacity * (q - p) >= Capacity
    BY <1>1, <1>5
  <2> QED BY <1>3, <2>1
<1> QED BY <1>1, <1>4, <1>5

-----------------------------------------------------------------------------
(* Every state of every behaviour has the types of RingBuffer.               *)
THEOREM TypeCorrect == Spec => []TypeOK
<1>1. Init => TypeOK
  <2> SUFFICES ASSUME Init PROVE TypeOK
    OBVIOUS
  <2>1. slot \in [0 .. Capacity - 1 -> Nat]
    BY DEF Init
  <2>2. wpc \in [Writers -> {"idle", "signal"}]
    BY DEF Init
  <2> QED BY <2>1, <2>2 DEF Init, TypeOK
<1>2. TypeOK /\ [Next]_bufferVars => TypeOK'
  <2> SUFFICES ASSUME TypeOK, [Next]_bufferVars PROVE TypeOK'
    OBVIOUS
  <2> USE DEF TypeOK
  <2>1. ASSUME NEW w \in Writers, Write(w) PROVE TypeOK'
    <3>1. writeIdx % Capacity \in 0 .. Capacity - 1
      BY ModInRange
    <3> QED BY <2>1, <3>1 DEF Write
  <2>2. ASSUME NEW w \in Writers, Signal(w) PROVE TypeOK'
    BY <2>2 DEF Signal
  <2>3. CASE Wake
    BY <2>3 DEF Wake
  <2>4. CASE ReadNothing
    BY <2>4 DEF ReadNothing
  <2>5. CASE ReadChunk
    <3>1. readIdx % Capacity \in 0 .. Capacity - 1
      BY ModInRange
    <3> QED BY <2>5, <3>1 DEF ReadChunk
  <2>6. CASE Clear
    BY <2>6 DEF Clear
  <2>7. CASE UNCHANGED bufferVars
    BY <2>7 DEF bufferVars
  <2> QED BY <2>1, <2>2, <2>3, <2>4, <2>5, <2>6, <2>7 DEF Next
<1> QED BY <1>1, <1>2, PTL DEF Spec

-----------------------------------------------------------------------------
(* An unread chunk is always announced: the event is set, or a writer that   *)
(* released the lock has yet to set it (audio.py:46-70).                     *)
THEOREM WakeupNotLost == Spec => []NoLostSignal
<1>1. Init => NoLostSignal
  BY DEF Init, NoLostSignal
<1>2. TypeOK /\ NoLostSignal /\ [Next]_bufferVars => NoLostSignal'
  <2> SUFFICES ASSUME TypeOK, NoLostSignal, [Next]_bufferVars
               PROVE  NoLostSignal'
    OBVIOUS
  <2> USE DEF TypeOK, NoLostSignal
  <2>1. ASSUME NEW w \in Writers, Write(w) PROVE NoLostSignal'
    BY <2>1 DEF Write
  <2>2. ASSUME NEW w \in Writers, Signal(w) PROVE NoLostSignal'
    BY <2>2 DEF Signal
  <2>3. CASE Wake
    BY <2>3 DEF Wake
  <2>4. CASE ReadNothing
    BY <2>4 DEF ReadNothing
  <2>5. CASE ReadChunk
    BY <2>5 DEF ReadChunk
  <2>6. CASE Clear
    BY <2>6 DEF Clear
  <2>7. CASE UNCHANGED bufferVars
    BY <2>7 DEF bufferVars
  <2> QED BY <2>1, <2>2, <2>3, <2>4, <2>5, <2>6, <2>7 DEF Next
<1> QED BY <1>1, <1>2, TypeCorrect, PTL DEF Spec

-----------------------------------------------------------------------------
(* The last Capacity chunks written since the last clear() are in their      *)
(* slots, read or not, and the reader never passes the writer: the           *)
(* strengthening of UnreadIntact that every step preserves.                  *)
LastLapKept ==
  \A i \in Nat : i < writeIdx /\ writeIdx <= i + Capacity =>
                   slot[i % Capacity] = ChunkAt(i)

(* write() and read() keep it.                                               *)
LEMMA LastLapAlwaysKept == Spec => []LastLapKept
<1>1. Init => LastLapKept
  BY DEF Init, LastLapKept
<1>2. TypeOK /\ LastLapKept /\ [Next]_bufferVars => LastLapKept'
  <2> SUFFICES ASSUME TypeOK, LastLapKept, [Next]_bufferVars,
                      NEW i \in Nat, i < writeIdx', writeIdx' <= i + Capacity
               PROVE  slot'[i % Capacity] = ChunkAt(i)'
    BY DEF LastLapKept
  <2>1. ASSUME NEW w \in Writers, Write(w)
        PROVE  slot'[i % Capacity] = ChunkAt(i)'
    <3>1. /\ writeIdx' = writeIdx + 1 /\ produced' = produced + 1
          /\ slot' = [slot EXCEPT ![writeIdx % Capacity] = produced + 1]
      BY <2>1 DEF Write
    <3>2. /\ writeIdx % Capacity \in 0 .. Capacity - 1
          /\ i % Capacity \in 0 .. Capacity - 1
          /\ DOMAIN slot = 0 .. Capacity - 1
      BY ModInRange DEF TypeOK
    <3>3. ChunkAt(i)' = ChunkAt(i)
      BY <3>1 DEF ChunkAt, TypeOK
    <3>4. CASE i = writeIdx
      <4>1. ChunkAt(i) = produced + 1
        BY <3>4 DEF ChunkAt, TypeOK
      <4> QED BY <3>1, <3>2, <3>3, <3>4, <4>1
    <3>5. CASE i < writeIdx
      <4>1. writeIdx \in Nat /\ i < writeIdx /\ writeIdx < i + Capacity
        BY <3>1, <3>5 DEF TypeOK
      <4>2. i % Capacity # writeIdx % Capacity
        BY <4>1, SlotsDistinct
      <4>3. slot[i % Capacity] = ChunkAt(i)
        BY <4>1 DEF LastLapKept, TypeOK
      <4>4. slot'[i % Capacity] = slot[i % Capacity]
        BY <3>1, <3>2, <4>2
      <4> QED BY <3>3, <4>3, <4>4
    <3> QED BY <3>1, <3>4, <3>5 DEF TypeOK
  <2>2. CASE Clear
    BY <2>2 DEF Clear
  <2>3. CASE UNCHANGED <<slot, writeIdx, produced>>
    BY <2>3 DEF LastLapKept, ChunkAt
  <2> QED BY <2>1, <2>2, <2>3
          DEF Next, Signal, Wake, ReadNothing, ReadChunk, bufferVars
<1> QED BY <1>1, <1>2, TypeCorrect, PTL DEF Spec

(* A reader at most one lap behind finds every unread chunk in its slot      *)
(* (audio.py:44-70).                                                         *)
THEOREM UnreadKept == Spec => []UnreadIntact
<1>1. TypeOK /\ LastLapKept => UnreadIntact
  <2> SUFFICES ASSUME TypeOK, LastLapKept, writeIdx - readIdx <= Capacity,
                      NEW i \in readIdx .. writeIdx - 1
               PROVE  slot[i % Capacity] = ChunkAt(i)
    BY DEF UnreadIntact
  <2>1. i \in Nat /\ i < writeIdx /\ writeIdx <= i + Capacity
    BY DEF TypeOK
  <2> QED BY <2>1 DEF LastLapKept
<1> QED BY <1>1, LastLapAlwaysKept, TypeCorrect, PTL

-----------------------------------------------------------------------------
(* record_vad clears, reads and, through the callback, writes the buffer one *)
(* RingBuffer operation at a time.                                           *)
THEOREM UsesTheBuffer == RecSpec => Spec
<1>1. RecInit => Init
  BY DEF RecInit
<1>2. [RecNext]_allVars => [Next]_bufferVars
  <2> SUFFICES ASSUME [RecNext]_allVars PROVE [Next]_bufferVars
    OBVIOUS
  <2>1. CASE Begin
    BY <2>1 DEF Begin, Next
  <2>2. CASE Await
    BY <2>2 DEF Await, Next
  <2>3. CASE Hear
    BY <2>3 DEF Hear, Next
  <2>4. CASE Finish \/ StopRecording
    BY <2>4 DEF Finish, StopRecording
  <2>5. ASSUME NEW w \in Writers, Callback(w) PROVE Next
    BY <2>5 DEF Callback, Next
  <2>6. CASE UNCHANGED allVars
    BY <2>6 DEF allVars
  <2> QED BY <2>1, <2>2, <2>3, <2>4, <2>5, <2>6 DEF RecNext, Loop
<1> QED BY <1>1, <1>2, PTL DEF RecSpec, Spec

(* While record_vad waits for a chunk, one that the callback has written is  *)
(* announced (audio.py:46-70).                                               *)
THEOREM RecordingIsWoken == RecSpec => []NoLostSignal
<1> QED BY UsesTheBuffer, WakeupNotLost, PTL

(* A recording that is not lapped reads every chunk from its slot.           *)
THEOREM RecordingReadsTheStream == RecSpec => []UnreadIntact
<1> QED BY UsesTheBuffer, UnreadKept, PTL

-----------------------------------------------------------------------------
(* The reader of a recording is at chunk start + readIdx, and a flag tells   *)
(* when the writer has been more than a lap ahead of it.                     *)
Position ==
  /\ start \in Nat \ {0}
  /\ produced + 1 = start + writeIdx
  /\ readIdx <= writeIdx
  /\ ~lapped => writeIdx <= readIdx + Capacity

(* s holds the chunks from f up to the one before e, in their order.         *)
Latest(s, f, e) ==
  /\ f + Len(s) = e
  /\ \A i \in 1 .. Len(s) : s[i] = f + i - 1

(* The chunk PreRoll before chunk n, or the first of the recording.          *)
Before(n) == IF n - PreRoll < start THEN start ELSE n - PreRoll

(* Before any speech the pre-roll holds the latest PreRoll chunks; from then *)
(* on the recording holds all from the pre-roll of the trigger on.           *)
Heard ==
  ~lapped =>
    /\ ~speech => kept = <<>> /\ Latest(preroll, Before(start + readIdx), start + readIdx)
    /\ speech => /\ trigger \in Nat /\ start <= trigger
                 /\ trigger < start + readIdx
                 /\ Latest(kept, Before(trigger), start + readIdx)

Sequenced == preroll \in Seq(Nat) /\ kept \in Seq(Nat) /\ speech \in BOOLEAN

RecInv == Sequenced /\ Position /\ Heard

(* A piece of the stream with the next chunk appended ends one later.        *)
LEMMA Extended ==
  ASSUME NEW s \in Seq(Nat), NEW f \in Nat, NEW e \in Nat, Latest(s, f, e)
  PROVE  Latest(Append(s, e), f, e + 1) /\ Append(s, e) \in Seq(Nat)
<1> DEFINE t == Append(s, e)
<1>1. /\ t \in Seq(Nat) /\ Len(t) = Len(s) + 1
      /\ \A i \in 1 .. Len(s) : t[i] = s[i]
      /\ t[Len(s) + 1] = e
  BY AppendProperties
<1>2. Len(s) \in Nat
  OBVIOUS
<1> HIDE DEF t
<1>3. ASSUME NEW i \in 1 .. Len(t) PROVE t[i] = f + i - 1
  <2>1. CASE i = Len(s) + 1
    BY <1>1, <1>2, <2>1 DEF Latest
  <2>2. CASE i \in 1 .. Len(s)
    BY <1>1, <2>2 DEF Latest
  <2> QED BY <1>1, <1>2, <2>1, <2>2
<1>4. f + Len(t) = e + 1
  <2>1. f + Len(s) = e
    BY DEF Latest
  <2> QED BY <1>1, <1>2, <2>1
<1>5. Latest(t, f, e + 1)
  BY <1>3, <1>4 DEF Latest
<1> QED BY <1>1, <1>5 DEF t

(* Without its oldest chunk it begins one later.                             *)
LEMMA Shortened ==
  ASSUME NEW s \in Seq(Nat), NEW f \in Nat, NEW e \in Nat, Latest(s, f, e),
         s # <<>>
  PROVE  Latest(Tail(s), f + 1, e) /\ Tail(s) \in Seq(Nat)
<1> DEFINE t == Tail(s)
<1>1. /\ t \in Seq(Nat) /\ Len(t) = Len(s) - 1
      /\ \A i \in 1 .. Len(t) : t[i] = s[i + 1]
  BY HeadTailProperties
<1>2. Len(s) \in Nat
  OBVIOUS
<1> HIDE DEF t
<1>3. ASSUME NEW i \in 1 .. Len(t) PROVE t[i] = (f + 1) + i - 1
  <2>1. i + 1 \in 1 .. Len(s)
    BY <1>1, <1>2
  <2>2. s[i + 1] = f + (i + 1) - 1
    BY <2>1 DEF Latest
  <2> QED BY <1>1, <2>2
<1>4. (f + 1) + Len(t) = e
  <2>1. \A n \in Nat : (f + 1) + (n - 1) = f + n
    OBVIOUS
  <2> QED BY <1>1, <1>2, <2>1 DEF Latest
<1>5. Latest(t, f + 1, e)
  BY <1>3, <1>4 DEF Latest
<1> QED BY <1>1, <1>5 DEF t

(* At the beginning nothing has been heard.                                  *)
LEMMA RecInitInv == RecInit => RecInv
<1> SUFFICES ASSUME RecInit PROVE RecInv
  OBVIOUS
<1>1. Sequenced
  <2>1. <<>> \in Seq(Nat) /\ FALSE \in BOOLEAN
    OBVIOUS
  <2> QED BY <2>1, Zenon DEF RecInit, Sequenced
<1>2. Position
  <2>1. start = 1 /\ produced = 0 /\ writeIdx = 0 /\ readIdx = 0
    BY DEF RecInit, Init
  <2> QED BY <2>1 DEF Position
<1>3. Heard
  BY DEF RecInit, Init, Heard, Latest, Before
<1> QED BY <1>1, <1>2, <1>3 DEF RecInv

(* clear() starts the count of chunks anew (audio.py:198).                   *)
LEMMA BeginKeeps ==
  ASSUME TypeOK, RecInv, Begin PROVE RecInv'
<1>1. Sequenced'
  <2>1. <<>> \in Seq(Nat) /\ FALSE \in BOOLEAN
    OBVIOUS
  <2> QED BY <2>1, Zenon DEF Begin, Sequenced
<1>2. Position'
  <2>1. /\ start' = produced + 1 /\ produced' = produced /\ produced \in Nat
        /\ writeIdx' = 0 /\ readIdx' = 0
    BY DEF TypeOK, Begin, Clear
  <2> QED BY <2>1 DEF Position
<1>3. start' \in Nat /\ readIdx' = 0
  BY DEF TypeOK, Begin, Clear
<1>4. ~speech' /\ kept' = <<>> /\ preroll' = <<>>
  BY DEF Begin
<1>5. Before(start + readIdx)' = (start + readIdx)'
  <2>1. \A n \in Nat : n + 0 = n /\ n - PreRoll < n
    OBVIOUS
  <2>2. (start + readIdx)' = start' /\ start' - PreRoll < start'
    BY <1>3, <2>1
  <2> QED BY <2>2 DEF Before
<1>6. Heard'
  BY <1>3, <1>4, <1>5 DEF Heard, Latest
<1> QED BY <1>1, <1>2, <1>6 DEF RecInv

(* The chunk the loop reads is the next of the stream, if it is not lapped.  *)
LEMMA NextOfStream ==
  ASSUME TypeOK, LastLapKept, Position, ReadChunk
  PROVE  /\ last' \in Nat /\ readIdx' = readIdx + 1
         /\ readIdx < writeIdx /\ UNCHANGED <<writeIdx, produced>>
         /\ ~lapped => last' = start + readIdx
<1>1. /\ readIdx \in Nat /\ writeIdx \in Nat /\ produced \in Nat
      /\ readIdx < writeIdx /\ last' = slot[readIdx % Capacity]
      /\ readIdx' = readIdx + 1 /\ UNCHANGED <<writeIdx, produced>>
  BY DEF TypeOK, ReadChunk
<1>2. last' \in Nat
  BY <1>1, ModInRange DEF TypeOK
<1>3. ASSUME ~lapped PROVE last' = start + readIdx
  <2>1. writeIdx <= readIdx + Capacity
    BY <1>3 DEF Position
  <2>2. last' = ChunkAt(readIdx)
    BY <1>1, <2>1 DEF LastLapKept
  <2> QED BY <1>1, <2>2 DEF ChunkAt, Position
<1> QED BY <1>1, <1>2, <1>3

(* An iteration adds the chunk to the recording, or to the pre-roll, whose   *)
(* deque drops its oldest one.                                               *)
LEMMA HearKeeps ==
  ASSUME TypeOK, LastLapKept, RecInv, Hear PROVE RecInv'
<1> DEFINE e == start + readIdx
<1>1. /\ Sequenced /\ Position /\ Heard
      /\ UNCHANGED <<start, lapped>>
  BY DEF RecInv, Hear
<1>2. /\ last' \in Nat /\ readIdx' = readIdx + 1
      /\ readIdx < writeIdx /\ UNCHANGED <<writeIdx, produced>>
      /\ ~lapped => last' = e
  BY <1>1, NextOfStream DEF Hear
<1>3. /\ start \in Nat \ {0} /\ readIdx \in Nat /\ e \in Nat /\ start <= e
      /\ (start + readIdx)' = e + 1 /\ writeIdx \in Nat
  BY <1>1, <1>2 DEF Position, TypeOK
<1>4. Position'
  <2>1. ASSUME ~lapped PROVE writeIdx' <= readIdx' + Capacity
    <3>1. writeIdx <= readIdx + Capacity
      BY <1>1, <2>1 DEF Position
    <3> QED BY <1>2, <1>3, <3>1
  <2>2. readIdx' <= writeIdx'
    BY <1>2, <1>3
  <2> QED BY <1>1, <1>2, <2>1, <2>2 DEF Position
<1> HIDE DEF e
<1>5. CASE HearLoud
  <2>1. CASE speech
    <3>1. kept' = Append(kept, last') /\ UNCHANGED <<preroll, trigger>> /\ speech'
      BY <1>1, <1>2, <1>5, <2>1, AppendIsConcat DEF HearLoud, Sequenced
    <3>2. Sequenced'
      BY <1>1, <1>2, <3>1, AppendProperties DEF Sequenced
    <3>3. Heard'
      <4>1. SUFFICES ASSUME ~lapped PROVE Heard'
        BY <1>1 DEF Heard
      <4>2. /\ trigger \in Nat /\ start <= trigger /\ trigger < e
            /\ Latest(kept, Before(trigger), e)
        BY <1>1, <2>1, <4>1 DEF Heard, e
      <4>3. Before(trigger) \in Nat
        BY <1>3, <4>2 DEF Before
      <4>4. Latest(kept', Before(trigger), e + 1)
        BY <1>1, <1>2, <1>3, <3>1, <4>1, <4>2, <4>3, Extended DEF Sequenced
      <4>5. Before(trigger)' = Before(trigger)
        BY <1>1, <3>1 DEF Before
      <4> QED BY <1>1, <1>3, <3>1, <4>2, <4>4, <4>5 DEF Heard
    <3> QED BY <1>4, <3>2, <3>3 DEF RecInv
  <2>2. CASE ~speech
    <3>1. kept' = kept \o preroll \o <<last'>> /\ trigger' = last' /\ speech'
          /\ UNCHANGED preroll
      BY <1>5, <2>2 DEF HearLoud
    <3>2. Sequenced'
      BY <1>1, <1>2, <3>1 DEF Sequenced
    <3>3. Heard'
      <4>1. SUFFICES ASSUME ~lapped PROVE Heard'
        BY <1>1 DEF Heard
      <4>2. kept = <<>> /\ Latest(preroll, Before(e), e) /\ last' = e
        BY <1>1, <1>2, <2>2, <4>1 DEF Heard, e
      <4>3. kept' = Append(preroll, e)
        BY <1>1, <1>3, <3>1, <4>2, AppendIsConcat, ConcatEmptySeq DEF Sequenced
      <4>4. Before(e) \in Nat
        BY <1>3 DEF Before
      <4>5. Latest(kept', Before(e), e + 1)
        BY <1>1, <1>3, <4>2, <4>3, <4>4, Extended DEF Sequenced
      <4>6. Before(trigger)' = Before(e)
        BY <1>1, <3>1, <4>2 DEF Before
      <4> QED BY <1>1, <1>3, <3>1, <4>2, <4>5, <4>6 DEF Heard
    <3> QED BY <1>4, <3>2, <3>3 DEF RecInv
  <2> QED BY <2>1, <2>2
<1>6. CASE HearTrailingSilence
  <2>1. speech /\ kept' = Append(kept, last') /\ UNCHANGED <<speech, preroll, trigger>>
    BY <1>6 DEF HearTrailingSilence
  <2>2. Sequenced'
    BY <1>1, <1>2, <2>1, AppendProperties DEF Sequenced
  <2>3. Heard'
    <3>1. SUFFICES ASSUME ~lapped PROVE Heard'
      BY <1>1 DEF Heard
    <3>2. /\ trigger \in Nat /\ start <= trigger /\ trigger < e
          /\ Latest(kept, Before(trigger), e)
      BY <1>1, <2>1, <3>1 DEF Heard, e
    <3>3. Before(trigger) \in Nat
      BY <1>3, <3>2 DEF Before
    <3>4. Latest(kept', Before(trigger), e + 1)
      BY <1>1, <1>2, <1>3, <2>1, <3>1, <3>2, <3>3, Extended DEF Sequenced
    <3>5. Before(trigger)' = Before(trigger)
      BY <1>1, <2>1 DEF Before
    <3> QED BY <1>1, <1>3, <2>1, <3>2, <3>4, <3>5 DEF Heard
  <2> QED BY <1>4, <2>2, <2>3 DEF RecInv
<1>7. CASE HearNothingYet
  <2>1. ~speech /\ preroll' = Remember(last') /\ UNCHANGED <<speech, kept>>
    BY <1>7 DEF HearNothingYet
  <2>2. Sequenced'
    <3>1. CASE Len(preroll) = PreRoll
      <4>1. preroll # <<>> /\ Tail(preroll) \in Seq(Nat)
        BY <1>1, <3>1, HeadTailProperties DEF Sequenced
      <4> QED BY <1>1, <1>2, <2>1, <3>1, <4>1, AppendProperties
              DEF Sequenced, Remember
    <3>2. CASE Len(preroll) # PreRoll
      BY <1>1, <1>2, <2>1, <3>2, AppendProperties DEF Sequenced, Remember
    <3> QED BY <3>1, <3>2
  <2>3. Heard'
    <3>1. SUFFICES ASSUME ~lapped PROVE Heard'
      BY <1>1 DEF Heard
    <3>2. kept = <<>> /\ Latest(preroll, Before(e), e) /\ last' = e
      BY <1>1, <1>2, <2>1, <3>1 DEF Heard, e
    <3>3. preroll \in Seq(Nat) /\ Len(preroll) \in Nat /\ Before(e) \in Nat
      BY <1>1, <1>3 DEF Sequenced, Before
    <3>4. Before(start + readIdx)' = IF e + 1 - PreRoll < start THEN start
                                     ELSE e + 1 - PreRoll
      BY <1>1, <1>3 DEF Before
    <3>5. Latest(preroll', Before(start + readIdx)', e + 1)
      <4>1. CASE Len(preroll) = PreRoll
        <5>1. Before(start + readIdx)' = Before(e) + 1
          BY <1>3, <3>2, <3>3, <3>4, <4>1 DEF Latest, Before
        <5>2. Latest(Tail(preroll), Before(e) + 1, e) /\ Tail(preroll) \in Seq(Nat)
          BY <1>3, <3>2, <3>3, <4>1, Shortened
        <5>3. Latest(Append(Tail(preroll), e), Before(e) + 1, e + 1)
          <6>1. Before(e) + 1 \in Nat
            BY <3>3
          <6> QED BY <1>3, <5>2, <6>1, Extended
        <5> QED BY <2>1, <3>2, <4>1, <5>1, <5>3 DEF Remember
      <4>2. CASE Len(preroll) # PreRoll
        <5>1. Before(start + readIdx)' = Before(e)
          BY <1>3, <3>2, <3>3, <3>4, <4>2 DEF Latest, Before
        <5>2. Latest(Append(preroll, e), Before(e), e + 1)
          BY <1>3, <3>2, <3>3, Extended
        <5> QED BY <2>1, <3>2, <4>2, <5>1, <5>2 DEF Remember
      <4> QED BY <4>1, <4>2
    <3> QED BY <1>3, <2>1, <3>2, <3>5 DEF Heard
  <2> QED BY <1>4, <2>2, <2>3 DEF RecInv
<1> QED BY <1>5, <1>6, <1>7 DEF Hear

(* What the loop has kept stays a piece of the stream at every step of the   *)
(* loop, the callback and stop_recording.                                    *)
LEMMA RecNextKeeps ==
  TypeOK /\ LastLapKept /\ RecInv /\ [RecNext]_allVars => RecInv'
<1> SUFFICES ASSUME TypeOK, LastLapKept, RecInv, [RecNext]_allVars PROVE RecInv'
  OBVIOUS
<1>1. CASE Begin
  BY <1>1, BeginKeeps
<1>2. CASE Hear
  BY <1>2, HearKeeps
<1>3. ASSUME UNCHANGED <<speech, preroll, kept, trigger, start, readIdx>>,
             lapped => lapped', Position'
      PROVE  RecInv'
  BY <1>3 DEF RecInv, Sequenced, Heard, Latest, Before
<1>4. ASSUME NEW w \in Writers, Callback(w) PROVE RecInv'
  <2>1. /\ UNCHANGED <<speech, preroll, kept, trigger, start, readIdx>>
        /\ lapped' = (lapped \/ writeIdx' - readIdx > Capacity)
        /\ \/ writeIdx' = writeIdx + 1 /\ produced' = produced + 1
           \/ writeIdx' = writeIdx /\ produced' = produced
    BY <1>4 DEF Callback, Write, Signal, recVars
  <2>2. Position'
    <3>1. /\ writeIdx \in Nat /\ readIdx \in Nat /\ produced \in Nat
          /\ Position
      BY DEF RecInv, TypeOK
    <3>2. ASSUME ~lapped' PROVE writeIdx' <= readIdx' + Capacity
      <4>1. ~(writeIdx' - readIdx > Capacity) /\ readIdx' = readIdx
        BY <2>1, <3>2, Zenon
      <4>2. CASE writeIdx' = writeIdx + 1
        BY <3>1, <4>1, <4>2
      <4>3. CASE writeIdx' = writeIdx
        BY <3>1, <4>1, <4>3
      <4> QED BY <2>1, <4>2, <4>3, Zenon
    <3>3. readIdx' <= writeIdx' /\ produced' + 1 = start' + writeIdx'
      BY <2>1, <3>1 DEF Position
    <3> QED BY <2>1, <3>1, <3>2, <3>3 DEF Position
  <2> QED BY <1>3, <2>1, <2>2
<1>5. CASE Await \/ StopRecording \/ Finish \/ UNCHANGED allVars
  <2>1. /\ UNCHANGED <<speech, preroll, kept, trigger, start, readIdx>>
        /\ UNCHANGED <<lapped, writeIdx, produced>>
    BY <1>5 DEF Await, Wake, ReadNothing, StopRecording, Finish, allVars,
                recVars, bufferVars
  <2>2. Position'
    BY <2>1 DEF RecInv, Position
  <2> QED BY <1>3, <2>1, <2>2
<1> QED BY <1>1, <1>2, <1>4, <1>5 DEF RecNext, Loop

(* So all of this holds in every state.                                      *)
LEMMA RecInvHolds == RecSpec => [](TypeOK /\ RecInv)
<1> QED BY UsesTheBuffer, TypeCorrect, LastLapAlwaysKept, RecInitInv,
           RecNextKeeps, PTL DEF RecSpec

(* A recording has no gap, repetition or chunk of an earlier recording, as   *)
(* long as the callback does not lap its loop (audio.py:190-195).            *)
THEOREM GaplessRecording == RecSpec => []KeptContiguous
<1>1. TypeOK /\ RecInv => KeptContiguous
  <2> SUFFICES ASSUME TypeOK, RecInv, ~lapped
               PROVE  /\ \A i \in DOMAIN kept : kept[i] >= start
                      /\ \A i \in 2 .. Len(kept) : kept[i] = kept[i - 1] + 1
    BY DEF KeptContiguous
  <2>1. kept \in Seq(Nat) /\ start \in Nat
    BY DEF RecInv, Sequenced, Position
  <2>2. CASE ~speech
    BY <2>1, <2>2 DEF RecInv, Heard
  <2>3. CASE speech
    <3>1. PICK f \in Nat : start <= f /\ \A i \in 1 .. Len(kept) : kept[i] = f + i - 1
      <4>1. trigger \in Nat /\ \A i \in 1 .. Len(kept) : kept[i] = Before(trigger) + i - 1
        BY <2>3 DEF RecInv, Heard, Latest
      <4>2. Before(trigger) \in Nat /\ start <= Before(trigger)
        BY <2>1, <4>1 DEF Before
      <4> QED BY <4>1, <4>2
    <3>2. DOMAIN kept = 1 .. Len(kept) /\ Len(kept) \in Nat
      BY <2>1
    <3>3. \A i \in DOMAIN kept : kept[i] >= start
      BY <2>1, <3>1, <3>2
    <3>4. ASSUME NEW i \in 2 .. Len(kept) PROVE kept[i] = kept[i - 1] + 1
      <4>1. i \in 1 .. Len(kept) /\ i - 1 \in 1 .. Len(kept)
        BY <3>2
      <4> QED BY <3>1, <4>1
    <3> QED BY <3>3, <3>4
  <2> QED BY <2>2, <2>3
<1> QED BY <1>1, RecInvHolds, PTL

(* The beginning of an utterance is not cut off: a recording starts PreRoll  *)
(* chunks before the loud chunk that triggered it, or at the recording's     *)
(* first chunk (audio.py:192, 250-266).                                      *)
THEOREM SpeechIsWhole == RecSpec => []SpeechNotClipped
<1>1. TypeOK /\ RecInv => SpeechNotClipped
  <2> SUFFICES ASSUME TypeOK, RecInv, ~lapped, speech
               PROVE  kept[1] = Before(trigger)
    BY DEF SpeechNotClipped, Before
  <2>1. /\ kept \in Seq(Nat) /\ start \in Nat /\ readIdx \in Nat
        /\ trigger \in Nat /\ trigger < start + readIdx
        /\ start <= trigger
        /\ Latest(kept, Before(trigger), start + readIdx)
    BY DEF RecInv, Sequenced, Position, Heard, TypeOK
  <2>2. Before(trigger) \in Nat /\ Before(trigger) <= trigger
    BY <2>1 DEF Before
  <2>3. Len(kept) \in Nat /\ Before(trigger) + Len(kept) = start + readIdx
    BY <2>1 DEF Latest
  <2>4. Len(kept) > 0
    <3>1. \A b, n \in Nat : b <= trigger /\ b + n = start + readIdx => n > 0
      BY <2>1
    <3> QED BY <2>2, <2>3, <3>1
  <2>5. kept[1] = Before(trigger) + 1 - 1
    BY <2>1, <2>3, <2>4 DEF Latest
  <2> QED BY <2>2, <2>5
<1> QED BY <1>1, RecInvHolds, PTL

-----------------------------------------------------------------------------
(* Where a listening thread can be, and its stream's callback.               *)
ListenerStates == {"dead", "starting", "active", "deaf"}
HearStates     == {"none", "audio", "predict"}

(* The types of the listener and of the conversation loop.                   *)
LoopTypes ==
  /\ running \in BOOLEAN /\ wake_event \in BOOLEAN /\ raised \in BOOLEAN
  /\ tts \in BOOLEAN
  /\ lis \in [Listeners -> ListenerStates]
  /\ hear \in [Listeners -> HearStates]
  /\ pending \in Nat /\ spoken \in Nat /\ detections \in Nat /\ turns \in Nat
  /\ pc \in Phases
  /\ hud \in HudStates

(* Every state of every behaviour of the conversation loop has these types.  *)
THEOREM LoopTypeCorrect == LoopSpec => []LoopTypes
<1>1. LoopInit => LoopTypes
  <2> SUFFICES ASSUME LoopInit PROVE LoopTypes
    OBVIOUS
  <2>1. lis \in [Listeners -> ListenerStates] /\ hear \in [Listeners -> HearStates]
    BY DEF LoopInit, WakeInit, ListenerStates, HearStates
  <2>2. pc \in Phases /\ hud \in HudStates
    BY DEF LoopInit, Phases, HudStates
  <2> QED BY <2>1, <2>2 DEF LoopInit, WakeInit, LoopTypes
<1>2. LoopTypes /\ [LoopNext]_loopVars => LoopTypes'
  <2> SUFFICES ASSUME LoopTypes, [LoopNext]_loopVars PROVE LoopTypes'
    OBVIOUS
  <2> USE DEF LoopTypes, ListenerStates, HearStates, Phases, HudStates, wakeVars,
              heardVars
  <2>1. CASE StartListening
    BY <2>1 DEF StartListening, Resume
  <2>2. CASE Speak
    BY <2>2 DEF Speak, Pause
  <2>3. CASE EndSilently
    BY <2>3 DEF EndSilently
  <2>4. CASE Spoken
    BY <2>4 DEF Spoken, Resume
  <2>5. CASE TakeWake
    <3>1. wake_event' \in BOOLEAN /\ raised' \in BOOLEAN
      BY <2>5 DEF TakeWake
    <3>2. turns \in Nat /\ turns' = turns + 1
      BY <2>5 DEF TakeWake
    <3>3. turns' \in Nat
      BY <3>2
    <3>4. pc' \in Phases
      BY <2>5 DEF TakeWake
    <3> QED BY <2>5, <3>1, <3>3, <3>4 DEF TakeWake
  <2>6. CASE BeginRecording
    BY <2>6 DEF BeginRecording, Pause
  <2>7. CASE RecordingRaises
    BY <2>7 DEF RecordingRaises
  <2>8. CASE Recorded
    BY <2>8 DEF Recorded, Resume
  <2>9. CASE Transcribe
    BY <2>9 DEF Transcribe
  <2>10. CASE Respond
    BY <2>10 DEF Respond
  <2>11. CASE Exit
    BY <2>11 DEF Exit, Pause
  <2>12. CASE OnWakeDetected
    BY <2>12 DEF OnWakeDetected
  <2>13. CASE SayWakeWord
    BY <2>13 DEF SayWakeWord, Utter, sonVars
  <2>14. ASSUME NEW t \in Listeners, Listener(t) PROVE LoopTypes'
    <3>1. CASE Open(t)
      BY <2>14, <3>1 DEF Listener, Open, sonVars
    <3>2. CASE Notice(t)
      BY <2>14, <3>2 DEF Listener, Notice, sonVars
    <3>3. CASE Abort(t)
      BY <2>14, <3>3 DEF Listener, Abort, sonVars
    <3>4. CASE Predict(t)
      BY <2>14, <3>4 DEF Listener, Predict, sonVars
    <3>5. CASE Detect(t)
      BY <2>14, <3>5 DEF Listener, Detect, sonVars
    <3> QED BY <2>14, <3>1, <3>2, <3>3, <3>4, <3>5 DEF Listener, Listen
  <2>15. CASE UNCHANGED loopVars
    BY <2>15 DEF loopVars
  <2> QED BY <2>1, <2>2, <2>3, <2>4, <2>5, <2>6, <2>7, <2>8, <2>9, <2>10, <2>11,
             <2>12, <2>13, <2>14, <2>15 DEF LoopNext, Son
<1> QED BY <1>1, <1>2, PTL DEF LoopSpec

(* TurnsAreDetected, for any number of listening threads that overlap: a     *)
(* turn takes an event, an event is set by a thread started for a detection, *)
(* and both are gone when taken.  Inductive with the types.                  *)
THEOREM TurnsComeFromDetections == LoopSpec => []TurnsAreDetected
<1>1. LoopInit => TurnsAreDetected
  BY DEF LoopInit, WakeInit, TurnsAreDetected
<1>2. LoopTypes /\ TurnsAreDetected /\ [LoopNext]_loopVars => TurnsAreDetected'
  <2> SUFFICES ASSUME LoopTypes, TurnsAreDetected, [LoopNext]_loopVars
               PROVE  TurnsAreDetected'
    OBVIOUS
  <2>1. /\ turns \in Nat /\ pending \in Nat /\ detections \in Nat
        /\ wake_event \in BOOLEAN
    BY DEF LoopTypes
  <2>2. CASE TakeWake
    BY <2>1, <2>2 DEF TakeWake, TurnsAreDetected, wakeVars
  <2>3. CASE OnWakeDetected
    BY <2>1, <2>3 DEF OnWakeDetected, TurnsAreDetected
  <2>4. ASSUME NEW t \in Listeners, Listener(t) PROVE TurnsAreDetected'
    <3>1. CASE Detect(t)
      BY <2>1, <2>4, <3>1 DEF Listener, Detect, TurnsAreDetected, sonVars
    <3>2. CASE Open(t) \/ Notice(t) \/ Abort(t) \/ Predict(t)
      BY <2>4, <3>2 DEF Listener, Open, Notice, Abort, Predict, TurnsAreDetected,
                        sonVars, heardVars
    <3> QED BY <2>4, <3>1, <3>2 DEF Listener, Listen
  <2>5. CASE \/ StartListening \/ Speak \/ EndSilently \/ Spoken \/ BeginRecording
             \/ RecordingRaises \/ Recorded \/ Transcribe \/ Respond \/ Exit
             \/ SayWakeWord \/ UNCHANGED loopVars
    <3>1. UNCHANGED <<turns, pending, detections, wake_event>>
      BY <2>5 DEF StartListening, Speak, EndSilently, Spoken, BeginRecording,
           RecordingRaises, Recorded, Transcribe, Respond, Exit, SayWakeWord, Utter,
           loopVars, wakeVars, heardVars, sonVars
    <3> QED BY <3>1 DEF TurnsAreDetected
  <2> QED BY <2>2, <2>3, <2>4, <2>5 DEF LoopNext, Son
<1> QED BY <1>1, <1>2, LoopTypeCorrect, PTL DEF LoopSpec

(* While Son prepares a reply it listens: detection is only off from the     *)
(* start of a recording or of a speech to its end.                           *)
DetectionOn == pc \in {"greet", "transcribe", "respond", "reply"} => running

(* ReadyWhenWaiting: of the ways back to the wait, those that leave the HUD  *)
(* or the listener as it was are the ones that raised.  It needs to know     *)
(* that the turns that end without speaking had detection on.                *)
THEOREM ReadyForTheNext == LoopSpec => []ReadyWhenWaiting
<1> DEFINE Inv == ReadyWhenWaiting /\ DetectionOn
<1>1. LoopInit => Inv
  BY DEF LoopInit, ReadyWhenWaiting, DetectionOn
<1>2. LoopTypes /\ Inv /\ [LoopNext]_loopVars => Inv'
  <2> SUFFICES ASSUME LoopTypes, Inv, [LoopNext]_loopVars PROVE Inv'
    OBVIOUS
  <2> USE DEF ReadyWhenWaiting, DetectionOn, LoopTypes, wakeVars, heardVars
  <2>1. CASE StartListening
    BY <2>1 DEF StartListening, Resume
  <2>2. CASE Speak
    BY <2>2 DEF Speak, Pause
  <2>3. CASE EndSilently
    BY <2>3 DEF EndSilently
  <2>4. CASE Spoken
    BY <2>4 DEF Spoken, Resume
  <2>5. CASE TakeWake
    BY <2>5 DEF TakeWake
  <2>6. CASE BeginRecording
    BY <2>6 DEF BeginRecording, Pause
  <2>7. CASE RecordingRaises
    BY <2>7 DEF RecordingRaises
  <2>8. CASE Recorded
    BY <2>8 DEF Recorded, Resume
  <2>9. CASE Transcribe
    BY <2>9 DEF Transcribe
  <2>10. CASE Respond
    BY <2>10 DEF Respond
  <2>11. CASE Exit
    BY <2>11 DEF Exit, Pause
  <2>12. CASE \/ OnWakeDetected \/ SayWakeWord \/ UNCHANGED loopVars
             \/ \E t \in Listeners : Listener(t)
    <3>1. UNCHANGED <<pc, raised, running, hud>>
      BY <2>12 DEF OnWakeDetected, SayWakeWord, Utter, Listener, Listen, Open, Notice,
           Abort, Predict, Detect, loopVars, sonVars
    <3> QED BY <3>1
  <2> QED BY <2>1, <2>2, <2>3, <2>4, <2>5, <2>6, <2>7, <2>8, <2>9, <2>10, <2>11,
             <2>12 DEF LoopNext, Son
<1> QED BY <1>1, <1>2, LoopTypeCorrect, PTL DEF LoopSpec
=============================================================================
