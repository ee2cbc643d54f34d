----------------------------- MODULE RingBuffer -----------------------------
(***************************************************************************)
(* audio.py: class RingBuffer, the buffer between the PortAudio callback   *)
(* (a writer) and the recording loop (the one reader).  write() updates    *)
(* the buffer under self._lock but sets self._event after releasing it, so *)
(* it is two steps; read() waits for the event before it takes the lock,   *)
(* so it is two steps as well.                                             *)
(*                                                                         *)
(* A chunk of samples is represented by its number in the stream, counted  *)
(* from 1; padding and truncating of a chunk, and the _count field, which  *)
(* nothing reads, are left out.                                            *)
(***************************************************************************)
EXTENDS Integers

CONSTANTS Capacity,   \* self._max_chunks
          Writers,    \* threads that may run the stream callback
          MaxChunks   \* bound on the chunks produced in a behaviour

ASSUME CapacityAssumption  == Capacity \in Nat \ {0}
ASSUME MaxChunksAssumption == MaxChunks \in Nat

VARIABLES slot,      \* self._buffer
          writeIdx,  \* self._write_idx
          readIdx,   \* self._read_idx
          event,     \* self._event.is_set()
          wpc,       \* wpc[w]: "idle", or "signal" between unlock and set()
          rpc,       \* "idle", or "woken" between wait() and lock
          produced,  \* history: chunks written since the start
          last       \* the chunk the latest successful read() returned

bufferVars == <<slot, writeIdx, readIdx, event, wpc, rpc, produced, last>>

Init ==
  /\ slot = [i \in 0 .. Capacity - 1 |-> 0]
  /\ writeIdx = 0
  /\ readIdx = 0
  /\ event = FALSE
  /\ wpc = [w \in Writers |-> "idle"]
  /\ rpc = "idle"
  /\ produced = 0
  /\ last = 0

-----------------------------------------------------------------------------
(* Mutant of Write: the slot is taken after the index is advanced. *)
WriteNextSlot(w) ==
  /\ wpc[w] = "idle"
  /\ produced < MaxChunks
  /\ slot' = [slot EXCEPT ![(writeIdx + 1) % Capacity] = produced + 1]
  /\ writeIdx' = writeIdx + 1
  /\ produced' = produced + 1
  /\ wpc' = [wpc EXCEPT ![w] = "signal"]
  /\ UNCHANGED <<readIdx, event, rpc, last>>

(* write(), the locked section.  Nothing stops a writer from lapping.        *)
Write(w) ==
  /\ wpc[w] = "idle"
  /\ produced < MaxChunks
  /\ slot' = [slot EXCEPT ![writeIdx % Capacity] = produced + 1]
  /\ writeIdx' = writeIdx + 1
  /\ produced' = produced + 1
  /\ wpc' = [wpc EXCEPT ![w] = "signal"]
  /\ UNCHANGED <<readIdx, event, rpc, last>>

(* write(), after the lock: self._event.set().                               *)
Signal(w) ==
  /\ wpc[w] = "signal"
  /\ event' = TRUE
  /\ wpc' = [wpc EXCEPT ![w] = "idle"]
  /\ UNCHANGED <<slot, writeIdx, readIdx, rpc, produced, last>>

(* read(): self._event.wait(timeout) succeeds.  A wait that times out        *)
(* returns None and changes nothing, so it is not a step.                    *)
Wake ==
  /\ rpc = "idle"
  /\ event
  /\ rpc' = "woken"
  /\ UNCHANGED <<slot, writeIdx, readIdx, event, wpc, produced, last>>

(* read(), the locked section: the event may be a leftover of a chunk        *)
(* already read, and is cleared with the last unread chunk.                  *)
ReadNothing ==
  /\ rpc = "woken"
  /\ readIdx >= writeIdx
  /\ event' = FALSE
  /\ rpc' = "idle"
  /\ UNCHANGED <<slot, writeIdx, readIdx, wpc, produced, last>>

(* Mutant of ReadChunk: every read clears the event. *)
ReadChunkClears ==
  /\ rpc = "woken"
  /\ readIdx < writeIdx
  /\ last' = slot[readIdx % Capacity]
  /\ readIdx' = readIdx + 1
  /\ event' = FALSE
  /\ rpc' = "idle"
  /\ UNCHANGED <<slot, writeIdx, wpc, produced>>

ReadChunk ==
  /\ rpc = "woken"
  /\ readIdx < writeIdx
  /\ last' = slot[readIdx % Capacity]
  /\ readIdx' = readIdx + 1
  /\ event' = (event /\ readIdx + 1 < writeIdx)
  /\ rpc' = "idle"
  /\ UNCHANGED <<slot, writeIdx, wpc, produced>>

(* clear(), called by the reading thread before a recording.                 *)
Clear ==
  /\ rpc = "idle"
  /\ writeIdx' = 0
  /\ readIdx' = 0
  /\ event' = FALSE
  /\ UNCHANGED <<slot, wpc, rpc, produced, last>>

Next == \/ \E w \in Writers : Write(w) \/ Signal(w)
        \/ Wake
        \/ ReadNothing
        \/ ReadChunk
        \/ Clear

Spec == Init /\ [][Next]_bufferVars

-----------------------------------------------------------------------------
TypeOK ==
  /\ slot \in [0 .. Capacity - 1 -> Nat]
  /\ writeIdx \in Nat /\ readIdx \in Nat
  /\ event \in BOOLEAN
  /\ wpc \in [Writers -> {"idle", "signal"}]
  /\ rpc \in {"idle", "woken"}
  /\ produced \in Nat /\ last \in Nat

(* No lost wakeup although set() is outside the lock: when a chunk is        *)
(* unread, the event is set or some writer is about to set it.               *)
NoLostSignal ==
  readIdx < writeIdx => event \/ \E w \in Writers : wpc[w] = "signal"

(* The chunk that write index i stands for.                                  *)
ChunkAt(i) == produced - writeIdx + i + 1

(* While the writer is at most one lap ahead, every unread chunk is still    *)
(* in its slot: read() will return them all, once each and in order.         *)
UnreadIntact ==
  writeIdx - readIdx <= Capacity =>
    \A i \in readIdx .. writeIdx - 1 : slot[i % Capacity] = ChunkAt(i)
=============================================================================
