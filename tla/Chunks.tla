------------------------------- MODULE Chunks -------------------------------
(***************************************************************************)
(* codebase.py, _chunk_file_worker (its Python path): a text is split by   *)
(* lines into overlapping chunks.  A text is the sequence of its lines'    *)
(* lengths, each with its line end; a chunk is its first and last line.    *)
(***************************************************************************)
EXTENDS Integers, Sequences

CONSTANTS ChunkSize,  \* config.CODE_CHUNK_SIZE
          Overlap     \* config.CODE_CHUNK_OVERLAP

ASSUME ChunksAssumption == ChunkSize \in Nat /\ Overlap \in 1 .. ChunkSize

(* Length(t)[n]: the characters of the first n lines.                        *)
Length(t) ==
  LET len[n \in 0 .. Len(t)] == IF n = 0 THEN 0 ELSE len[n - 1] + t[n]
  IN len

Chars(t, first, last) == Length(t)[last] - Length(t)[first - 1]

(* Mutant of OverlapFrom: the next chunk starts a line late.                 *)
OverlapSkipsLine(t, first, last) == last + 2

(* The lines kept for the next chunk: as few of the last as reach Overlap.   *)
OverlapFrom(t, first, last) ==
  LET enough == {s \in first .. last : Chars(t, s, last) >= Overlap}
  IN IF enough = {} THEN first ELSE CHOOSE s \in enough : \A r \in enough : r <= s

(* After line n: the chunks so far, and the first line of the current one.   *)
Split(t) ==
  LET after[n \in 0 .. Len(t)] ==
        IF n = 0 THEN [chunks |-> <<>>, first |-> 1]
        ELSE LET p == after[n - 1]
             IN IF Chars(t, p.first, n) >= ChunkSize
                THEN [chunks |-> Append(p.chunks, <<p.first, n>>),
                      first  |-> OverlapFrom(t, p.first, n)]
                ELSE p
  IN after[Len(t)]

(* What is left makes the last chunk; a blank text has none.                 *)
ChunksOf(t) ==
  IF t = <<>> THEN <<>>
  ELSE Append(Split(t).chunks, <<Split(t).first, Len(t)>>)

(* native/son_native.py, fast_chunk_text: the next chunk starts with as many *)
(* of the last lines as fit into Overlap, or with the last one.              *)
FastOverlapFrom(t, first, last) ==
  CHOOSE s \in first .. last :
    /\ s = last \/ Chars(t, s, last) <= Overlap
    /\ s = first \/ Chars(t, s - 1, last) > Overlap

FastChunks(t) ==
  LET after[n \in 0 .. Len(t)] ==
        IF n = 0 THEN [chunks |-> <<>>, first |-> 1]
        ELSE LET p == after[n - 1]
             IN IF Chars(t, p.first, n) >= ChunkSize \/ n = Len(t)
                THEN [chunks |-> Append(p.chunks, <<p.first, n>>),
                      first  |-> FastOverlapFrom(t, p.first, n)]
                ELSE p
  IN after[Len(t)].chunks

-----------------------------------------------------------------------------
(* The chunks go through the text without a gap, each at least up to where   *)
(* the one before ended, and the last to the end.                            *)
Covers(t, cs) ==
  t # <<>> =>
    /\ cs # <<>> /\ cs[1][1] = 1 /\ cs[Len(cs)][2] = Len(t)
    /\ \A i \in 1 .. Len(cs) - 1 : /\ cs[i + 1][1] \in cs[i][1] .. cs[i][2] + 1
                                   /\ cs[i + 1][2] >= cs[i][2]

(* A chunk's id is made of its first line.  Two share it only where that     *)
(* line alone all but fills a chunk.                                         *)
SameIdOnlyOnLongLine(t, cs) ==
  \A i, j \in DOMAIN cs :
    i # j /\ cs[i][1] = cs[j][1] => t[cs[i][1]] > ChunkSize - Overlap
=============================================================================
