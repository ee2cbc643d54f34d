------------------------------- MODULE Caches -------------------------------
(***************************************************************************)
(* The two users of core/cache.py's LRUCache.  Embeddings: embedding.py's  *)
(* create_embedding and create_embeddings (SemanticMemory._embed is the    *)
(* former) look texts up, ask Ollama for the missing ones and put what it  *)
(* answers.  Code chunks: CodeTracker._chunk_file looks a file up by its   *)
(* modification time, reads and splits it, and puts the chunks under the   *)
(* time the file has by then.  Threads share a cache, whose methods are    *)
(* atomic; the steps between are not.  The two caches have nothing in      *)
(* common: a behaviour uses one of them, which side tells.                 *)
(***************************************************************************)
EXTENDS LruCache, Chunks, FiniteSets

CONSTANTS Batches,    \* the lists of texts create_embeddings is given
          FirstTexts, \* what the file holds at first
          NextTexts,  \* what an editor makes of it
          Threads,
          MaxJobs, MaxEdits  \* bounds of a behaviour

Vector(text) == <<text>>
VectorSize == 5       \* every vector has the same length
NoFile == <<-1>>

ASSUME CachesAssumption ==
  /\ Batches \subseteq Seq(Nat)
  /\ FirstTexts \cup NextTexts \subseteq Seq(Nat) \cup {NoFile}
  /\ {MaxJobs, MaxEdits} \subseteq Nat

VARIABLES side,    \* "vectors" or "chunks"
          native,  \* native.son_native can be imported
          cache,   \* the LRUCache
          job,     \* what each thread is doing
          jobs,    \* requests made so far
          disk,    \* the file: its modification time and text
          spoilt   \* history: the times of the file whose entry may be false

cachesVars == <<side, native, cache, job, jobs, disk, spoilt>>
rest == <<side, native, jobs>>
files == <<disk, spoilt>>

Idle == [at |-> "idle", texts |-> <<>>, got |-> <<>>, i |-> 0, lack |-> <<>>,
         refused |-> {}, begun |-> 0, time |-> 0]

CachesInit ==
  /\ side \in {"vectors", "chunks"}
  /\ native \in (IF side = "chunks" THEN BOOLEAN ELSE {FALSE})
  /\ cache = Empty
  /\ job = [t \in Threads |-> Idle]
  /\ jobs = 0
  /\ disk \in [time : {1}, text : IF side = "chunks" THEN FirstTexts ELSE {<<>>}]
  /\ spoilt = {}

(* Value v in place i of what the job has got.                               *)
Gets(j, i, v) == [j EXCEPT !.got = [j.got EXCEPT ![i] = v]]

Begin(t, at, texts) ==
  /\ job[t].at = "idle" /\ jobs < MaxJobs
  /\ jobs' = jobs + 1
  /\ job' = [job EXCEPT ![t] = [Idle EXCEPT !.at = at, !.texts = texts,
               !.got = [i \in DOMAIN texts |-> None], !.begun = disk.time]]
  /\ UNCHANGED <<side, native, cache, files>>

Finish(t) ==
  /\ job[t].at \in {"done", "raised"}
  /\ job' = [job EXCEPT ![t] = Idle]
  /\ UNCHANGED <<rest, cache, files>>

-----------------------------------------------------------------------------
(* create_embeddings.  A list of one that was refused goes the way of        *)
(* create_embedding.  Its look-ups, one after the other ...                  *)
BeginEmbeddings(t, texts) == side = "vectors" /\ Begin(t, "look", texts)

LookUp(t) ==
  LET i == job[t].i + 1
      hit == Get(cache, job[t].texts[i])
  IN /\ job[t].at = "look" /\ i <= Len(job[t].texts)
     /\ cache' = Touch(cache, job[t].texts[i])
     /\ job' = [job EXCEPT ![t] = [Gets(job[t], i, hit) EXCEPT !.i = i,
                  !.lack = IF hit = None THEN Append(@, i) ELSE @]]
     /\ UNCHANGED <<rest, files>>

(* ... one request for what is missing ...                                   *)
AskAll(t) ==
  /\ job[t].at = "look" /\ job[t].i = Len(job[t].texts)
  /\ IF job[t].lack = <<>> THEN job' = [job EXCEPT ![t].at = "done"]
     ELSE \E next \in {"fill", "again"} : job' = [job EXCEPT ![t].at = next]
  /\ UNCHANGED <<rest, cache, files>>

(* Mutant of Fill: the vectors go to the first places.                       *)
FillFirst(t) ==
  LET i == job[t].lack[1]
      text == job[t].texts[i]
  IN /\ job[t].at = "fill" /\ job[t].lack # <<>>
     /\ LET first == Len(job[t].texts) - Len(job[t].lack) + 1
        IN job' = [job EXCEPT ![t] = [Gets(job[t], first, Vector(text)) EXCEPT !.lack = Tail(@)]]
     /\ cache' = Put(cache, text, Vector(text), VectorSize)
     /\ UNCHANGED <<rest, files>>

(* ... whose vectors are put in their places and into the cache ...          *)
Fill(t) ==
  LET i == job[t].lack[1]
      text == job[t].texts[i]
  IN /\ job[t].at = "fill" /\ job[t].lack # <<>>
     /\ job' = [job EXCEPT ![t] = [Gets(job[t], i, Vector(text)) EXCEPT !.lack = Tail(@)]]
     /\ cache' = Put(cache, text, Vector(text), VectorSize)
     /\ UNCHANGED <<rest, files>>

(* ... or, when it failed, create_embedding for each: a look-up ...          *)
LookAgain(t) ==
  LET i == job[t].lack[1]
      hit == Get(cache, job[t].texts[i])
  IN /\ job[t].at = "again" /\ job[t].lack # <<>>
     /\ cache' = Touch(cache, job[t].texts[i])
     /\ job' = [job EXCEPT ![t] = IF hit = None THEN [job[t] EXCEPT !.at = "ask"]
                  ELSE [Gets(job[t], i, hit) EXCEPT !.lack = Tail(@)]]
     /\ UNCHANGED <<rest, files>>

(* ... and a request, which may fail.                                        *)
AskOne(t) ==
  LET i == job[t].lack[1]
      text == job[t].texts[i]
  IN /\ job[t].at = "ask"
     /\ \/ /\ cache' = Put(cache, text, Vector(text), VectorSize)
           /\ job' = [job EXCEPT ![t] = [Gets(job[t], i, Vector(text)) EXCEPT
                                           !.at = "again", !.lack = Tail(@)]]
        \/ /\ job' = [job EXCEPT ![t] = [job[t] EXCEPT !.at = "again", !.lack = Tail(@),
                                           !.refused = @ \cup {text}]]
           /\ UNCHANGED cache
     /\ UNCHANGED <<rest, files>>

Filled(t) ==
  /\ job[t].at \in {"fill", "again"} /\ job[t].lack = <<>>
  /\ job' = [job EXCEPT ![t].at = "done"]
  /\ UNCHANGED <<rest, cache, files>>

-----------------------------------------------------------------------------
(* _chunk_file.  CodeChunkCache.get takes the file's time, if there is a     *)
(* file, and looks it up.                                                    *)
BeginChunks(t) == side = "chunks" /\ Begin(t, "stat", <<0>>)

Stat(t) ==
  /\ job[t].at = "stat"
  /\ job' = [job EXCEPT ![t].at = IF disk.text = NoFile THEN "read" ELSE "get",
                        ![t].time = disk.time]
  /\ UNCHANGED <<rest, cache, files>>

(* Mutant of Key: the path alone.                                            *)
KeyPathOnly(time) == 0

(* _make_key: the path, of which there is one here, and the time.            *)
Key(time) == time

GetChunks(t) ==
  LET hit == Get(cache, Key(job[t].time))
  IN /\ job[t].at = "get"
     /\ cache' = Touch(cache, Key(job[t].time))
     /\ job' = [job EXCEPT ![t].got = <<hit>>,
                           ![t].at = IF hit = None THEN "read" ELSE "done"]
     /\ UNCHANGED <<rest, files>>

(* _chunk_file_worker.  A file that cannot be read or is blank has no        *)
(* chunks, which are not cached.  With the native module, the first chunk's  *)
(* id raises: fast_sha256_hex is given a str.                                *)
Read(t) ==
  LET text == IF disk.text = NoFile THEN <<>> ELSE disk.text
  IN /\ job[t].at = "read"
     /\ job' = [job EXCEPT ![t].got = <<text>>,
                  ![t].at = IF text = <<>> THEN "done"
                            ELSE IF native THEN "raised" ELSE "restat"]
     /\ UNCHANGED <<rest, cache, files>>

(* CodeChunkCache.put takes the time anew.                                   *)
Restat(t) ==
  /\ job[t].at = "restat"
  /\ job' = [job EXCEPT ![t].at = IF disk.text = NoFile THEN "done" ELSE "put",
                        ![t].time = disk.time]
  /\ UNCHANGED <<rest, cache, files>>

ChunksSize(text) == LET cs == ChunksOf(text)
                        sum[n \in 0 .. Len(cs)] ==
                          IF n = 0 THEN 1
                          ELSE sum[n - 1] + Chars(text, cs[n][1], cs[n][2])
                    IN sum[Len(cs)]

PutChunks(t) ==
  LET text == job[t].got[1]
  IN /\ job[t].at = "put"
     /\ cache' = Put(cache, Key(job[t].time), text, ChunksSize(text))
     /\ job' = [job EXCEPT ![t].at = "done"]
     /\ UNCHANGED <<rest, files>>

(* invalidate_file removes the file's entries one after the other, also      *)
(* those that are gone by then; here any of them.                            *)
InvalidateFile ==
  /\ side = "chunks"
  /\ \E k \in Keys(cache) : cache' = Invalidate(cache, k)
  /\ UNCHANGED <<rest, job, files>>

(* Somebody changes or removes the file.  The entry for its new time will be *)
(* false if a thread has read the file and not yet taken the time again.     *)
Edit(text) ==
  /\ side = "chunks" /\ disk.time <= MaxEdits /\ text # disk.text
  /\ disk' = [time |-> disk.time + 1, text |-> text]
  /\ spoilt' = IF \E t \in Threads : job[t].at = "restat"
               THEN spoilt \cup {disk.time + 1} ELSE spoilt
  /\ UNCHANGED <<rest, cache, job>>

-----------------------------------------------------------------------------
CachesNext ==
  \/ \E t \in Threads :
       \/ \E texts \in Batches : BeginEmbeddings(t, texts)
       \/ LookUp(t) \/ AskAll(t) \/ Fill(t) \/ LookAgain(t) \/ AskOne(t) \/ Filled(t)
       \/ BeginChunks(t) \/ Stat(t) \/ GetChunks(t) \/ Read(t) \/ Restat(t)
       \/ PutChunks(t)
       \/ Finish(t)
  \/ \E text \in NextTexts : Edit(text)
  \/ InvalidateFile

CachesSpec == CachesInit /\ [][CachesNext]_cachesVars

-----------------------------------------------------------------------------
(* Whatever is cached, evicted and put twice by threads that missed the same *)
(* text: the cache's total is the sum of its entries, no key is there twice, *)
(* and the budget is kept (cache.py:93-97).                                  *)
SizeIsExact == WellFormed(cache)

(* embedding.py:65-68: each place of the list gets the vector of its own     *)
(* text, and None only for a text that Ollama refused alone as well.         *)
OwnVectors ==
  side = "vectors" =>
    \A t \in Threads : job[t].at = "done" =>
      \A i \in DOMAIN job[t].texts :
        \/ job[t].got[i] = Vector(job[t].texts[i])
        \/ job[t].got[i] = None /\ job[t].texts[i] \in job[t].refused

(* cache.py:342, "Automatically invalidates when files are modified": a      *)
(* request gets the file's text of a moment since it began, unless the file  *)
(* was changed between some reading of it and the put.                       *)
FreshUnlessRaced ==
  side = "chunks" =>
    \A t \in Threads :
      job[t].at = "done" /\ job[t].begun = disk.time /\ disk.time \notin spoilt =>
        job[t].got = <<IF disk.text = NoFile THEN <<>> ELSE disk.text>>

(* codebase.py:86-115 and son_native.py:224-247: no line of a text is left   *)
(* out of its chunks, and only a line that all but fills a chunk makes two   *)
(* of them share an id.                                                      *)
ChunksAreWhole ==
  side = "chunks" /\ disk.text # NoFile =>
    /\ Covers(disk.text, ChunksOf(disk.text))
    /\ SameIdOnlyOnLongLine(disk.text, ChunksOf(disk.text))
    /\ Covers(disk.text, FastChunks(disk.text))
=============================================================================
