------------------------- MODULE SpeechQueueProofs -------------------------
(***************************************************************************)
(* speak_streamed's threads and queue implement module Speech, for any     *)
(* calls and any number of sentences: every step is one of Speech or       *)
(* changes nothing Speech speaks of.  What makes it so is where each       *)
(* sentence is: played, in the playback thread's hand, or in the queue,    *)
(* without a gap, up to the one the synthesis thread is at.                *)
(***************************************************************************)
EXTENDS SpeechQueue, SequenceTheorems, TLAPS

USE CallsAssumption

Types ==
  /\ speaking \in BOOLEAN
  /\ synth \in [Calls -> {"none", "test", "synthesize", "put", "end", "done"}]
  /\ sentence \in [Calls -> 1 .. Sentences + 1]
  /\ queue \in [Calls -> Seq(0 .. Sentences)]
  /\ play \in [Calls -> {"none", "test", "get", "start", "playing", "end", "done"}]
  /\ held \in [Calls -> 0 .. Sentences]
  /\ played \in [Calls -> Seq(0 .. Sentences)]
  /\ caller \in Calls \cup {0}
  /\ before \in [Calls -> Nat]

(* While the caller's playback thread runs, the flag tells whether stop()    *)
(* has been called.                                                          *)
Flag ==
  caller # 0 /\ play[caller] # "done" => (speaking <=> caller \notin stopped)

(* A call that has not begun has left no trace; of one that has returned,    *)
(* at most the synthesis thread runs.                                        *)
Placed(c) ==
  /\ c \notin ended \cup {caller} =>
       /\ synth[c] = "none" /\ play[c] = "none" /\ sentence[c] = 1
       /\ queue[c] = <<>> /\ played[c] = <<>> /\ c \notin stopped
  /\ c \in ended => c # caller /\ play[c] = "done"
  /\ c = caller => synth[c] # "none" /\ play[c] # "none"

Cut(c) == c \in stopped \cup broken \cup late

(* How many sentences the playback thread has taken from the queue.          *)
Taken(c) == Len(played[c]) + (IF play[c] = "start" THEN 1 ELSE 0)

(* What is at place i of the queue: the next sentences, then the sentinel.   *)
Due(c, i) ==
  IF i = Len(queue[c]) /\ synth[c] = "done" THEN Sentinel ELSE Taken(c) + i

(* Until playback ends: the sentence in hand is the next one, the queue      *)
(* holds the ones after it, and the synthesis thread is at the one after     *)
(* those.                                                                    *)
InOrder(c) ==
  play[c] \notin {"end", "done"} =>
    /\ play[c] = "start" => held[c] = Len(played[c]) + 1
    /\ \A i \in 1 .. Len(queue[c]) : queue[c][i] = Due(c, i)
    /\ synth[c] # "done" => sentence[c] = Taken(c) + Len(queue[c]) + 1
    /\ synth[c] = "done" => /\ Len(queue[c]) > 0
                            /\ sentence[c] = Taken(c) + Len(queue[c])
    /\ synth[c] \in {"end", "done"} => sentence[c] = Sentences + 1 \/ Cut(c)

(* Either thread ends for a reason.                                          *)
Reasons(c) ==
  /\ synth[c] \in {"synthesize", "put"} => sentence[c] <= Sentences
  /\ play[c] \in {"end", "done"} => Len(played[c]) = Sentences \/ Cut(c)

(* A stopped call starts at most the sentence it was about to take.          *)
OneMore(c) ==
  c \in stopped /\ play[c] \in {"get", "start"} => Len(played[c]) <= before[c]

CallInv(c) == Placed(c) /\ InOrder(c) /\ Reasons(c) /\ OneMore(c)

IInv == Types /\ Flag /\ \A c \in Calls : CallInv(c)

-----------------------------------------------------------------------------
(* Arithmetic of the places in the queue.                                    *)
LEMMA Places ==
  \A p, q \in Nat :
    /\ p + (q + 1) = (p + 1) + q
    /\ q > 0 => p + q = (p + 1) + (q - 1) /\ (q # 1 => q - 1 > 0)
OBVIOUS

(* A playback thread that runs is the caller's.                              *)
LEMMA PlaybackIsTheCallers ==
  ASSUME IInv, NEW c \in Calls, play[c] \notin {"none", "done"}
  PROVE  c = caller /\ caller # 0 /\ c \notin ended
BY DEF IInv, CallInv, Placed

(* A synthesis thread that runs is that of the caller or of a call that has  *)
(* returned, whose playback is over.                                         *)
LEMMA SynthesisIsOfACall ==
  ASSUME IInv, NEW c \in Calls, synth[c] # "none"
  PROVE  /\ c \in ended \cup {caller} /\ play[c] # "none"
         /\ c \in ended => c # caller /\ play[c] = "done"
BY DEF IInv, CallInv, Placed

(* A step that changes nothing of a call, except that more calls may have    *)
(* broken, keeps what the invariant says of that call.                       *)
LEMMA Untouched ==
  ASSUME IInv, NEW c \in Calls,
         synth'[c] = synth[c], sentence'[c] = sentence[c],
         queue'[c] = queue[c], play'[c] = play[c], held'[c] = held[c],
         played'[c] = played[c], before'[c] = before[c],
         c \in stopped' <=> c \in stopped, c \in ended' <=> c \in ended,
         c = caller' <=> c = caller,
         broken \subseteq broken', late \subseteq late'
  PROVE  CallInv(c)'
<1>1. CallInv(c)
  BY DEF IInv
<1>2. Cut(c) => Cut(c)'
  BY DEF Cut
<1>3. Taken(c)' = Taken(c) /\ \A i \in 1 .. Len(queue[c]) : Due(c, i)' = Due(c, i)
  BY DEF Taken, Due
<1>4. Placed(c)'
  BY <1>1 DEF CallInv, Placed
<1>5. InOrder(c)'
  BY <1>1, <1>2, <1>3 DEF CallInv, InOrder
<1>6. Reasons(c)' /\ OneMore(c)'
  BY <1>1, <1>2 DEF CallInv, Reasons, OneMore
<1> QED
  BY <1>4, <1>5, <1>6 DEF CallInv

(* Before the first call nothing is in a thread's hand.                      *)
LEMMA InitIInv == Init => IInv
<1> SUFFICES ASSUME Init PROVE IInv
  OBVIOUS
<1>1. Types
  <2>1. 0 \in 0 .. Sentences /\ 1 \in 1 .. Sentences + 1
    OBVIOUS
  <2>2. <<>> \in Seq(0 .. Sentences)
    OBVIOUS
  <2> QED
    BY <2>1, <2>2 DEF Init, Types, Sentinel
<1>2. Flag
  BY DEF Init, Flag
<1>3. ASSUME NEW c \in Calls PROVE CallInv(c)
  BY DEF Init, CallInv, Placed, InOrder, Reasons, OneMore, Taken, Due, Cut
<1> QED
  BY <1>1, <1>2, <1>3 DEF IInv

(* The synthesis thread: an iteration begins only for a sentence of the text, *)
(* and ends early only when the flag is down, synthesis raises or the queue  *)
(* stays full.                                                               *)
LEMMA SynthStepKeepsIInv ==
  ASSUME IInv, NEW c \in Calls, SynthStep(c) PROVE IInv'
<1> USE DEF synthVars, playVars, callVars, faults
<1>0. Types /\ Flag /\ CallInv(c)
  BY DEF IInv
<1>1. ASSUME NEW d \in Calls, d # c PROVE CallInv(d)'
  <2>1. /\ synth'[d] = synth[d] /\ sentence'[d] = sentence[d]
        /\ queue'[d] = queue[d] /\ UNCHANGED <<play, held, played, before>>
        /\ UNCHANGED <<stopped, ended, caller>>
        /\ broken \subseteq broken' /\ late \subseteq late'
    BY <1>0, <1>1 DEF Types, SynthStep, NextSentence, Synthesize, PutAudio,
                      PutTimesOut, PutSentinel
  <2> QED
    BY <1>1, <2>1, Untouched
<1>2. Flag' /\ UNCHANGED <<speaking, play, held, played, caller, ended, stopped,
                          before>>
  BY <1>0 DEF Flag, SynthStep, NextSentence, Synthesize, PutAudio,
              PutTimesOut, PutSentinel
<1>3. synth[c] # "none" /\ synth'[c] # "none"
  BY <1>0 DEF Types, SynthStep, NextSentence, Synthesize, PutAudio,
              PutTimesOut, PutSentinel
<1>4. Placed(c)' /\ OneMore(c)'
  BY <1>0, <1>2, <1>3, SynthesisIsOfACall DEF CallInv, Placed, OneMore
<1>5. Taken(c)' = Taken(c) /\ Taken(c) \in Nat
  BY <1>0, <1>2 DEF Taken, Types
<1>6. Cut(c) => Cut(c)'
  BY <1>0 DEF Cut, SynthStep, NextSentence, Synthesize, PutAudio,
              PutTimesOut, PutSentinel
<1>7. CASE NextSentence(c)
  <2>1. /\ synth' = [synth EXCEPT ![c] = synth'[c]]
        /\ synth[c] = "test" /\ synth'[c] \in {"synthesize", "end"}
        /\ UNCHANGED <<sentence, queue, broken, late>>
    BY <1>7, <1>0 DEF NextSentence, Types
  <2>2. Types'
    BY <1>0, <1>2, <2>1 DEF Types
  <2>3. synth'[c] = "synthesize" => sentence[c] <= Sentences
    BY <1>7, <1>0 DEF NextSentence, Types
  <2>4. ASSUME synth'[c] = "end", play[c] \notin {"end", "done"}
        PROVE  sentence[c] = Sentences + 1 \/ Cut(c)
    <3>1. c = caller /\ caller # 0 /\ play[c] # "done"
      BY <1>3, <2>4, SynthesisIsOfACall, PlaybackIsTheCallers
    <3>2. speaking <=> c \notin stopped
      BY <1>0, <3>1 DEF Flag
    <3>3. ~(sentence[c] <= Sentences) \/ ~speaking
      BY <1>7, <1>0, <2>4 DEF NextSentence, Types
    <3> QED
      BY <1>0, <3>2, <3>3 DEF Cut, Types
  <2>5. Reasons(c)' /\ InOrder(c)'
    BY <1>0, <1>2, <1>5, <1>6, <2>1, <2>3, <2>4
       DEF CallInv, Reasons, InOrder, Due
  <2> QED
    BY <1>1, <1>2, <1>4, <2>2, <2>5 DEF IInv, CallInv
<1>8. CASE Synthesize(c)
  <2>1. /\ synth' = [synth EXCEPT ![c] = synth'[c]]
        /\ synth[c] = "synthesize" /\ synth'[c] \in {"put", "end"}
        /\ synth'[c] = "end" => c \in broken'
        /\ UNCHANGED <<sentence, queue>>
    BY <1>8, <1>0 DEF Synthesize, Types
  <2>2. Types'
    BY <1>0, <1>2, <2>1 DEF Types
  <2>3. Reasons(c)' /\ InOrder(c)'
    BY <1>0, <1>2, <1>5, <1>6, <2>1 DEF CallInv, Reasons, InOrder, Due, Cut
  <2> QED
    BY <1>1, <1>2, <1>4, <2>2, <2>3 DEF IInv, CallInv
<1>9. CASE PutAudio(c)
  <2>1. /\ synth[c] = "put" /\ sentence[c] \in 1 .. Sentences
        /\ synth' = [synth EXCEPT ![c] = "test"]
        /\ sentence' = [sentence EXCEPT ![c] = sentence[c] + 1]
        /\ queue' = [queue EXCEPT ![c] = Append(queue[c], sentence[c])]
        /\ UNCHANGED <<broken, late>>
    BY <1>9, <1>0 DEF PutAudio, Types, CallInv, Reasons
  <2>2. queue[c] \in Seq(0 .. Sentences) /\ sentence[c] \in 0 .. Sentences
    BY <1>0, <2>1 DEF Types
  <2>3. /\ queue'[c] \in Seq(0 .. Sentences)
        /\ Len(queue'[c]) = Len(queue[c]) + 1 /\ Len(queue[c]) \in Nat
        /\ \A i \in 1 .. Len(queue[c]) : queue'[c][i] = queue[c][i]
        /\ queue'[c][Len(queue[c]) + 1] = sentence[c]
    BY <1>0, <2>1, <2>2, AppendProperties DEF Types
  <2>4. Types'
    BY <1>0, <1>2, <2>1, <2>3 DEF Types
  <2>5. synth'[c] = "test" /\ sentence'[c] = sentence[c] + 1
    BY <1>0, <2>1 DEF Types
  <2>6. Reasons(c)'
    BY <1>0, <1>2, <1>6, <2>5 DEF CallInv, Reasons
  <2>7. ASSUME play'[c] \notin {"end", "done"} PROVE InOrder(c)'
    <3>1. /\ play[c] = "start" => held[c] = Len(played[c]) + 1
          /\ \A i \in 1 .. Len(queue[c]) : queue[c][i] = Taken(c) + i
          /\ sentence[c] = Taken(c) + Len(queue[c]) + 1
      BY <1>0, <1>2, <2>1, <2>7 DEF CallInv, InOrder, Due
    <3>2. \A i \in 1 .. Len(queue'[c]) : queue'[c][i] = Taken(c) + i
      <4> SUFFICES ASSUME NEW i \in 1 .. Len(queue[c]) + 1
                   PROVE  queue'[c][i] = Taken(c) + i
        BY <2>3
      <4>1. CASE i = Len(queue[c]) + 1
        BY <4>1, <3>1, <2>3, <1>5
      <4>2. CASE i \in 1 .. Len(queue[c])
        BY <4>2, <3>1, <2>3
      <4> QED
        BY <4>1, <4>2, <2>3
    <3>3. \A i \in 1 .. Len(queue'[c]) : Due(c, i)' = Taken(c) + i
      BY <1>5, <2>5 DEF Due
    <3>4. sentence'[c] = Taken(c) + Len(queue'[c]) + 1
      BY <1>5, <2>3, <2>5, <3>1
    <3> QED
      BY <1>2, <1>5, <2>5, <3>1, <3>2, <3>3, <3>4 DEF InOrder
  <2>8. InOrder(c)'
    BY <2>7 DEF InOrder
  <2> QED
    BY <1>1, <1>2, <1>4, <2>4, <2>6, <2>8 DEF IInv, CallInv
<1>10. CASE PutTimesOut(c)
  <2>1. /\ synth' = [synth EXCEPT ![c] = "end"]
        /\ synth[c] = "put" /\ synth'[c] = "end" /\ c \in late'
        /\ UNCHANGED <<sentence, queue>>
    BY <1>10, <1>0 DEF PutTimesOut, Types
  <2>2. Types'
    BY <1>0, <1>2, <2>1 DEF Types
  <2>3. Reasons(c)' /\ InOrder(c)'
    BY <1>0, <1>2, <1>5, <1>6, <2>1 DEF CallInv, Reasons, InOrder, Due, Cut
  <2> QED
    BY <1>1, <1>2, <1>4, <2>2, <2>3 DEF IInv, CallInv
<1>11. CASE PutSentinel(c)
  <2>1. /\ synth[c] = "end"
        /\ synth' = [synth EXCEPT ![c] = "done"]
        /\ queue' = [queue EXCEPT ![c] = Append(queue[c], Sentinel)]
        /\ UNCHANGED <<sentence, broken, late>>
    BY <1>11 DEF PutSentinel
  <2>2. queue[c] \in Seq(0 .. Sentences) /\ Sentinel \in 0 .. Sentences
    BY <1>0 DEF Types, Sentinel
  <2>3. /\ queue'[c] \in Seq(0 .. Sentences)
        /\ Len(queue'[c]) = Len(queue[c]) + 1 /\ Len(queue[c]) \in Nat
        /\ \A i \in 1 .. Len(queue[c]) : queue'[c][i] = queue[c][i]
        /\ queue'[c][Len(queue[c]) + 1] = Sentinel
    BY <1>0, <2>1, <2>2, AppendProperties DEF Types
  <2>4. Types'
    BY <1>0, <1>2, <2>1, <2>3 DEF Types
  <2>5. synth'[c] = "done"
    BY <1>0, <2>1 DEF Types
  <2>6. Reasons(c)'
    BY <1>0, <1>2, <1>6, <2>5 DEF CallInv, Reasons
  <2>7. ASSUME play'[c] \notin {"end", "done"} PROVE InOrder(c)'
    <3>1. /\ play[c] = "start" => held[c] = Len(played[c]) + 1
          /\ \A i \in 1 .. Len(queue[c]) : queue[c][i] = Taken(c) + i
          /\ sentence[c] = Taken(c) + Len(queue[c]) + 1
          /\ sentence[c] = Sentences + 1 \/ Cut(c)
      BY <1>0, <1>2, <2>1, <2>7 DEF CallInv, InOrder, Due
    <3>2. \A i \in 1 .. Len(queue'[c]) : queue'[c][i] = Due(c, i)'
      <4> SUFFICES ASSUME NEW i \in 1 .. Len(queue[c]) + 1
                   PROVE  queue'[c][i] = Due(c, i)'
        BY <2>3
      <4>1. CASE i = Len(queue[c]) + 1
        BY <4>1, <2>3, <2>5 DEF Due
      <4>2. CASE i \in 1 .. Len(queue[c])
        BY <4>2, <3>1, <2>3, <1>5 DEF Due
      <4> QED
        BY <4>1, <4>2, <2>3
    <3> QED
      BY <1>2, <1>5, <1>6, <2>1, <2>3, <2>5, <3>1, <3>2 DEF InOrder
  <2>8. InOrder(c)'
    BY <2>7 DEF InOrder
  <2> QED
    BY <1>1, <1>2, <1>4, <2>4, <2>6, <2>8 DEF IInv, CallInv
<1> QED
  BY <1>7, <1>8, <1>9, <1>10, <1>11 DEF SynthStep

(* The playback thread: it takes the sentences in their order, stops at the  *)
(* sentinel, and tests the flag before it takes one.                         *)
LEMMA PlayStepKeepsIInv ==
  ASSUME IInv, NEW c \in Calls, PlayStep(c) PROVE IInv'
<1> USE DEF synthVars, playVars, callVars, faults
<1>0. Types /\ Flag /\ CallInv(c)
  BY DEF IInv
<1>1. play[c] \notin {"none", "done"}
  BY DEF PlayStep, TestSpeaking, GetTimesOut, GetAudio, PlayAudio, Heard,
         EndPlayback
<1>2. c = caller /\ caller # 0 /\ c \notin ended
  BY <1>1, PlaybackIsTheCallers
<1>3. /\ UNCHANGED <<synth, sentence, caller, ended, stopped, before, late>>
      /\ broken \subseteq broken'
  BY DEF PlayStep, TestSpeaking, GetTimesOut, GetAudio, PlayAudio, Heard,
         EndPlayback
<1>4. play'[c] # "none"
  BY <1>0 DEF Types, PlayStep, TestSpeaking, GetTimesOut, GetAudio,
              PlayAudio, Heard, EndPlayback
<1>5. ASSUME NEW d \in Calls, d # c PROVE CallInv(d)'
  <2>1. play[d] # "playing"
    BY <1>2, <1>5, PlaybackIsTheCallers
  <2>2. /\ play'[d] = play[d] /\ queue'[d] = queue[d]
        /\ held'[d] = held[d] /\ played'[d] = played[d]
    BY <1>0, <1>5, <2>1 DEF Types, PlayStep, TestSpeaking, GetTimesOut,
       GetAudio, PlayAudio, Heard, EndPlayback
  <2> QED
    BY <1>3, <1>5, <2>2, Untouched
<1>6. Flag'
  <2>1. CASE EndPlayback(c)
    BY <2>1, <1>2, <1>3 DEF Flag, EndPlayback
  <2>2. CASE ~EndPlayback(c)
    BY <2>2, <1>0, <1>1, <1>2, <1>3 DEF Flag, PlayStep, TestSpeaking,
       GetTimesOut, GetAudio, PlayAudio, Heard
  <2> QED
    BY <2>1, <2>2
<1>7. Placed(c)'
  BY <1>0, <1>2, <1>3, <1>4 DEF CallInv, Placed
<1>8. Cut(c) => Cut(c)'
  BY <1>3 DEF Cut
<1>9. /\ played[c] \in Seq(0 .. Sentences) /\ Len(played[c]) \in Nat
      /\ queue[c] \in Seq(0 .. Sentences) /\ Len(queue[c]) \in Nat
      /\ held[c] \in 0 .. Sentences
  BY <1>0 DEF Types
<1>10. CASE TestSpeaking(c)
  <2>1. /\ play[c] = "test" /\ play' = [play EXCEPT ![c] = play'[c]]
        /\ play'[c] \in {"get", "end"}
        /\ play'[c] = "get" <=> speaking
        /\ UNCHANGED <<speaking, queue, held, played, broken>>
    BY <1>10, <1>0 DEF TestSpeaking, Types
  <2>2. Types'
    BY <1>0, <1>3, <2>1 DEF Types
  <2>3. play'[c] = "end" <=> c \in stopped
    BY <1>0, <1>1, <1>2, <2>1 DEF Flag
  <2>4. Taken(c)' = Taken(c) /\ \A i \in 1 .. Len(queue[c]) : Due(c, i)' = Due(c, i)
    BY <1>3, <2>1 DEF Taken, Due
  <2>5. InOrder(c)'
    BY <1>0, <1>3, <1>8, <2>1, <2>4 DEF CallInv, InOrder
  <2>6. Reasons(c)' /\ OneMore(c)'
    BY <1>0, <1>3, <1>8, <2>1, <2>3 DEF CallInv, Reasons, OneMore, Cut
  <2> QED
    BY <1>5, <1>6, <1>7, <2>2, <2>5, <2>6 DEF IInv, CallInv
<1>11. CASE GetTimesOut(c) \/ Heard(c)
  <2>1. /\ play[c] \in {"get", "playing"} /\ play' = [play EXCEPT ![c] = "test"]
        /\ play'[c] = "test"
        /\ UNCHANGED <<speaking, queue, held, played, broken>>
    BY <1>11, <1>0 DEF GetTimesOut, Heard, Types
  <2>2. Types'
    BY <1>0, <1>3, <2>1 DEF Types
  <2>3. Taken(c)' = Taken(c) /\ \A i \in 1 .. Len(queue[c]) : Due(c, i)' = Due(c, i)
    BY <1>3, <2>1 DEF Taken, Due
  <2>4. InOrder(c)'
    BY <1>0, <1>3, <1>8, <2>1, <2>3 DEF CallInv, InOrder
  <2>5. Reasons(c)' /\ OneMore(c)'
    BY <1>0, <1>3, <1>8, <2>1 DEF CallInv, Reasons, OneMore
  <2> QED
    BY <1>5, <1>6, <1>7, <2>2, <2>4, <2>5 DEF IInv, CallInv
<1>12. CASE GetAudio(c)
  <2>1. /\ play[c] = "get" /\ queue[c] # <<>>
        /\ held' = [held EXCEPT ![c] = Head(queue[c])]
        /\ queue' = [queue EXCEPT ![c] = Tail(queue[c])]
        /\ play' = [play EXCEPT ![c] = play'[c]]
        /\ play'[c] = IF Head(queue[c]) = Sentinel THEN "end" ELSE "start"
        /\ UNCHANGED <<speaking, played, broken>>
    BY <1>12, <1>0 DEF GetAudio, Types
  <2>2. /\ Head(queue[c]) \in 0 .. Sentences
        /\ Head(queue[c]) = queue[c][1]
        /\ Tail(queue[c]) \in Seq(0 .. Sentences)
        /\ Len(queue[c]) > 0
        /\ Len(Tail(queue[c])) = Len(queue[c]) - 1
        /\ \A i \in 1 .. Len(Tail(queue[c])) : Tail(queue[c])[i] = queue[c][i + 1]
    <3>1. /\ Head(queue[c]) \in 0 .. Sentences
          /\ Tail(queue[c]) \in Seq(0 .. Sentences)
          /\ Len(Tail(queue[c])) = Len(queue[c]) - 1
          /\ \A i \in 1 .. Len(Tail(queue[c])) : Tail(queue[c])[i] = queue[c][i + 1]
      BY <1>9, <2>1, HeadTailProperties
    <3>2. Len(queue[c]) > 0 /\ Head(queue[c]) = queue[c][1]
      BY <1>9, <2>1
    <3> QED
      BY <3>1, <3>2
  <2>3. queue'[c] = Tail(queue[c]) /\ held'[c] = queue[c][1]
    BY <1>0, <2>1, <2>2 DEF Types
  <2>4. Types'
    BY <1>0, <1>3, <2>1, <2>2 DEF Types
  <2>5. /\ \A i \in 1 .. Len(queue[c]) : queue[c][i] = Due(c, i)
        /\ synth[c] # "done" => sentence[c] = Len(played[c]) + Len(queue[c]) + 1
        /\ synth[c] = "done" => sentence[c] = Len(played[c]) + Len(queue[c])
        /\ synth[c] \in {"end", "done"} => sentence[c] = Sentences + 1 \/ Cut(c)
    <3>1. play[c] \notin {"end", "done"} /\ Taken(c) = Len(played[c])
      BY <1>9, <2>1 DEF Taken
    <3> QED
      BY <1>0, <3>1 DEF CallInv, InOrder
  <2>6. queue[c][1] = Due(c, 1) /\ Taken(c) = Len(played[c])
    BY <1>9, <2>1, <2>2, <2>5 DEF Taken
  <2>7. CASE queue[c][1] = Sentinel
    <3>1. Len(queue[c]) = 1 /\ synth[c] = "done"
      BY <1>9, <2>6, <2>7 DEF Due, Sentinel
    <3>2. Len(played[c]) = Sentences \/ Cut(c)
      BY <1>9, <2>5, <3>1
    <3>3. play'[c] = "end"
      BY <2>1, <2>2, <2>7
    <3> QED
      BY <1>0, <1>3, <1>5, <1>6, <1>7, <1>8, <2>1, <2>4, <3>2, <3>3
         DEF IInv, CallInv, Reasons, InOrder, OneMore
  <2>8. CASE queue[c][1] # Sentinel
    <3>1. play'[c] = "start"
      BY <2>1, <2>2, <2>8
    <3>2. ~(Len(queue[c]) = 1 /\ synth[c] = "done")
      BY <2>6, <2>8 DEF Due
    <3>3. held'[c] = Len(played[c]) + 1
      BY <1>9, <2>3, <2>6, <3>2 DEF Due
    <3>4. Taken(c)' = Len(played[c]) + 1
      BY <2>1, <3>1 DEF Taken
    <3>5. ASSUME NEW i \in 1 .. Len(queue'[c])
          PROVE  queue'[c][i] = Due(c, i)'
      <4>1. i + 1 \in 1 .. Len(queue[c]) /\ i \in Nat
        BY <1>9, <2>2, <2>3
      <4>2. queue'[c][i] = Due(c, i + 1)
        BY <2>2, <2>3, <2>5, <4>1
      <4>3. Len(queue'[c]) = Len(queue[c]) - 1
        BY <2>2, <2>3
      <4>4. CASE i + 1 = Len(queue[c]) /\ synth[c] = "done"
        BY <1>3, <1>9, <4>1, <4>2, <4>3, <4>4 DEF Due
      <4>5. CASE ~(i + 1 = Len(queue[c]) /\ synth[c] = "done")
        <5>1. queue'[c][i] = Len(played[c]) + (i + 1)
          BY <1>9, <2>6, <4>2, <4>5 DEF Due
        <5>2. ~(i = Len(queue'[c]) /\ synth'[c] = "done")
          BY <1>3, <1>9, <4>1, <4>3, <4>5
        <5>3. Due(c, i)' = (Len(played[c]) + 1) + i
          BY <3>4, <5>2 DEF Due
        <5>4. Len(played[c]) + (i + 1) = (Len(played[c]) + 1) + i
          BY <1>9, <4>1, Places
        <5> QED
          BY <5>1, <5>3, <5>4
      <4> QED
        BY <4>4, <4>5
    <3>6. /\ synth[c] # "done" => sentence[c] = Taken(c)' + Len(queue'[c]) + 1
          /\ synth[c] = "done" => /\ Len(queue'[c]) > 0
                                  /\ sentence[c] = Taken(c)' + Len(queue'[c])
      <4>1. Len(queue'[c]) = Len(queue[c]) - 1
        BY <2>2, <2>3
      <4>2. Len(queue[c]) > 0
        BY <2>2
      <4>3. Len(played[c]) + Len(queue[c]) = Taken(c)' + Len(queue'[c])
        <5>1. Len(played[c]) + Len(queue[c])
                = (Len(played[c]) + 1) + (Len(queue[c]) - 1)
          BY <1>9, <4>2, Places
        <5> QED
          BY <3>4, <4>1, <5>1
      <4>4. synth[c] = "done" => Len(queue'[c]) > 0
        BY <1>9, <3>2, <4>1, <4>2, Places
      <4> QED
        BY <2>5, <4>3, <4>4
    <3>7. InOrder(c)'
      BY <1>3, <1>8, <2>1, <2>5, <3>3, <3>5, <3>6 DEF InOrder
    <3> QED
      BY <1>0, <1>3, <1>5, <1>6, <1>7, <1>8, <2>1, <2>4, <3>1, <3>7
         DEF IInv, CallInv, Reasons, OneMore
  <2> QED
    BY <2>7, <2>8
<1>13. CASE PlayAudio(c)
  <2>1. /\ play[c] = "start" /\ play' = [play EXCEPT ![c] = play'[c]]
        /\ UNCHANGED <<speaking, queue, held>>
        /\ \/ /\ play'[c] = "playing"
              /\ played' = [played EXCEPT ![c] = Append(played[c], held[c])]
           \/ /\ play'[c] = "end" /\ c \in broken' /\ UNCHANGED played
    BY <1>13, <1>0 DEF PlayAudio, Types
  <2>2. CASE play'[c] = "playing"
    <3>1. played' = [played EXCEPT ![c] = Append(played[c], held[c])]
      BY <2>1, <2>2
    <3>2. /\ Append(played[c], held[c]) \in Seq(0 .. Sentences)
          /\ Len(Append(played[c], held[c])) = Len(played[c]) + 1
      BY <1>9, AppendProperties
    <3>3. Types'
      BY <1>0, <1>3, <2>1, <2>2, <3>1, <3>2 DEF Types
    <3>4. Taken(c)' = Taken(c)
      BY <1>0, <1>9, <2>1, <2>2, <3>1, <3>2 DEF Taken, Types
    <3>5. \A i \in 1 .. Len(queue[c]) : Due(c, i)' = Due(c, i)
      BY <1>3, <2>1, <3>4 DEF Due
    <3>6. InOrder(c)'
      BY <1>0, <1>3, <1>8, <2>1, <2>2, <3>4, <3>5 DEF CallInv, InOrder
    <3> QED
      BY <1>0, <1>3, <1>5, <1>6, <1>7, <2>2, <3>3, <3>6
         DEF IInv, CallInv, Reasons, OneMore
  <2>3. CASE play'[c] = "end"
    <3>1. Types'
      BY <1>0, <1>3, <2>1, <2>3 DEF Types
    <3> QED
      BY <1>0, <1>3, <1>5, <1>6, <1>7, <2>1, <2>3, <3>1
         DEF IInv, CallInv, Reasons, InOrder, OneMore, Cut
  <2> QED
    BY <2>1, <2>2, <2>3
<1>14. CASE EndPlayback(c)
  <2>1. /\ play[c] = "end" /\ play'[c] = "done" /\ speaking' = FALSE
        /\ UNCHANGED <<queue, held, played, broken>>
    BY <1>14 DEF EndPlayback
  <2>2. Types'
    BY <1>0, <1>3, <1>14, <2>1 DEF Types, EndPlayback
  <2> QED
    BY <1>0, <1>3, <1>5, <1>6, <1>7, <1>8, <2>1, <2>2
       DEF IInv, CallInv, Reasons, InOrder, OneMore
<1> QED
  BY <1>10, <1>11, <1>12, <1>13, <1>14 DEF PlayStep

(* A call begins with an empty queue, at its first sentence, not stopped.    *)
LEMMA SpeakKeepsIInv ==
  ASSUME IInv, NEW c \in Calls, Speak(c) PROVE IInv'
<1> USE DEF synthVars, playVars, callVars, faults, Speak
<1>0. Types /\ CallInv(c) /\ c # 0 /\ caller = 0
  BY DEF IInv
<1>1. /\ sentence[c] = 1 /\ queue[c] = <<>> /\ played[c] = <<>>
      /\ c \notin stopped /\ c \notin ended
  BY <1>0 DEF CallInv, Placed
<1>2. synth'[c] = "test" /\ play'[c] = "test" /\ caller' = c /\ speaking'
  BY <1>0 DEF Types
<1>3. Types'
  BY <1>0 DEF Types
<1>4. ASSUME NEW d \in Calls, d # c PROVE CallInv(d)'
  <2>1. synth'[d] = synth[d] /\ play'[d] = play[d] /\ d # 0
    BY <1>0, <1>4 DEF Types
  <2> QED
    BY <1>0, <1>2, <1>4, <2>1, Untouched
<1>5. CallInv(c)'
  BY <1>1, <1>2 DEF CallInv, Placed, InOrder, Taken, Reasons, OneMore
<1> QED
  BY <1>1, <1>2, <1>3, <1>4, <1>5 DEF IInv, Flag

(* The call that returns keeps its two threads' traces.                      *)
LEMMA ReturnKeepsIInv ==
  ASSUME IInv, Return PROVE IInv'
<1> USE DEF synthVars, playVars, callVars, faults, Return
<1>0. Types /\ caller \in Calls /\ CallInv(caller)
  BY DEF IInv, Types
<1>1. Types' /\ Flag'
  BY <1>0 DEF Types, Flag
<1>2. ASSUME NEW d \in Calls, d # caller PROVE CallInv(d)'
  BY <1>2, Untouched
<1>3. ASSUME NEW c \in Calls, c = caller PROVE CallInv(c)'
  <2>1. Placed(c)'
    BY <1>3 DEF Placed
  <2>2. Reasons(c)' /\ OneMore(c)'
    BY <1>0, <1>3 DEF CallInv, Reasons, OneMore, Cut
  <2>3. InOrder(c)'
    BY <1>3 DEF InOrder
  <2> QED
    BY <2>1, <2>2, <2>3 DEF CallInv
<1> QED
  BY <1>1, <1>2, <1>3 DEF IInv

(* stop(): the flag is down, the sentence that plays ends, and the call may  *)
(* still play the one its playback thread is about to take or has taken.     *)
LEMMA StopKeepsIInv ==
  ASSUME IInv, Stop PROVE IInv'
<1> USE DEF synthVars, playVars, callVars, faults, Stop
<1>0. Types /\ caller \in Calls /\ CallInv(caller)
  BY DEF IInv, Types
<1>1. Len(played[caller]) \in Nat
  BY <1>0 DEF Types
<1>2. Types'
  BY <1>0, <1>1 DEF Types
<1>3. Flag'
  BY DEF Flag
<1>4. ASSUME NEW d \in Calls, d # caller PROVE CallInv(d)'
  <2>1. play[d] # "playing"
    BY <1>4, PlaybackIsTheCallers
  <2>2. play'[d] = play[d] /\ before'[d] = before[d]
    BY <1>0, <1>4, <2>1 DEF Types
  <2> QED
    BY <1>4, <2>2, Untouched
<1>5. ASSUME NEW c \in Calls, c = caller PROVE CallInv(c)'
  <2>1. play'[c] = IF play[c] = "playing" THEN "test" ELSE play[c]
    OBVIOUS
  <2>2. before'[c] = IF c \in stopped THEN before[c] ELSE Len(played[c])
    BY <1>0, <1>5 DEF Types
  <2>3. c \in stopped' /\ c \notin ended
    BY <1>0, <1>5 DEF CallInv, Placed
  <2>4. Placed(c)'
    BY <1>0, <1>5, <2>1, <2>3 DEF CallInv, Placed
  <2>5. Reasons(c)' /\ OneMore(c)'
    BY <1>0, <1>1, <1>5, <2>1, <2>2, <2>3 DEF CallInv, Reasons, OneMore, Cut
  <2>6. Taken(c)' = Taken(c) /\ \A i \in 1 .. Len(queue[c]) : Due(c, i)' = Due(c, i)
    BY <2>1 DEF Taken, Due
  <2>7. InOrder(c)'
    BY <1>0, <1>5, <2>1, <2>3, <2>6 DEF CallInv, InOrder, Cut
  <2> QED
    BY <2>4, <2>5, <2>7 DEF CallInv
<1> QED
  BY <1>2, <1>3, <1>4, <1>5 DEF IInv

(* Every step of the caller, of stop() and of the threads keeps it.          *)
LEMMA NextKeepsIInv == IInv /\ [Next]_vars => IInv'
<1> SUFFICES ASSUME IInv, [Next]_vars PROVE IInv'
  OBVIOUS
<1>1. ASSUME NEW c \in Calls, Speak(c) PROVE IInv'
  BY <1>1, SpeakKeepsIInv
<1>2. ASSUME NEW c \in Calls, SynthStep(c) PROVE IInv'
  BY <1>2, SynthStepKeepsIInv
<1>3. ASSUME NEW c \in Calls, PlayStep(c) PROVE IInv'
  BY <1>3, PlayStepKeepsIInv
<1>4. CASE Return
  BY <1>4, ReturnKeepsIInv
<1>5. CASE Stop
  BY <1>5, StopKeepsIInv
<1>6. CASE UNCHANGED vars
  <2>1. ASSUME NEW c \in Calls PROVE CallInv(c)'
    BY <1>6, Untouched DEF vars
  <2>2. Types' /\ Flag'
    BY <1>6 DEF vars, IInv, Types, Flag
  <2> QED
    BY <2>1, <2>2 DEF IInv
<1> QED
  BY <1>1, <1>2, <1>3, <1>4, <1>5, <1>6 DEF Next

(* What the threads know of a call at every moment: where each sentence is,  *)
(* and why a thread of it has ended.                                         *)
THEOREM EverySentenceHasItsPlace == Spec => []IInv
<1> QED
  BY InitIInv, NextKeepsIInv, PTL DEF Spec

-----------------------------------------------------------------------------
(* A synthesis step is a failure of the call it works for, or nothing that   *)
(* can be heard.                                                             *)
LEMMA SynthStepImplements ==
  ASSUME IInv, NEW c \in Calls, SynthStep(c)
  PROVE  [Promise!Next]_(Promise!vars)
<1> USE DEF synthVars, playVars, callVars, faults
<1>1. UNCHANGED <<caller, played, ended, stopped, before>>
  BY DEF SynthStep, NextSentence, Synthesize, PutAudio, PutTimesOut, PutSentinel
<1>2. CASE UNCHANGED <<broken, late>>
  BY <1>1, <1>2 DEF Promise!vars
<1>3. CASE (broken \cup late)' = (broken \cup late) \cup {c}
  <2>1. synth[c] # "none"
    BY DEF SynthStep, NextSentence, Synthesize, PutAudio, PutTimesOut,
           PutSentinel
  <2>2. c = caller \/ c \in ended
    BY <2>1, SynthesisIsOfACall
  <2>3. Promise!Break(c)
    BY <1>1, <1>3, <2>2 DEF Promise!Break
  <2> QED
    BY <2>3 DEF Promise!Next
<1> QED
  BY <1>2, <1>3 DEF SynthStep, NextSentence, Synthesize, PutAudio,
                    PutTimesOut, PutSentinel

(* The playback thread says the next sentence of the call that is current,   *)
(* after stop() at most the one it had in hand.                              *)
LEMMA PlayStepImplements ==
  ASSUME IInv, NEW c \in Calls, PlayStep(c)
  PROVE  [Promise!Next]_(Promise!vars)
<1> USE DEF synthVars, playVars, callVars, faults
<1>1. UNCHANGED <<caller, ended, stopped, before, late>>
  BY DEF PlayStep, TestSpeaking, GetTimesOut, GetAudio, PlayAudio, Heard,
         EndPlayback
<1>2. CASE UNCHANGED <<played, broken>>
  BY <1>1, <1>2 DEF Promise!vars
<1>3. CASE PlayAudio(c)
  <2>1. play[c] = "start"
    BY <1>3 DEF PlayAudio
  <2>2. c = caller /\ caller # 0
    BY <2>1, PlaybackIsTheCallers
  <2>3. CASE broken' = broken \cup {c} /\ UNCHANGED played
    <3>1. Promise!Break(c)
      BY <1>1, <2>2, <2>3 DEF Promise!Break
    <3> QED
      BY <3>1 DEF Promise!Next
  <2>4. CASE played' = [played EXCEPT ![c] = Append(@, held[c])] /\ UNCHANGED broken
    <3>1. Types /\ CallInv(c)
      BY DEF IInv
    <3>2. held[c] = Len(played[c]) + 1
      BY <2>1, <3>1 DEF CallInv, InOrder
    <3>3. Len(played[c]) \in Nat /\ held[c] \in 0 .. Sentences
      BY <3>1 DEF Types
    <3>4. Len(played[c]) < Sentences
      BY <3>2, <3>3
    <3>5. c \in stopped => Len(played[c]) <= before[c]
      BY <2>1, <3>1 DEF CallInv, OneMore
    <3>6. Promise!Say
      BY <1>1, <2>2, <2>4, <3>2, <3>4, <3>5 DEF Promise!Say
    <3> QED
      BY <3>6 DEF Promise!Next
  <2> QED
    BY <1>3, <2>3, <2>4 DEF PlayAudio
<1> QED
  BY <1>2, <1>3 DEF PlayStep, TestSpeaking, GetTimesOut, GetAudio, Heard,
                    EndPlayback

(* A call that returns has said everything, or was stopped, or broke.        *)
LEMMA ReturnImplements ==
  ASSUME IInv, Return PROVE Promise!End
<1> USE DEF synthVars, playVars, callVars, faults
<1>1. caller \in Calls /\ CallInv(caller) /\ play[caller] = "done"
  BY DEF IInv, Types, Return
<1>2. Len(played[caller]) = Sentences \/ caller \in stopped \cup (broken \cup late)
  BY <1>1 DEF CallInv, Reasons, Cut
<1> QED
  BY <1>2 DEF Promise!End, Return

(* Every step is a step of the promise or none that can be noticed.          *)
LEMMA NextImplements ==
  IInv /\ [Next]_vars => [Promise!Next]_(Promise!vars)
<1> USE DEF synthVars, playVars, callVars, faults
<1> SUFFICES ASSUME IInv, [Next]_vars PROVE [Promise!Next]_(Promise!vars)
  OBVIOUS
<1>1. ASSUME NEW c \in Calls, Speak(c) PROVE [Promise!Next]_(Promise!vars)
  <2>1. Promise!Begin(c)
    BY <1>1 DEF Speak, Promise!Begin
  <2> QED
    BY <2>1 DEF Promise!Next
<1>2. ASSUME NEW c \in Calls, SynthStep(c) PROVE [Promise!Next]_(Promise!vars)
  BY <1>2, SynthStepImplements
<1>3. ASSUME NEW c \in Calls, PlayStep(c) PROVE [Promise!Next]_(Promise!vars)
  BY <1>3, PlayStepImplements
<1>4. CASE Return
  BY <1>4, ReturnImplements DEF Promise!Next
<1>5. CASE Stop
  <2>1. CASE caller \in stopped
    BY <1>5, <2>1 DEF Stop, Promise!vars
  <2>2. CASE caller \notin stopped
    <3>1. Promise!Interrupt
      BY <1>5, <2>2 DEF Stop, Promise!Interrupt
    <3> QED
      BY <3>1 DEF Promise!Next
  <2> QED
    BY <2>1, <2>2
<1>6. CASE UNCHANGED vars
  BY <1>6 DEF vars, Promise!vars
<1> QED
  BY <1>1, <1>2, <1>3, <1>4, <1>5, <1>6 DEF Next

(* The threads and the queue implement module Speech, all but its fairness:  *)
(* every call says its sentences in their order and alone, starts at most    *)
(* one after stop(), and returns before the end only when it was stopped or  *)
(* something of it broke or came late.                                       *)
THEOREM StepsOfSpeech == Spec => Promise!Init /\ [][Promise!Next]_(Promise!vars)
<1>1. Init => Promise!Init
  BY DEF Init, Promise!Init
<1> QED
  BY <1>1, InitIInv, NextKeepsIInv, NextImplements, PTL DEF Spec
=============================================================================
