------------------------------- MODULE Speech -------------------------------
(***************************************************************************)
(* What tts.py's speak_streamed promises its callers, without its threads  *)
(* and its queue: one call at a time speaks its sentences in their order,  *)
(* stop() lets at most the one sentence start that was already taken, and  *)
(* every call returns, having said everything unless it was stopped or     *)
(* something of it broke.                                                  *)
(***************************************************************************)
EXTENDS Naturals, Sequences

CONSTANTS Calls,      \* 1..n: the calls, one after another
          Sentences   \* sentences of the text of a call

VARIABLES current,    \* the call that is speaking, or 0
          spoken,     \* spoken[c]: the sentences c has started to say
          ended,      \* calls that have returned
          stopped,    \* calls during which stop() was called
          before,     \* before[c]: how many c had started by its first stop()
          broken      \* calls of which a part failed or gave up

vars == <<current, spoken, ended, stopped, before, broken>>

Init ==
  /\ current = 0
  /\ spoken = [c \in Calls |-> <<>>]
  /\ ended = {} /\ stopped = {} /\ broken = {}
  /\ before = [c \in Calls |-> 0]

Begin(c) ==
  /\ current = 0
  /\ c \notin ended /\ \A d \in Calls : d < c => d \in ended
  /\ current' = c
  /\ UNCHANGED <<spoken, ended, stopped, before, broken>>

Say ==
  LET said == Len(spoken[current])
  IN /\ current # 0
     /\ said < Sentences
     /\ current \in stopped => said <= before[current]
     /\ spoken' = [spoken EXCEPT ![current] = Append(@, said + 1)]
     /\ UNCHANGED <<current, ended, stopped, before, broken>>

Interrupt ==
  /\ current # 0 /\ current \notin stopped
  /\ stopped' = stopped \cup {current}
  /\ before' = [before EXCEPT ![current] = Len(spoken[current])]
  /\ UNCHANGED <<current, spoken, ended, broken>>

Break(c) ==
  /\ c = current \/ c \in ended
  /\ broken' = broken \cup {c}
  /\ UNCHANGED <<current, spoken, ended, stopped, before>>

End ==
  /\ current # 0
  /\ \/ Len(spoken[current]) = Sentences
     \/ current \in stopped \cup broken
  /\ ended' = ended \cup {current}
  /\ current' = 0
  /\ UNCHANGED <<spoken, stopped, before, broken>>

Next == (\E c \in Calls : Begin(c) \/ Break(c)) \/ Say \/ Interrupt \/ End

Spec == Init /\ [][Next]_vars /\ WF_vars(Say) /\ WF_vars(End)
=============================================================================
