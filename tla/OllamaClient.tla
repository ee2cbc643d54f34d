---------------------------- MODULE OllamaClient ----------------------------
(***************************************************************************)
(* core/ollama_client.py's ResilientOllamaClient under brain.py's think    *)
(* and think_stream.  A request is tried up to three times; a stream is    *)
(* only opened when its first chunk is read, outside the tries.  A verdict *)
(* on the server's health is kept for a while: it comes from the check     *)
(* started by the constructor, from is_healthy's callers, and from a       *)
(* request that gave up.  Each of them writes it under the lock, with a    *)
(* time read earlier, while a reader takes no lock.  The clock's unit is   *)
(* far below the 30 seconds a verdict is kept and far above the time of a  *)
(* step that waits for nobody; what only feeds stats() is left out.        *)
(***************************************************************************)
EXTENDS Integers

CONSTANTS Requests,   \* the turns that ask the model
          StartUp,    \* the thread of the constructor's check
          Callers,    \* is_healthy's callers
          MaxRetries, \* MAX_RETRIES
          Ttl,        \* HEALTH_CACHE_TTL
          MaxTime, MaxFlips  \* bounds of a behaviour

ASSUME ClientAssumption ==
  /\ MaxRetries \in Nat \ {0} /\ Ttl \in Nat \ {0}
  /\ MaxTime \in Nat /\ MaxFlips \in Nat

Checkers == {StartUp} \cup Callers

\* "bare": the server lists its models and refuses to chat, as when the model
\* is missing.  "sick": the status is a success other than 200.  An error
\* status raises in urlopen and in the client, as a missing server does.
Servers == {"up", "bare", "sick", "down"}

VARIABLES server, flips,  \* the state of Ollama, and how often it changed
          now,            \* time.time()
          seen,           \* history: the states Ollama had in each unit of time
          client,         \* _health_status and _health_checked_at
          check,          \* _check_health in each of its callers
          req             \* _retry_operation and the turn it is called from

world == <<server, flips, seen>>
vars == <<server, flips, now, seen, client, check, req>>

NoCheck == [at |-> "idle", began |-> 0, heard |-> "none", answer |-> "none"]
NoTurn == [at |-> "idle", kind |-> "chat", refused |-> 0, said |-> "nothing"]

Init ==
  /\ server \in Servers /\ flips = 0 /\ now = 0
  /\ seen = [t \in 0 .. MaxTime |-> IF t = 0 THEN {server} ELSE {}]
  /\ client = [health |-> "none", checkedAt |-> 0]
  /\ check = [p \in Checkers |-> NoCheck]
  /\ req = [r \in Requests |-> NoTurn]

\* Ollama starts, stops or begins to fail.
ServerChanges(s) ==
  /\ s # server /\ flips < MaxFlips
  /\ server' = s /\ flips' = flips + 1
  /\ seen' = [seen EXCEPT ![now] = @ \cup {s}]
  /\ UNCHANGED <<now, client, check, req>>

TimePasses ==
  /\ now < MaxTime /\ \A p \in Checkers : check[p].at \notin {"fresh", "heard"}
  /\ now' = now + 1
  /\ seen' = [seen EXCEPT ![now + 1] = {server}]
  /\ UNCHANGED <<server, flips, client, check, req>>

-----------------------------------------------------------------------------
(* _check_health *)

(* Mutant of Fresh: a verdict as old as the limit is kept.                   *)
FreshLonger == client.health # "none" /\ now - client.checkedAt <= Ttl
\* The test of the cache, which takes no lock.
Fresh == client.health # "none" /\ now - client.checkedAt < Ttl

\* The time is read; a verdict that is fresh will be the answer.
CheckBegins(p) ==
  /\ check[p].at = "idle"
  /\ check' = [check EXCEPT ![p].at = IF Fresh THEN "fresh" ELSE "asking",
                            ![p].began = now]
  /\ UNCHANGED <<world, now, client, req>>

\* The answer is what _health_status holds by then.
CheckCached(p) ==
  /\ check[p].at = "fresh"
  /\ check' = [check EXCEPT ![p].at = "done",
                            ![p].answer = client.health]
  /\ UNCHANGED <<world, now, client, req>>

\* GET /api/tags is answered or refused, which may take up to three seconds.
CheckHears(p) ==
  /\ check[p].at = "asking"
  /\ check' = [check EXCEPT ![p].at = "heard", ![p].heard = server]
  /\ UNCHANGED <<world, now, client, req>>

\* What a check returns, of an Ollama in state s.
Says(s) == IF s \in {"up", "bare"} THEN "yes" ELSE "no"

Verdict(health, time) == [health |-> health, checkedAt |-> time]

\* The lock is taken and the verdict written with the time the check began;
\* a success other than 200 writes none.
CheckRecords(p) ==
  /\ check[p].at = "heard"
  /\ check' = [check EXCEPT ![p].at = "done", ![p].heard = "none",
                            ![p].answer = Says(check[p].heard)]
  /\ client' = IF check[p].heard = "sick" THEN client
               ELSE Verdict(Says(check[p].heard), check[p].began)
  /\ UNCHANGED <<world, now, req>>

\* is_healthy() returns, and may be called again; the first check is the
\* thread's last.
CheckReturns(p) ==
  /\ check[p].at = "done" /\ p # StartUp
  /\ check' = [check EXCEPT ![p] = NoCheck]
  /\ UNCHANGED <<world, now, client, req>>

-----------------------------------------------------------------------------
(* _retry_operation, chat, chat_stream, and the turn's own ends in brain.py *)

Ask(r, kind) ==
  /\ req[r].at = "idle"
  /\ req' = [req EXCEPT ![r].at = "trying", ![r].kind = kind]
  /\ UNCHANGED <<world, now, client, check>>

\* think, think_with_tools and think_vision call chat().
AskChat(r) == Ask(r, "chat")

\* think_stream calls chat_stream().
AskStream(r) == Ask(r, "stream")

\* fn() returns; the answer of chat() is the turn's.
ChatAnswered(r) ==
  /\ req[r].at = "trying" /\ req[r].kind = "chat" /\ server = "up"
  /\ req' = [req EXCEPT ![r].at = "ended", ![r].said = "words"]
  /\ UNCHANGED <<world, now, client, check>>

\* client.chat(stream=True) returns a generator: Ollama has not been asked.
StreamOpened(r) ==
  /\ req[r].at = "trying" /\ req[r].kind = "stream"
  /\ req' = [req EXCEPT ![r].at = "open"]
  /\ UNCHANGED <<world, now, client, check>>

Refused(r) ==
  /\ req[r].at = "trying" /\ req[r].kind = "chat" /\ server # "up"

\* An attempt fails, and another follows after a while.
Retry(r) ==
  /\ Refused(r) /\ req[r].refused + 1 < MaxRetries
  /\ req' = [req EXCEPT ![r].refused = @ + 1]
  /\ UNCHANGED <<world, now, client, check>>

(* Mutant of GivesUp: the turn that catches the error says nothing.          *)
GivesUpSilently(r) ==
  /\ Refused(r) /\ req[r].refused + 1 = MaxRetries
  /\ client' = Verdict("no", now)
  /\ req' = [req EXCEPT ![r].at = "ended", ![r].refused = @ + 1]
  /\ UNCHANGED <<world, now, check>>

\* The last attempt fails: the verdict is overwritten with the present time,
\* OllamaConnectionError is raised, and the turn says the fallback text.
GivesUp(r) ==
  /\ Refused(r) /\ req[r].refused + 1 = MaxRetries
  /\ client' = Verdict("no", now)
  /\ req' = [req EXCEPT ![r].at = "ended", ![r].refused = @ + 1,
                        ![r].said = "sorry"]
  /\ UNCHANGED <<world, now, check>>

\* The first chunk is read: now the request is made, once.  A failure is
\* logged, the generator ends, and think_stream saves the empty reply.
StreamBegins(r) ==
  /\ req[r].at = "open" /\ server = "up"
  /\ req' = [req EXCEPT ![r].at = "flowing", ![r].said = "words"]
  /\ UNCHANGED <<world, now, client, check>>

StreamRefused(r) ==
  /\ req[r].at = "open" /\ server # "up"
  /\ req' = [req EXCEPT ![r].at = "ended", ![r].refused = 1]
  /\ UNCHANGED <<world, now, client, check>>

\* The stream is complete, or breaks in the middle: what was said stands.
StreamEnds(r) ==
  /\ req[r].at = "flowing"
  /\ req' = [req EXCEPT ![r].at = "ended"]
  /\ UNCHANGED <<world, now, client, check>>

NextTurn(r) ==
  /\ req[r].at = "ended"
  /\ req' = [req EXCEPT ![r] = NoTurn]
  /\ UNCHANGED <<world, now, client, check>>

-----------------------------------------------------------------------------
Check(p) == CheckCached(p) \/ CheckHears(p) \/ CheckRecords(p)
Request(r) ==
  ChatAnswered(r) \/ StreamOpened(r) \/ Retry(r) \/ GivesUp(r)
    \/ StreamBegins(r) \/ StreamRefused(r) \/ StreamEnds(r)

Outside == TimePasses \/ \E s \in Servers : ServerChanges(s)

ClientNext ==
  \/ \E p \in Checkers :
       CheckBegins(p) \/ Check(p) \/ CheckReturns(p)
  \/ \E r \in Requests : AskChat(r) \/ AskStream(r) \/ Request(r) \/ NextTurn(r)

Next == Outside \/ ClientNext

\* A thread goes on, and Ollama answers or refuses what it is asked: the
\* health check has a time limit, and chat is taken to have one.
Fairness ==
  /\ \A p \in Checkers : WF_vars(Check(p))
  /\ \A r \in Requests : WF_vars(Request(r))

Spec == Init /\ [][Next]_vars /\ Fairness
-----------------------------------------------------------------------------
(* An answer fits a state: a server without the model is healthy to a check  *)
(* and not to a turn.                                                        *)
Fits(answer, s) == answer = Says(s) \/ (answer = "no" /\ s = "bare")

(* In one of the units of time from..to Ollama was as the answer says.       *)
Shown(answer, from, to) ==
  \E t \in 0 .. MaxTime : t \in from .. to /\ \E s \in seen[t] : Fits(answer, s)

\* The types of the client, of its checks and of the world around it.
TypeOK ==
  /\ server \in Servers /\ now \in 0 .. MaxTime
  /\ seen \in [0 .. MaxTime -> SUBSET Servers]
  /\ client \in [health : {"none", "yes", "no"}, checkedAt : 0 .. MaxTime]
  /\ check \in [Checkers ->
       [at : {"idle", "fresh", "asking", "heard", "done"}, began : 0 .. MaxTime,
        heard : Servers \cup {"none"}, answer : {"none", "yes", "no"}]]

\* _check_health, is_healthy: whatever the start-up check, other callers and
\* failing requests wrote in between, an answer reports a state Ollama was in
\* since the question was asked, or less than HEALTH_CACHE_TTL before it.
HealthAnswersFresh ==
  \A p \in Checkers : check[p].at = "done" =>
    Shown(check[p].answer, check[p].began - Ttl + 1, now)

\* _retry_operation, think, think_stream: every turn ends, with words, or with
\* the fallback text after three refusals; only a stream refused at its first
\* chunk, which is never tried again, leaves the turn without a word.
Ended(r) ==
  /\ req[r].at = "ended"
  /\ \/ req[r].said = "words"
     \/ req[r].said = "sorry" /\ req[r].refused = MaxRetries
     \/ req[r].kind = "stream" /\ req[r].said = "nothing" /\ req[r].refused = 1
EveryTurnAnswers == \A r \in Requests : req[r].at = "trying" ~> Ended(r)
=============================================================================
