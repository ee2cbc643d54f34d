------------------------------ MODULE GuiProofs ------------------------------
(***************************************************************************)
(* Proofs about Gui for any requests, pool size, history length and number *)
(* of tool turns: the orb does not stay busy, the chat view shows answers  *)
(* after their questions and once, and the history keeps whole exchanges.  *)
(* Signals are delivered late, so the argument follows a request's entries *)
(* from the inbox to the chat view.                                        *)
(***************************************************************************)
EXTENDS Gui, SequenceTheorems, TLAPS

USE RequestsAssumption, BoundsAssumption

Answers   == {"SON", "Error"}
Questions == {"Dad", "You (Voice)"}
Asked(r)  == {"think", "build", "chat", "dialog", "tool", "save", "savereply"}
             \cup IF r \in Typed THEN {"queued"} ELSE {}
Heard     == {"think", "build", "chat", "dialog", "tool", "save", "savereply", "done"}

Types ==
  /\ pc \in [Requests -> Points] /\ tasks \in Seq(Requests)
  /\ history \in Seq(Exchange) /\ Len(history) <= MaxHistory
  /\ inbox \in Seq(Signals) /\ orb \in OrbStates /\ chat \in Seq(Senders \X Requests)

(* A request is in the pool's queue once, and only until a thread takes it.  *)
Queued ==
  /\ \A i \in DOMAIN tasks : pc[tasks[i]] = "queued"
  /\ \A i, j \in DOMAIN tasks : tasks[i] = tasks[j] => i = j

(* What the orb shows when the signals under way are delivered.              *)
Final ==
  IF inbox = <<>> THEN orb
  ELSE LET s == inbox[Len(inbox)]
       IN  IF "show" \in DOMAIN s THEN s.show ELSE "idle"

OrbAccounted ==
  ~lost /\ Final # "idle" => \E r \in Requests : pc[r] \notin {"new", "done"}

(* The places of r's entries by some senders: those under way to the chat    *)
(* view, and those in it.                                                    *)
Under(r, senders) ==
  {i \in DOMAIN inbox : /\ "show" \notin DOMAIN inbox[i]
                        /\ inbox[i].req = r /\ inbox[i].sender \in senders}
Shown(r, senders) ==
  {i \in DOMAIN chat : chat[i][2] = r /\ chat[i][1] \in senders}

(* Only a request that was begun, and if spoken understood, has entries.     *)
NotBefore(r) ==
  /\ Under(r, Senders) # {} => pc[r] \in Heard
  /\ Shown(r, Senders) # {} => pc[r] # "new" /\ (r \in Typed \/ pc[r] \in Heard)

(* The question of a request that is being answered is in the chat view or   *)
(* under way.                                                                *)
QuestionIn(r) ==
  pc[r] \in Asked(r) => Shown(r, Questions) # {} \/ Under(r, Questions) # {}

(* An answer is the last entry of its request, and comes after its question. *)
AnswerUnderWay(r) ==
  \A i \in Under(r, Answers) :
    /\ pc[r] = "done"
    /\ Shown(r, Questions) # {} \/ \E j \in Under(r, Questions) : j < i
    /\ \A j \in Under(r, Senders) : j <= i

AnswerShown(r) ==
  \A i \in Shown(r, Answers) :
    /\ pc[r] = "done" /\ Under(r, Senders) = {}
    /\ \E j \in Shown(r, Questions) : j < i
    /\ \A j \in Shown(r, Senders) : j <= i

Placed(r) == NotBefore(r) /\ QuestionIn(r) /\ AnswerUnderWay(r) /\ AnswerShown(r)

(* The history while nobody saves, and while r has saved its question but    *)
(* not its reply: then a full deque begins with a reply whose question went. *)
Pair(i) ==
  /\ history[i].role = "user"
  /\ history[i + 1] = [req |-> history[i].req, role |-> "assistant"]

Whole ==
  /\ Len(history) % 2 = 0
  /\ \A i \in 1 .. Len(history) :
       IF i % 2 = 1 THEN Pair(i) ELSE history[i].role = "assistant"

Half(r) ==
  /\ history # <<>> /\ history[Len(history)] = [req |-> r, role |-> "user"]
  /\ \E b \in {0, 1} :
       /\ IF b = 1 THEN Len(history) % 2 = 1 ELSE Len(history) = MaxHistory
       /\ \A i \in 1 .. Len(history) - 1 :
            IF i % 2 = b THEN Pair(i) ELSE history[i].role = "assistant"

Exchanges ==
  ~mixed =>
    /\ ~Saving => Whole
    /\ \A r \in Requests : pc[r] = "savereply" =>
         Half(r) /\ \A q \in Requests : pc[q] = "savereply" => q = r

IInv == /\ Types /\ Queued /\ OrbAccounted /\ Exchanges
        /\ \A r \in Requests : Placed(r)

-----------------------------------------------------------------------------
(* What Append and Tail do to the entries of a sequence.                     *)
LEMMA AppendFacts ==
  ASSUME NEW S, NEW s \in Seq(S), NEW e \in S
  PROVE  /\ Append(s, e) \in Seq(S) /\ Append(s, e) # <<>>
         /\ Len(s) \in Nat /\ Len(Append(s, e)) = Len(s) + 1
         /\ DOMAIN s = 1 .. Len(s) /\ DOMAIN Append(s, e) = 1 .. Len(s) + 1
         /\ \A i \in 1 .. Len(s) : Append(s, e)[i] = s[i]
         /\ Append(s, e)[Len(s) + 1] = e
  OBVIOUS

(* Tail takes the first entry off and moves the others up.                  *)
LEMMA TailFacts ==
  ASSUME NEW S, NEW s \in Seq(S), s # <<>>
  PROVE  /\ Tail(s) \in Seq(S) /\ Head(s) = s[1] /\ Head(s) \in S
         /\ Len(s) \in Nat \ {0} /\ Len(Tail(s)) = Len(s) - 1
         /\ DOMAIN s = 1 .. Len(s) /\ DOMAIN Tail(s) = 1 .. Len(s) - 1
         /\ \A i \in 1 .. Len(s) - 1 : Tail(s)[i] = s[i + 1]
  OBVIOUS

(* A signal either shows a state or carries a response.                      *)
LEMMA SignalKinds ==
  /\ \A x \in OrbStates : Show(x) \in Signals /\ "show" \in DOMAIN Show(x)
                          /\ Show(x).show = x
  /\ \A sender \in Senders, r \in Requests :
       /\ Response(sender, r) \in Signals /\ "show" \notin DOMAIN Response(sender, r)
       /\ Response(sender, r).sender = sender /\ Response(sender, r).req = r
  /\ \A s \in Signals : IF "show" \in DOMAIN s THEN s.show \in OrbStates
                        ELSE s.sender \in Senders /\ s.req \in Requests
BY DEF Signals, Show, Response

(* A step of a request's task, in a pool thread: where it goes, and what it  *)
(* emits.                                                                    *)
TaskMoves(r, p) ==
  /\ pc' = [pc EXCEPT ![r] = p]
  /\ UNCHANGED <<tasks, orb, chat>>
  /\ lost => lost'
  /\ \/ /\ inbox' = inbox
        /\ \/ pc[r] \in {"think", "build", "chat", "dialog", "tool", "save"}
              /\ p \in {"build", "chat", "dialog", "tool", "save", "savereply"}
           \/ pc[r] \in {"record", "transcribe"} /\ p = "done" /\ lost'
     \/ /\ pc[r] = "record" /\ p = "transcribe" /\ inbox' = Append(inbox, Show("thinking"))
     \/ /\ pc[r] \in {"record", "transcribe"} /\ p = "done"
        /\ inbox' = Append(inbox, Show("idle"))
     \/ /\ pc[r] = "transcribe" /\ p = "think"
        /\ inbox' = Append(inbox, Response("You (Voice)", r))
     \/ /\ pc[r] \in {"build", "chat", "dialog", "savereply"} /\ p = "done"
        /\ \E sender \in Answers : inbox' = Append(inbox, Response(sender, r))

(* Every step of a request's task is one of these moves.                    *)
LEMMA TasksMove ==
  ASSUME Types, NEW r \in Requests, Task(r)
  PROVE  \E p \in Points : TaskMoves(r, p)
<1> USE DEF TaskMoves, Goto, Emit, Answer, Points, Answers, window, brain
<1>1. CASE RecordingEnds(r)
  BY <1>1 DEF RecordingEnds
<1>2. CASE Transcribe(r)
  <2>1. CASE Emit(Response("You (Voice)", r)) /\ Goto(r, "think") /\ UNCHANGED lost
    BY <1>2, <2>1 DEF Transcribe
  <2>2. CASE Emit(Show("idle")) /\ Goto(r, "done") /\ UNCHANGED lost
    BY <1>2, <2>2 DEF Transcribe
  <2>3. CASE Goto(r, "done") /\ lost' = TRUE /\ UNCHANGED inbox
    BY <1>2, <2>3 DEF Transcribe
  <2> QED BY <1>2, <2>1, <2>2, <2>3 DEF Transcribe
<1>3. CASE BeginBuild(r)
  BY <1>3 DEF BeginBuild
<1>4. CASE EndBuild(r)
  BY <1>4 DEF EndBuild
<1>5. CASE Chat(r)
  BY <1>5 DEF Chat, Dispatch
<1>8. CASE DialogEnds(r)
  BY <1>8 DEF DialogEnds, CallDone, Dispatch
<1>9. CASE ToolEnds(r)
  BY <1>9 DEF ToolEnds, CallDone, Dispatch
<1>6. CASE SaveUser(r)
  BY <1>6 DEF SaveUser
<1>7. CASE SaveReply(r)
  BY <1>7 DEF SaveReply
<1> QED BY <1>1, <1>2, <1>3, <1>4, <1>5, <1>6, <1>7, <1>8, <1>9
        DEF Task, Works, Waits, Think

-----------------------------------------------------------------------------
(* A signal that is emitted is behind those under way.                       *)
LEMMA Emitted ==
  ASSUME Types, NEW s \in Signals, inbox' = Append(inbox, s),
         NEW r \in Requests, NEW X \in SUBSET Senders
  PROVE  /\ \A i \in Under(r, X) : i < Len(inbox) + 1
         /\ \A i \in Under(r, X)' : i <= Len(inbox) + 1
         /\ Under(r, X)' = Under(r, X)
              \cup IF "show" \notin DOMAIN s /\ s.req = r /\ s.sender \in X
                   THEN {Len(inbox) + 1} ELSE {}
<1>1. /\ Len(inbox) \in Nat
      /\ DOMAIN inbox = 1 .. Len(inbox) /\ DOMAIN inbox' = 1 .. Len(inbox) + 1
      /\ \A i \in 1 .. Len(inbox) : inbox'[i] = inbox[i]
      /\ inbox'[Len(inbox) + 1] = s
  BY AppendFacts DEF Types
<1> DEFINE n == Len(inbox)
<1>2. /\ n \in Nat /\ n + 1 \in Nat /\ n + 1 \notin 1 .. n
      /\ 1 .. n + 1 = (1 .. n) \cup {n + 1}
      /\ \A i \in 1 .. n : i \in Nat /\ i < n + 1
  BY <1>1
<1> HIDE DEF n
<1>3. /\ DOMAIN inbox' = DOMAIN inbox \cup {n + 1} /\ n + 1 \notin DOMAIN inbox
      /\ \A i \in DOMAIN inbox : inbox'[i] = inbox[i] /\ i \in Nat /\ i < n + 1
      /\ inbox'[n + 1] = s
  BY <1>1, <1>2 DEF n
<1>4. Under(r, X)' = Under(r, X)
              \cup IF "show" \notin DOMAIN s /\ s.req = r /\ s.sender \in X
                   THEN {n + 1} ELSE {}
  BY <1>3 DEF Under
<1>5. \A i \in Under(r, X) : i \in Nat /\ i < n + 1
  BY <1>3 DEF Under
<1>6. \A i \in Under(r, X)' : i <= n + 1
  BY <1>2, <1>4, <1>5
<1> QED BY <1>4, <1>5, <1>6 DEF n

(* A step that adds no entry, by a request that goes on.                     *)
LEMMA SilentKeeps ==
  ASSUME Types, NEW r \in Requests, Placed(r), NEW q \in Requests, NEW p \in Points,
         pc' = [pc EXCEPT ![q] = p], pc[q] # "done", p # "new",
         pc[q] \in Heard => p \in Heard,
         p \in Asked(q) => pc[q] \in Asked(q),
         \A X \in SUBSET Senders : Under(r, X)' = Under(r, X) /\ Shown(r, X)' = Shown(r, X)
  PROVE  Placed(r)'
<1>1. /\ pc'[r] = IF r = q THEN p ELSE pc[r]
      /\ Answers \in SUBSET Senders /\ Questions \in SUBSET Senders
      /\ Senders \in SUBSET Senders
  BY DEF Types, Answers, Questions, Senders
<1>2. NotBefore(r)' /\ QuestionIn(r)'
  BY <1>1 DEF Placed, NotBefore, QuestionIn, Asked
<1>3. AnswerUnderWay(r)' /\ AnswerShown(r)'
  BY <1>1 DEF Placed, AnswerUnderWay, AnswerShown
<1> QED BY <1>2, <1>3 DEF Placed

(* A step that emits a spoken request's question, or a request's answer.     *)
LEMMA ResponseKeeps ==
  ASSUME Types, NEW r \in Requests, Placed(r), NEW q \in Requests,
         NEW sender \in Senders, inbox' = Append(inbox, Response(sender, q)),
         NEW p \in Points, pc' = [pc EXCEPT ![q] = p], chat' = chat,
         \/ pc[q] = "transcribe" /\ p = "think" /\ sender = "You (Voice)"
         \/ pc[q] \in Asked(q) /\ p = "done" /\ sender \in Answers
  PROVE  Placed(r)'
<1> DEFINE n == Len(inbox) + 1
<1>1. \A X \in SUBSET Senders :
        /\ \A i \in Under(r, X) : i < n
        /\ \A i \in Under(r, X)' : i <= n
        /\ Under(r, X)' = Under(r, X) \cup IF r = q /\ sender \in X THEN {n} ELSE {}
  <2> DEFINE s == Response(sender, q)
  <2>1. s \in Signals /\ "show" \notin DOMAIN s /\ s.sender = sender /\ s.req = q
    BY SignalKinds
  <2>2. inbox' = Append(inbox, s)
    OBVIOUS
  <2> HIDE DEF s
  <2>3. ASSUME NEW X \in SUBSET Senders
        PROVE  /\ \A i \in Under(r, X) : i < n
               /\ \A i \in Under(r, X)' : i <= n
               /\ Under(r, X)' = Under(r, X) \cup IF "show" \notin DOMAIN s /\ s.req = r /\ s.sender \in X
                   THEN {n} ELSE {}
    BY <2>1, <2>2, Emitted
  <2> HIDE DEF n
  <2> QED BY <2>1, <2>3
<1>2. \A X \in SUBSET Senders : Shown(r, X)' = Shown(r, X)
  BY DEF Shown
<1>3. /\ pc'[r] = IF r = q THEN p ELSE pc[r]
      /\ Answers \in SUBSET Senders /\ Questions \in SUBSET Senders
      /\ Senders \in SUBSET Senders
      /\ \A X \in SUBSET Senders : Under(r, X) \subseteq Under(r, Senders)
                                  /\ Shown(r, X) \subseteq Shown(r, Senders)
  BY DEF Types, Answers, Questions, Senders, Under, Shown
<1> HIDE DEF n
<1>4. CASE r # q
  <2>1. \A X \in SUBSET Senders : Under(r, X)' = Under(r, X)
    BY <1>1, <1>4
  <2> QED BY <1>2, <1>3, <1>4, <2>1
          DEF Placed, NotBefore, QuestionIn, AnswerUnderWay, AnswerShown
<1>5. CASE r = q /\ pc[q] = "transcribe" /\ p = "think" /\ sender = "You (Voice)"
  <2>1. Under(r, Senders) = {} /\ Shown(r, Answers) = {}
    BY <1>3, <1>5 DEF Placed, NotBefore, Heard, AnswerShown
  <2>2. /\ Under(r, Answers)' = {} /\ n \in Under(r, Questions)'
        /\ Shown(r, Answers)' = {} /\ pc'[r] = "think"
    <3>1. Under(r, Answers) = {} /\ sender \notin Answers /\ sender \in Questions
      BY <1>3, <1>5, <2>1 DEF Answers, Questions
    <3> QED BY <1>1, <1>2, <1>3, <1>5, <2>1, <3>1
  <2>3. NotBefore(r)' /\ QuestionIn(r)'
    BY <2>2 DEF NotBefore, QuestionIn, Heard
  <2> QED BY <2>2, <2>3 DEF Placed, AnswerUnderWay, AnswerShown
<1>6. CASE r = q /\ pc[q] \in Asked(q) /\ p = "done" /\ sender \in Answers
  <2>1. /\ pc[r] # "done" /\ pc'[r] = "done"
        /\ Shown(r, Questions) # {} \/ Under(r, Questions) # {}
    BY <1>3, <1>6 DEF Placed, QuestionIn, Asked
  <2>2. Under(r, Answers) = {} /\ Shown(r, Answers) = {}
    BY <2>1 DEF Placed, AnswerUnderWay, AnswerShown
  <2>3. Under(r, Answers)' = {n} /\ Shown(r, Answers)' = {}
    BY <1>1, <1>2, <1>3, <1>6, <2>2
  <2>4. NotBefore(r)' /\ QuestionIn(r)'
    <3>1. "done" \notin Asked(r) /\ "done" \in Heard
      BY DEF Asked, Heard
    <3> QED BY <2>1, <3>1 DEF NotBefore, QuestionIn
  <2>5. Shown(r, Questions)' # {} \/ \E j \in Under(r, Questions)' : j < n
    BY <1>1, <1>2, <1>3, <2>1
  <2>6. \A j \in Under(r, Senders)' : j <= n
    BY <1>1, <1>3
  <2> QED BY <2>1, <2>3, <2>4, <2>5, <2>6 DEF Placed, AnswerUnderWay, AnswerShown
<1> QED BY <1>4, <1>5, <1>6

-----------------------------------------------------------------------------
(* An entry of the chat view is below those before it.                       *)
LEMMA Written ==
  ASSUME Types, NEW sender \in Senders, NEW q \in Requests,
         chat' = Append(chat, <<sender, q>>),
         NEW r \in Requests, NEW X \in SUBSET Senders
  PROVE  /\ \A i \in Shown(r, X) : i < Len(chat) + 1
         /\ \A i \in Shown(r, X)' : i <= Len(chat) + 1
         /\ Shown(r, X)' = Shown(r, X)
              \cup IF r = q /\ sender \in X THEN {Len(chat) + 1} ELSE {}
<1> DEFINE e == <<sender, q>>
<1>1. /\ Len(chat) \in Nat
      /\ DOMAIN chat = 1 .. Len(chat) /\ DOMAIN chat' = 1 .. Len(chat) + 1
      /\ \A i \in 1 .. Len(chat) : chat'[i] = chat[i]
      /\ chat'[Len(chat) + 1] = e
  <2>1. e \in Senders \X Requests
    OBVIOUS
  <2> QED BY <2>1, AppendFacts DEF Types
<1> DEFINE n == Len(chat)
<1>2. /\ n \in Nat /\ n + 1 \notin 1 .. n
      /\ 1 .. n + 1 = (1 .. n) \cup {n + 1}
      /\ \A i \in 1 .. n : i \in Nat /\ i < n + 1
  BY <1>1
<1> HIDE DEF n
<1>3. /\ DOMAIN chat' = DOMAIN chat \cup {n + 1} /\ n + 1 \notin DOMAIN chat
      /\ \A i \in DOMAIN chat : chat'[i] = chat[i] /\ i \in Nat /\ i < n + 1
      /\ chat'[n + 1][1] = sender /\ chat'[n + 1][2] = q
  BY <1>1, <1>2 DEF n
<1>4. Shown(r, X)' = Shown(r, X)
              \cup IF r = q /\ sender \in X THEN {n + 1} ELSE {}
  BY <1>3 DEF Shown
<1>5. \A i \in Shown(r, X) : i \in Nat /\ i < n + 1
  BY <1>3 DEF Shown
<1>6. \A i \in Shown(r, X)' : i <= n + 1
  BY <1>2, <1>4, <1>5
<1> QED BY <1>4, <1>5, <1>6 DEF n

(* Dad's prompt is in the chat view before its request begins.               *)
LEMMA PromptKeeps ==
  ASSUME Types, NEW r \in Requests, Placed(r), NEW q \in Typed, pc[q] = "new",
         pc' = [pc EXCEPT ![q] = "queued"], inbox' = inbox,
         chat' = Append(chat, <<"Dad", q>>)
  PROVE  Placed(r)'
<1>1. q \in Requests /\ "Dad" \in Senders
  BY DEF Requests, Senders
<1>2. \A X \in SUBSET Senders :
        /\ Under(r, X)' = Under(r, X)
        /\ Shown(r, X)' = Shown(r, X)
             \cup IF r = q /\ "Dad" \in X THEN {Len(chat) + 1} ELSE {}
  BY <1>1, Written DEF Under
<1>3. /\ pc'[r] = IF r = q THEN "queued" ELSE pc[r]
      /\ Answers \in SUBSET Senders /\ Questions \in SUBSET Senders
      /\ Senders \in SUBSET Senders
      /\ \A X \in SUBSET Senders : Under(r, X) \subseteq Under(r, Senders)
                                  /\ Shown(r, X) \subseteq Shown(r, Senders)
  BY <1>1 DEF Types, Answers, Questions, Senders, Under, Shown
<1>4. CASE r # q
  BY <1>2, <1>3, <1>4 DEF Placed, NotBefore, QuestionIn, AnswerUnderWay, AnswerShown
<1>5. CASE r = q
  <2>1. Under(r, Senders) = {} /\ Shown(r, Senders) = {}
    BY <1>5 DEF Placed, NotBefore, Heard
  <2>2. /\ "Dad" \notin Answers /\ "Dad" \in Questions
        /\ Under(r, Senders)' = {} /\ Under(r, Answers)' = {}
    BY <1>2, <1>3, <2>1 DEF Answers, Questions
  <2>3. Shown(r, Answers)' = {} /\ Shown(r, Questions)' # {}
    BY <1>2, <1>3, <1>5, <2>1, <2>2
  <2> QED BY <1>3, <1>5, <2>2, <2>3
          DEF Placed, NotBefore, QuestionIn, AnswerUnderWay, AnswerShown
<1> QED BY <1>4, <1>5

(* Delivery moves the places of the inbox down by one, and what was first    *)
(* there, if it is a response, to the end of the chat view.                  *)
LEMMA Delivered ==
  ASSUME Types, Deliver, NEW r \in Requests, NEW X \in SUBSET Senders
  PROVE  /\ Under(r, X) \subseteq Nat \ {0} /\ Under(r, X)' \subseteq Nat \ {0}
         /\ \A i \in Nat \ {0} : i \in Under(r, X)' <=> i + 1 \in Under(r, X)
         /\ \A i \in Shown(r, X) : i < Len(chat) + 1
         /\ \A i \in Shown(r, X)' : i <= Len(chat) + 1
         /\ Shown(r, X)' = Shown(r, X)
              \cup IF 1 \in Under(r, X) THEN {Len(chat) + 1} ELSE {}
<1> DEFINE n == Len(inbox)
           s == inbox[1]
<1>1. /\ n \in Nat \ {0} /\ Len(inbox) = n /\ DOMAIN inbox = 1 .. n
      /\ DOMAIN inbox' = 1 .. n - 1 /\ Head(inbox) = s /\ s \in Signals
      /\ \A i \in 1 .. n - 1 : inbox'[i] = inbox[i + 1]
  BY TailFacts DEF Deliver, Types
<1> HIDE DEF n, s
<1>2. /\ 1 \in 1 .. n
      /\ \A i \in Nat \ {0} : i \in 1 .. n - 1 <=> i + 1 \in 1 .. n
      /\ 1 .. n \subseteq Nat \ {0} /\ 1 .. n - 1 \subseteq Nat \ {0}
  BY <1>1
<1>3. Under(r, X) \subseteq Nat \ {0} /\ Under(r, X)' \subseteq Nat \ {0}
  BY <1>1, <1>2 DEF Under
<1>4. \A i \in Nat \ {0} : i \in Under(r, X)' <=> i + 1 \in Under(r, X)
  BY <1>1, <1>2 DEF Under
<1>5. 1 \in Under(r, X) <=> "show" \notin DOMAIN s /\ s.req = r /\ s.sender \in X
  BY <1>1, <1>2 DEF Under, s
<1>6. CASE "show" \in DOMAIN s
  <2>1. chat' = chat
    BY <1>1, <1>6 DEF Deliver
  <2>2. \A i \in DOMAIN chat : i < Len(chat) + 1 /\ i <= Len(chat) + 1
    BY DEF Types
  <2> QED BY <1>3, <1>4, <1>5, <1>6, <2>1, <2>2 DEF Shown
<1>7. CASE "show" \notin DOMAIN s
  <2>1. s.sender \in Senders /\ s.req \in Requests
    BY <1>1, <1>7, SignalKinds
  <2>2. chat' = Append(chat, <<s.sender, s.req>>)
    BY <1>1, <1>7 DEF Deliver
  <2> DEFINE sender == s.sender
             q == s.req
  <2>3. /\ \A i \in Shown(r, X) : i < Len(chat) + 1
        /\ \A i \in Shown(r, X)' : i <= Len(chat) + 1
        /\ Shown(r, X)' = Shown(r, X)
              \cup IF r = q /\ sender \in X THEN {Len(chat) + 1} ELSE {}
    <3> HIDE DEF sender, q
    <3>1. sender \in Senders /\ q \in Requests /\ chat' = Append(chat, <<sender, q>>)
      BY <2>1, <2>2 DEF sender, q
    <3> QED BY <3>1, Written
  <2> QED BY <1>3, <1>4, <1>5, <1>7, <2>3
<1> QED BY <1>6, <1>7

(* So a delivery keeps a request's entries in their order.                   *)
LEMMA DeliverKeeps ==
  ASSUME Types, Deliver, NEW r \in Requests, Placed(r) PROVE Placed(r)'
<1> DEFINE n == Len(chat) + 1
<1>1. \A X \in SUBSET Senders :
        /\ Under(r, X) \subseteq Nat \ {0} /\ Under(r, X)' \subseteq Nat \ {0}
        /\ \A i \in Nat \ {0} : i \in Under(r, X)' <=> i + 1 \in Under(r, X)
        /\ \A i \in Shown(r, X) : i < n
        /\ \A i \in Shown(r, X)' : i <= n
        /\ Shown(r, X)' = Shown(r, X) \cup IF 1 \in Under(r, X) THEN {n} ELSE {}
  BY Delivered
<1> HIDE DEF n
<1>2. /\ pc' = pc /\ "new" \notin Heard
      /\ Answers \in SUBSET Senders /\ Questions \in SUBSET Senders
      /\ Senders \in SUBSET Senders
      /\ \A X \in SUBSET Senders : Under(r, X) \subseteq Under(r, Senders)
  BY DEF Deliver, Answers, Questions, Senders, Under, Heard
<1>3. /\ Under(r, Senders)' # {} => Under(r, Senders) # {}
      /\ 1 \in Under(r, Senders) => Under(r, Senders) # {}
      /\ Shown(r, Senders)' # {} => Shown(r, Senders) # {} \/ Under(r, Senders) # {}
  <2>1. \A i \in Under(r, Senders)' : i \in Nat \ {0} /\ i + 1 \in Under(r, Senders)
    BY <1>1, <1>2
  <2>2. Shown(r, Senders)' = Shown(r, Senders)
           \cup IF 1 \in Under(r, Senders) THEN {n} ELSE {}
    BY <1>1, <1>2
  <2> QED BY <2>1, <2>2
<1>4. NotBefore(r)'
  BY <1>2, <1>3 DEF Placed, NotBefore
<1>5. Shown(r, Questions) # {} => Shown(r, Questions)' # {}
  BY <1>1, <1>2
<1>6. ASSUME NEW j \in Under(r, Questions)
      PROVE  Shown(r, Questions)' # {} \/ j - 1 \in Under(r, Questions)'
  <2>1. CASE j = 1
    BY <1>1, <1>2, <2>1
  <2>2. CASE j # 1
    <3>1. j \in Nat \ {0}
      BY <1>1, <1>2
    <3>2. j - 1 \in Nat \ {0} /\ (j - 1) + 1 = j
      BY <2>2, <3>1
    <3> QED BY <1>1, <1>2, <3>2
  <2> QED BY <2>1, <2>2
<1>7. QuestionIn(r)'
  BY <1>2, <1>5, <1>6 DEF Placed, QuestionIn, Asked
<1>8. AnswerUnderWay(r)'
  <2> SUFFICES ASSUME NEW i \in Under(r, Answers)'
               PROVE  /\ pc[r] = "done"
                      /\ \/ Shown(r, Questions)' # {}
                         \/ \E j \in Under(r, Questions)' : j < i
                      /\ \A j \in Under(r, Senders)' : j <= i
    BY <1>2 DEF AnswerUnderWay
  <2>1. i \in Nat \ {0} /\ i + 1 \in Under(r, Answers)
    BY <1>1, <1>2
  <2>2. /\ pc[r] = "done"
        /\ Shown(r, Questions) # {} \/ \E j \in Under(r, Questions) : j < i + 1
        /\ \A j \in Under(r, Senders) : j <= i + 1
    BY <2>1 DEF Placed, AnswerUnderWay
  <2>3. ASSUME NEW j \in Under(r, Senders)' PROVE j <= i
    <3>1. j \in Nat /\ j + 1 \in Under(r, Senders)
      BY <1>1, <1>2
    <3>2. j + 1 <= i + 1
      BY <2>2, <3>1
    <3> QED BY <2>1, <3>1, <3>2
  <2>4. ASSUME NEW j \in Under(r, Questions), j < i + 1
        PROVE  \/ Shown(r, Questions)' # {}
               \/ \E k \in Under(r, Questions)' : k < i
    <3>1. j \in Nat \ {0}
      BY <1>1, <1>2
    <3>2. j - 1 < i
      BY <2>1, <2>4, <3>1
    <3> QED BY <1>6, <3>2
  <2> QED BY <1>5, <2>2, <2>3, <2>4
<1>9. CASE 1 \in Under(r, Answers)
  <2>1. pc[r] = "done" /\ \A j \in Under(r, Senders) : j <= 1
    BY <1>9 DEF Placed, AnswerUnderWay
  <2>2. \A j \in Nat \ {0} : ~(j < 1) /\ ~(j + 1 <= 1)
    OBVIOUS
  <2>3. Under(r, Senders)' = {}
    BY <1>1, <1>2, <2>1, <2>2
  <2>4. Shown(r, Questions) # {}
    <3>1. \A j \in Under(r, Questions) : j \in Nat \ {0}
      BY <1>1, <1>2
    <3> QED BY <1>9, <2>2, <3>1 DEF Placed, AnswerUnderWay
  <2>5. Shown(r, Answers) = {}
    BY <1>2, <1>9 DEF Placed, AnswerShown
  <2>6. Shown(r, Answers)' = {n} /\ \A j \in Shown(r, Senders)' : j <= n
    BY <1>1, <1>2, <1>9, <2>5
  <2>7. \E j \in Shown(r, Questions)' : j < n
    BY <1>1, <1>2, <2>4
  <2>8. AnswerShown(r)'
    BY <1>2, <2>1, <2>3, <2>6, <2>7 DEF AnswerShown
  <2> QED BY <1>4, <1>7, <1>8, <2>8 DEF Placed
<1>10. CASE 1 \notin Under(r, Answers)
  <2> SUFFICES ASSUME NEW i \in Shown(r, Answers)'
               PROVE  /\ pc[r] = "done" /\ Under(r, Senders)' = {}
                      /\ \E j \in Shown(r, Questions)' : j < i
                      /\ \A j \in Shown(r, Senders)' : j <= i
    BY <1>2, <1>4, <1>7, <1>8 DEF Placed, AnswerShown
  <2>1. i \in Shown(r, Answers)
    BY <1>1, <1>2, <1>10
  <2>2. /\ pc[r] = "done" /\ Under(r, Senders) = {}
        /\ \E j \in Shown(r, Questions) : j < i
        /\ \A j \in Shown(r, Senders) : j <= i
    BY <2>1 DEF Placed, AnswerShown
  <2>3. Under(r, Senders)' = {} /\ Shown(r, Senders)' = Shown(r, Senders)
    <3>1. \A k \in Under(r, Senders)' : k \in Nat \ {0} /\ k + 1 \in Under(r, Senders)
      BY <1>1, <1>2
    <3>2. Shown(r, Senders)' = Shown(r, Senders)
             \cup IF 1 \in Under(r, Senders) THEN {n} ELSE {}
      BY <1>1, <1>2
    <3> QED BY <2>2, <3>1, <3>2
  <2>4. Shown(r, Questions) \subseteq Shown(r, Questions)'
    BY <1>1, <1>2
  <2> QED BY <2>2, <2>3, <2>4
<1> QED BY <1>9, <1>10

-----------------------------------------------------------------------------
(* A request that takes a step keeps everybody's entries in their order.     *)
LEMMA TaskKeeps ==
  ASSUME Types, NEW r \in Requests, Placed(r), NEW q \in Requests, Task(q)
  PROVE  Placed(r)'
<1>1. PICK p \in Points : TaskMoves(q, p)
  BY TasksMove
<1>2. /\ pc' = [pc EXCEPT ![q] = p] /\ chat' = chat
      /\ \A X \in SUBSET Senders : Shown(r, X)' = Shown(r, X)
  BY <1>1 DEF TaskMoves, Shown
<1> DEFINE Silent == \A X \in SUBSET Senders : Under(r, X)' = Under(r, X)
<1>3. CASE inbox' = inbox
  <2>1. Silent
    BY <1>3 DEF Under
  <2>2. /\ pc[q] # "done" /\ p # "new" /\ (pc[q] \in Heard => p \in Heard)
        /\ p \in Asked(q) => pc[q] \in Asked(q)
    <3>1. \A s \in Signals : Append(inbox, s) # inbox
      BY AppendFacts DEF Types
    <3>2. inbox' # Append(inbox, Show("thinking")) /\ inbox' # Append(inbox, Show("idle"))
      BY <1>3, <3>1, SignalKinds DEF OrbStates
    <3>3. \A sender \in Senders : inbox' # Append(inbox, Response(sender, q))
      BY <1>3, <3>1, SignalKinds
    <3>4. Answers \subseteq Senders /\ "You (Voice)" \in Senders
      BY DEF Answers, Senders
    <3> QED BY <1>1, <3>2, <3>3, <3>4 DEF TaskMoves, Heard, Asked
  <2> QED BY <1>2, <2>1, <2>2, SilentKeeps
<1>4. ASSUME NEW x \in OrbStates, inbox' = Append(inbox, Show(x)),
             pc[q] \in {"record", "transcribe"}, p \in {"transcribe", "done"}
      PROVE  Placed(r)'
  <2>1. Silent
    <3> DEFINE s == Show(x)
    <3>1. s \in Signals /\ "show" \in DOMAIN s /\ inbox' = Append(inbox, s)
      BY <1>4, SignalKinds
    <3> HIDE DEF s
    <3>2. ASSUME NEW X \in SUBSET Senders PROVE Under(r, X)' = Under(r, X)
      <4>1. Under(r, X)' = Under(r, X)
              \cup IF "show" \notin DOMAIN s /\ s.req = r /\ s.sender \in X
                   THEN {Len(inbox) + 1} ELSE {}
        BY <3>1, Emitted
      <4> QED BY <3>1, <4>1
    <3> QED BY <3>2
  <2>2. /\ pc[q] # "done" /\ p # "new" /\ (pc[q] \in Heard => p \in Heard)
        /\ p \in Asked(q) => pc[q] \in Asked(q)
    BY <1>4 DEF Heard, Asked
  <2> QED BY <1>2, <2>1, <2>2, SilentKeeps
<1>5. CASE /\ pc[q] = "transcribe" /\ p = "think"
           /\ inbox' = Append(inbox, Response("You (Voice)", q))
  <2>1. "You (Voice)" \in Senders
    BY DEF Senders
  <2> QED BY <1>2, <1>5, <2>1, ResponseKeeps
<1>6. ASSUME NEW sender \in Answers, pc[q] \in {"build", "chat", "dialog", "savereply"},
             p = "done", inbox' = Append(inbox, Response(sender, q))
      PROVE  Placed(r)'
  <2>1. sender \in Senders /\ pc[q] \in Asked(q)
    BY <1>6 DEF Senders, Answers, Asked
  <2> QED BY <1>2, <1>6, <2>1, ResponseKeeps
<1>7. "thinking" \in OrbStates /\ "idle" \in OrbStates
  BY DEF OrbStates
<1> QED BY <1>1, <1>3, <1>4, <1>5, <1>6, <1>7 DEF TaskMoves

-----------------------------------------------------------------------------
(* The deque keeps its length and the kind of its entries.                   *)
LEMMA RememberTypes ==
  ASSUME Types, NEW e \in Exchange, Remember(e)
  PROVE  history' \in Seq(Exchange) /\ Len(history') <= MaxHistory
<1>1. CASE Len(history) < MaxHistory
  <2>1. history' = Append(history, e)
    BY <1>1 DEF Remember
  <2> QED BY <1>1, <2>1, AppendFacts DEF Types
<1>2. CASE ~(Len(history) < MaxHistory)
  <2>1. history' = Append(Tail(history), e) /\ Len(history) \in Nat /\ history # <<>>
    BY <1>2 DEF Remember, Types
  <2>2. Tail(history) \in Seq(Exchange) /\ Len(Tail(history)) = Len(history) - 1
    BY <2>1, TailFacts DEF Types
  <2>3. history' \in Seq(Exchange) /\ Len(history') = Len(Tail(history)) + 1
    BY <2>1, <2>2, AppendFacts
  <2> QED BY <2>1, <2>2, <2>3 DEF Types
<1> QED BY <1>1, <1>2

(* Tasks other than the two that save leave the history as it is.            *)
LEMMA OthersDoNotSave ==
  ASSUME NEW r \in Requests, Task(r), ~SaveUser(r), ~SaveReply(r)
  PROVE  UNCHANGED <<history, mixed>> /\ pc[r] \notin {"save", "savereply"}
BY DEF Task, Works, Waits, Think, RecordingEnds, Transcribe, BeginBuild, EndBuild, Chat,
       DialogEnds, ToolEnds, brain

(* Every step keeps the types.                                               *)
LEMMA TypesKept == ASSUME Types, Step PROVE Types'
<1>1. ASSUME NEW r \in Requests, OnUserPrompt(r) PROVE Types'
  <2>1. <<"Dad", r>> \in Senders \X Requests
    BY DEF Senders
  <2> QED BY <1>1, <2>1, AppendFacts
          DEF OnUserPrompt, Types, Goto, Points, OrbStates, brain
<1>2. ASSUME NEW r \in Requests, OnVoiceToggle(r) PROVE Types'
  BY <1>2, AppendFacts DEF OnVoiceToggle, Types, Goto, Points, OrbStates, brain
<1>3. ASSUME NEW r \in Requests, Task(r) PROVE Types'
  <2>1. PICK p \in Points : TaskMoves(r, p)
    BY <1>3, TasksMove
  <2>2. pc' \in [Requests -> Points] /\ UNCHANGED <<tasks, orb, chat>>
    BY <2>1 DEF TaskMoves, Types
  <2>3. inbox' \in Seq(Signals)
    <3>1. /\ \A x \in OrbStates : Append(inbox, Show(x)) \in Seq(Signals)
          /\ \A sender \in Senders : Append(inbox, Response(sender, r)) \in Seq(Signals)
      BY AppendFacts, SignalKinds DEF Types
    <3>2. /\ "thinking" \in OrbStates /\ "idle" \in OrbStates
          /\ Answers \subseteq Senders /\ "You (Voice)" \in Senders
      BY DEF OrbStates, Answers, Senders
    <3> QED BY <2>1, <3>1, <3>2 DEF TaskMoves, Types
  <2>4. history' \in Seq(Exchange) /\ Len(history') <= MaxHistory
    <3>1. CASE SaveUser(r)
      <4>1. [req |-> r, role |-> "user"] \in Exchange
        BY DEF Exchange
      <4> QED BY <3>1, <4>1, RememberTypes DEF SaveUser
    <3>2. CASE SaveReply(r)
      <4>1. [req |-> r, role |-> "assistant"] \in Exchange
        BY DEF Exchange
      <4> QED BY <3>2, <4>1, RememberTypes DEF SaveReply
    <3>3. CASE ~SaveUser(r) /\ ~SaveReply(r)
      BY <1>3, <3>3, OthersDoNotSave DEF Types
    <3> QED BY <3>1, <3>2, <3>3
  <2> QED BY <2>2, <2>3, <2>4 DEF Types
<1>4. CASE Deliver
  <2>1. /\ inbox' \in Seq(Signals) /\ Head(inbox) \in Signals
        /\ UNCHANGED <<pc, tasks, history>>
    BY <1>4, TailFacts DEF Deliver, Types, brain
  <2>2. orb' \in OrbStates /\ chat' \in Seq(Senders \X Requests)
    <3> DEFINE s == Head(inbox)
    <3>1. CASE "show" \in DOMAIN s
      BY <1>4, <2>1, <3>1, SignalKinds DEF Deliver, Types
    <3>2. CASE "show" \notin DOMAIN s
      <4>1. /\ <<s.sender, s.req>> \in Senders \X Requests
            /\ orb' = "idle" /\ chat' = Append(chat, <<s.sender, s.req>>)
        BY <1>4, <2>1, <3>2, SignalKinds DEF Deliver
      <4> QED BY <4>1, AppendFacts DEF Types, OrbStates
    <3> QED BY <3>1, <3>2
  <2> QED BY <2>1, <2>2 DEF Types
<1>5. CASE StartTask
  <2>1. Head(tasks) \in Requests /\ tasks' \in Seq(Requests)
    BY <1>5, TailFacts DEF StartTask, Types
  <2>2. pc' \in [Requests -> Points]
    BY <1>5, <2>1 DEF StartTask, Types, Goto, Points
  <2> QED BY <1>5, <2>1, <2>2 DEF StartTask, Types, brain, window
<1> QED BY <1>1, <1>2, <1>3, <1>4, <1>5 DEF Step

(* The pool takes each request once: it waits in the queue or has been taken.*)
LEMMA QueueKept == ASSUME Types, Queued, Step PROVE Queued'
<1>1. ASSUME NEW r \in Requests, pc[r] = "new", tasks' = Append(tasks, r),
             pc' = [pc EXCEPT ![r] = "queued"]
      PROVE  Queued'
  <2> DEFINE n == Len(tasks)
  <2>1. /\ n \in Nat /\ DOMAIN tasks = 1 .. n /\ DOMAIN tasks' = 1 .. n + 1
        /\ tasks'[n + 1] = r
        /\ \A i \in 1 .. n : tasks'[i] = tasks[i] /\ tasks[i] \in Requests
    BY <1>1, AppendFacts DEF Types
  <2> HIDE DEF n
  <2>2. \A i \in 1 .. n + 1 : i \in 1 .. n \/ i = n + 1
    BY <2>1
  <2>3. \A i \in 1 .. n : tasks[i] # r
    BY <1>1, <2>1 DEF Queued
  <2>4. \A q \in Requests : pc'[q] = IF q = r THEN "queued" ELSE pc[q]
    BY <1>1 DEF Types
  <2> QED BY <2>1, <2>2, <2>3, <2>4 DEF Queued
<1>2. ASSUME NEW r \in Requests, Task(r) PROVE Queued'
  <2>1. PICK p \in Points : TaskMoves(r, p)
    BY <1>2, TasksMove
  <2>2. tasks' = tasks /\ pc[r] # "queued" /\ pc' = [pc EXCEPT ![r] = p]
    BY <2>1 DEF TaskMoves
  <2>3. \A i \in DOMAIN tasks : tasks[i] \in Requests
    BY DEF Types
  <2> QED BY <2>2, <2>3 DEF Queued, Types
<1>3. CASE Deliver
  BY <1>3 DEF Deliver, Queued
<1>4. CASE StartTask
  <2> DEFINE n == Len(tasks)
             r == Head(tasks)
  <2>1. /\ n \in Nat \ {0} /\ DOMAIN tasks = 1 .. n /\ r = tasks[1] /\ r \in Requests
        /\ DOMAIN tasks' = 1 .. n - 1
        /\ \A i \in 1 .. n - 1 : tasks'[i] = tasks[i + 1]
    BY <1>4, TailFacts DEF StartTask, Types
  <2>2. PICK p \in Points : pc' = [pc EXCEPT ![r] = p]
    BY <1>4 DEF StartTask, Goto, Points
  <2> HIDE DEF n, r
  <2>3. /\ 1 \in 1 .. n
        /\ \A i \in 1 .. n - 1 : i + 1 \in 1 .. n /\ i + 1 # 1
        /\ \A i, j \in 1 .. n - 1 : i + 1 = j + 1 => i = j
    BY <2>1
  <2>4. ASSUME NEW i \in DOMAIN tasks'
        PROVE  pc'[tasks'[i]] = "queued" /\ tasks'[i] = tasks[i + 1]
    <3>1. tasks'[i] = tasks[i + 1] /\ i + 1 \in DOMAIN tasks /\ i + 1 # 1
      BY <2>1, <2>3
    <3>2. tasks[i + 1] # r /\ pc[tasks[i + 1]] = "queued"
      BY <2>1, <2>3, <3>1 DEF Queued
    <3> QED BY <2>2, <3>1, <3>2 DEF Types
  <2>5. ASSUME NEW i \in DOMAIN tasks', NEW j \in DOMAIN tasks', tasks'[i] = tasks'[j]
        PROVE  i = j
    <3>1. tasks[i + 1] = tasks[j + 1] /\ i + 1 \in DOMAIN tasks /\ j + 1 \in DOMAIN tasks
      BY <2>1, <2>3, <2>4, <2>5
    <3>2. i + 1 = j + 1
      BY <3>1 DEF Queued
    <3> QED BY <2>1, <2>3, <3>2
  <2> QED BY <2>4, <2>5 DEF Queued
<1>5. ASSUME NEW r \in Requests, OnUserPrompt(r) \/ OnVoiceToggle(r) PROVE Queued'
  BY <1>1, <1>5 DEF OnUserPrompt, OnVoiceToggle, Goto
<1> QED BY <1>2, <1>3, <1>4, <1>5 DEF Step

(* The pool's thread goes on with a request of the queue.                    *)
LEMMA TaskStarts ==
  ASSUME Types, Queued, StartTask
  PROVE  \E r \in Requests, p \in Points :
           /\ pc[r] = "queued" /\ pc' = [pc EXCEPT ![r] = p]
           /\ p = IF r \in Typed THEN "think" ELSE "record"
           /\ UNCHANGED <<inbox, chat, orb, lost, history, mixed>>
<1> DEFINE r == Head(tasks)
<1>1. r \in Requests /\ r = tasks[1] /\ 1 \in DOMAIN tasks
  BY TailFacts DEF StartTask, Types
<1>2. pc[r] = "queued"
  BY <1>1 DEF Queued
<1> QED BY <1>1, <1>2 DEF StartTask, Goto, Points, brain, window

(* The orb ends up idle when the last request does.                          *)
LEMMA OrbKept == ASSUME Types, Queued, OrbAccounted, Step PROVE OrbAccounted'
<1>1. ASSUME NEW r \in Requests, NEW p \in Points, pc' = [pc EXCEPT ![r] = p],
             p \notin {"new", "done"}
      PROVE  OrbAccounted'
  BY <1>1 DEF Types, OrbAccounted
<1>2. ASSUME NEW r \in Requests, OnUserPrompt(r) \/ OnVoiceToggle(r)
      PROVE  OrbAccounted'
  BY <1>1, <1>2 DEF OnUserPrompt, OnVoiceToggle, Goto, Points
<1>3. CASE StartTask
  BY <1>1, <1>3, TaskStarts
<1>4. ASSUME NEW r \in Requests, Task(r) PROVE OrbAccounted'
  <2>1. PICK p \in Points : TaskMoves(r, p)
    BY <1>4, TasksMove
  <2>2. CASE p # "done"
    BY <1>1, <2>1, <2>2 DEF TaskMoves
  <2>3. CASE p = "done" /\ inbox' = inbox
    <3>1. \A s \in Signals : Append(inbox, s) # inbox
      BY AppendFacts DEF Types
    <3>2. \A sender \in Senders : inbox' # Append(inbox, Response(sender, r))
      BY <2>3, <3>1, SignalKinds
    <3>3. inbox' # Append(inbox, Show("idle")) /\ Answers \subseteq Senders
      BY <2>3, <3>1, SignalKinds DEF OrbStates, Answers, Senders
    <3> QED BY <2>1, <2>3, <3>2, <3>3 DEF TaskMoves, OrbAccounted
  <2>4. ASSUME NEW s \in Signals, inbox' = Append(inbox, s),
               "show" \in DOMAIN s => s.show = "idle"
        PROVE  OrbAccounted'
    <3>1. inbox' # <<>> /\ inbox'[Len(inbox')] = s
      BY <2>4, AppendFacts DEF Types
    <3>2. Final' = "idle"
      BY <2>4, <3>1 DEF Final
    <3> QED BY <3>2 DEF OrbAccounted
  <2>5. CASE p = "done" /\ inbox' # inbox
    <3>1. \/ inbox' = Append(inbox, Show("idle"))
          \/ \E sender \in Answers : inbox' = Append(inbox, Response(sender, r))
      BY <2>1, <2>5 DEF TaskMoves
    <3>2. Answers \subseteq Senders /\ "idle" \in OrbStates
      BY DEF Answers, Senders, OrbStates
    <3> QED BY <2>4, <3>1, <3>2, SignalKinds
  <2> QED BY <2>2, <2>3, <2>5
<1>5. CASE Deliver
  <2> DEFINE n == Len(inbox)
  <2>1. /\ n \in Nat \ {0} /\ Len(inbox') = n - 1
        /\ Head(inbox) = inbox[1] /\ inbox # <<>>
        /\ \A i \in 1 .. n - 1 : inbox'[i] = inbox[i + 1]
        /\ inbox' \in Seq(Signals)
    BY <1>5, TailFacts DEF Deliver, Types
  <2>2. Final' = Final
    <3>1. CASE n = 1
      <4>1. inbox' = <<>>
        BY <2>1, <3>1
      <4> QED BY <1>5, <2>1, <3>1, <4>1 DEF Final, Deliver
    <3>2. CASE n # 1
      <4> HIDE DEF n
      <4>1. n - 1 \in 1 .. n - 1 /\ (n - 1) + 1 = n
        BY <2>1, <3>2
      <4>2. inbox' # <<>> /\ inbox'[Len(inbox')] = inbox[n]
        BY <2>1, <3>2, <4>1
      <4> QED BY <2>1, <4>2 DEF Final, n
    <3> QED BY <3>1, <3>2
  <2> QED BY <1>5, <2>2 DEF Deliver, OrbAccounted
<1> QED BY <1>2, <1>3, <1>4, <1>5 DEF Step

(* Entries stay in their order at every step.                                *)
LEMMA PlacesKept ==
  ASSUME Types, Queued, NEW r \in Requests, Placed(r), Step PROVE Placed(r)'
<1>1. ASSUME NEW q \in Requests, OnUserPrompt(q) PROVE Placed(r)'
  BY <1>1, PromptKeeps DEF OnUserPrompt, Goto
<1>2. ASSUME NEW q \in Requests, OnVoiceToggle(q) PROVE Placed(r)'
  <2>1. /\ pc' = [pc EXCEPT ![q] = "queued"] /\ pc[q] = "new" /\ "queued" \in Points
        /\ \A X \in SUBSET Senders : Under(r, X)' = Under(r, X) /\ Shown(r, X)' = Shown(r, X)
    BY <1>2 DEF OnVoiceToggle, Goto, Points, Under, Shown
  <2>2. "new" \notin Heard /\ "queued" \notin Asked(q)
    BY <1>2 DEF OnVoiceToggle, Heard, Asked
  <2> QED BY <2>1, <2>2, SilentKeeps
<1>3. ASSUME NEW q \in Requests, Task(q) PROVE Placed(r)'
  BY <1>3, TaskKeeps
<1>4. CASE Deliver
  BY <1>4, DeliverKeeps
<1>5. CASE StartTask
  <2>1. PICK q \in Requests, p \in Points :
          /\ pc[q] = "queued" /\ pc' = [pc EXCEPT ![q] = p]
          /\ p = IF q \in Typed THEN "think" ELSE "record"
          /\ UNCHANGED <<inbox, chat>>
    BY <1>5, TaskStarts
  <2>2. \A X \in SUBSET Senders : Under(r, X)' = Under(r, X) /\ Shown(r, X)' = Shown(r, X)
    BY <2>1 DEF Under, Shown
  <2>3. /\ "queued" \notin Heard /\ p # "new"
        /\ p \in Asked(q) => pc[q] \in Asked(q)
    BY <2>1 DEF Heard, Asked
  <2> QED BY <2>1, <2>2, <2>3, SilentKeeps
<1> QED BY <1>1, <1>2, <1>3, <1>4, <1>5 DEF Step

-----------------------------------------------------------------------------
(* Odd and even numbers take turns.                                          *)
LEMMA Parity ==
  \A i \in Nat : i % 2 \in {0, 1} /\ (i + 1) % 2 = 1 - (i % 2)
OBVIOUS

(* What a full and a not yet full deque look like after an append.           *)
LEMMA RememberFacts ==
  ASSUME Types, NEW e \in Exchange, Remember(e)
  PROVE  \E n \in Nat :
           /\ Len(history) = n /\ n <= MaxHistory
           /\ history' # <<>> /\ history'[Len(history')] = e
           /\ IF n < MaxHistory
              THEN /\ Len(history') = n + 1
                   /\ \A i \in 1 .. n : history'[i] = history[i]
              ELSE /\ Len(history') = n /\ n # 0
                   /\ \A i \in 1 .. n - 1 : history'[i] = history[i + 1]
<1> DEFINE n == Len(history)
<1>1. n \in Nat /\ n <= MaxHistory
  BY DEF Types
<1>2. CASE n < MaxHistory
  <2>1. history' = Append(history, e)
    BY <1>2 DEF Remember
  <2>2. /\ history' # <<>> /\ Len(history') = n + 1 /\ history'[n + 1] = e
        /\ \A i \in 1 .. n : history'[i] = history[i]
    BY <2>1, AppendFacts DEF Types
  <2>3. history'[Len(history')] = e
    BY <2>2
  <2> HIDE DEF n
  <2> QED BY <1>1, <1>2, <2>2, <2>3 DEF n
<1>3. CASE ~(n < MaxHistory)
  <2>1. history' = Append(Tail(history), e) /\ history # <<>>
    BY <1>1, <1>3 DEF Remember, Types
  <2>2. /\ Tail(history) \in Seq(Exchange) /\ Len(Tail(history)) = n - 1 /\ n # 0
        /\ \A i \in 1 .. n - 1 : Tail(history)[i] = history[i + 1]
    BY <2>1, TailFacts DEF Types
  <2>3. /\ Len(history') = Len(Tail(history)) + 1 /\ history' # <<>>
        /\ history'[Len(Tail(history)) + 1] = e
        /\ \A i \in 1 .. Len(Tail(history)) : history'[i] = Tail(history)[i]
    BY <2>1, <2>2, AppendFacts
  <2>4. Len(history') = n /\ \A i \in 1 .. n - 1 : history'[i] = history[i + 1]
    BY <1>1, <2>2, <2>3
  <2>5. history'[Len(history')] = e
    BY <2>3
  <2> QED BY <1>1, <1>3, <2>2, <2>3, <2>4, <2>5
<1> QED BY <1>2, <1>3

(* A question after whole exchanges ...                                      *)
LEMMA QuestionSaved ==
  ASSUME Types, Whole, NEW r \in Requests, Remember([req |-> r, role |-> "user"])
  PROVE  Half(r)'
<1> DEFINE e == [req |-> r, role |-> "user"]
<1>1. e \in Exchange
  BY DEF Exchange
<1> HIDE DEF e
<1>2. PICK n \in Nat :
           /\ Len(history) = n /\ n <= MaxHistory
           /\ history' # <<>> /\ history'[Len(history')] = e
           /\ IF n < MaxHistory
              THEN /\ Len(history') = n + 1
                   /\ \A i \in 1 .. n : history'[i] = history[i]
              ELSE /\ Len(history') = n /\ n # 0
                   /\ \A i \in 1 .. n - 1 : history'[i] = history[i + 1]
  BY <1>1, RememberFacts DEF e
<1>3. /\ n % 2 = 0
      /\ \A i \in 1 .. n :
           IF i % 2 = 1 THEN Pair(i) ELSE history[i].role = "assistant"
  BY <1>2 DEF Whole
<1>4. CASE n < MaxHistory
  <2>1. Len(history') % 2 = 1 /\ Len(history') - 1 = n
    BY <1>2, <1>3, <1>4, Parity
  <2>2. ASSUME NEW i \in 1 .. n
        PROVE  IF i % 2 = 1 THEN Pair(i)' ELSE history'[i].role = "assistant"
    <3>1. i % 2 = 1 => i + 1 \in 1 .. n
      BY <1>3
    <3> QED BY <1>2, <1>3, <1>4, <3>1 DEF Pair
  <2> QED BY <1>2, <2>1, <2>2 DEF Half, e
<1>5. CASE ~(n < MaxHistory)
  <2>1. Len(history') = MaxHistory /\ MaxHistory = n /\ n \in Nat \ {0}
    BY <1>2, <1>5
  <2>2. ASSUME NEW i \in 1 .. n - 1
        PROVE  IF i % 2 = 0 THEN Pair(i)' ELSE history'[i].role = "assistant"
    <3>1. /\ i + 1 \in 1 .. n
          /\ i % 2 = 0 => (i + 1) % 2 = 1 /\ i + 1 \in 1 .. n - 1
          /\ i % 2 # 0 => (i + 1) % 2 # 1
      BY <1>3, Parity
    <3>2. history'[i] = history[i + 1]
      BY <1>2, <1>5
    <3>3. CASE i % 2 = 0
      <4>1. Pair(i + 1) /\ history'[i + 1] = history[(i + 1) + 1]
        BY <1>2, <1>3, <1>5, <3>1, <3>3
      <4> QED BY <3>2, <3>3, <4>1 DEF Pair
    <3>4. CASE i % 2 # 0
      BY <1>3, <3>1, <3>2, <3>4
    <3> QED BY <3>3, <3>4
  <2> QED BY <1>2, <2>1, <2>2 DEF Half, e
<1> QED BY <1>4, <1>5

(* ... and its reply make whole exchanges again.                             *)
LEMMA ReplySaved ==
  ASSUME Types, NEW r \in Requests, Half(r),
         Remember([req |-> r, role |-> "assistant"])
  PROVE  Whole'
<1> DEFINE e == [req |-> r, role |-> "assistant"]
<1>1. e \in Exchange
  BY DEF Exchange
<1> HIDE DEF e
<1>2. PICK n \in Nat :
           /\ Len(history) = n /\ n <= MaxHistory
           /\ history' # <<>> /\ history'[Len(history')] = e
           /\ IF n < MaxHistory
              THEN /\ Len(history') = n + 1
                   /\ \A i \in 1 .. n : history'[i] = history[i]
              ELSE /\ Len(history') = n /\ n # 0
                   /\ \A i \in 1 .. n - 1 : history'[i] = history[i + 1]
  BY <1>1, RememberFacts DEF e
<1>3. n # 0 /\ history[n] = [req |-> r, role |-> "user"]
  BY <1>2 DEF Half, Types
<1>4. PICK b \in {0, 1} :
        /\ IF b = 1 THEN n % 2 = 1 ELSE n = MaxHistory
        /\ \A i \in 1 .. n - 1 :
             IF i % 2 = b THEN Pair(i) ELSE history[i].role = "assistant"
  BY <1>2 DEF Half
<1>5. CASE n < MaxHistory
  <2>1. b = 1 /\ n % 2 = 1
    BY <1>4, <1>5
  <2>2. Len(history') % 2 = 0 /\ Len(history') = n + 1 /\ history'[n + 1] = e
    BY <1>2, <1>5, <2>1, Parity
  <2>3. ASSUME NEW i \in 1 .. n + 1
        PROVE  IF i % 2 = 1 THEN Pair(i)' ELSE history'[i].role = "assistant"
    <3>1. i = n + 1 \/ i = n \/ i \in 1 .. n - 1
      OBVIOUS
    <3>2. CASE i = n + 1
      <4>1. i % 2 = 0
        BY <2>1, <3>2, Parity
      <4> QED BY <2>2, <3>2, <4>1 DEF e
    <3>3. CASE i = n
      BY <1>2, <1>3, <1>5, <2>1, <2>2, <3>3 DEF Pair, e
    <3>4. CASE i \in 1 .. n - 1
      <4>1. history'[i] = history[i] /\ history'[i + 1] = history[i + 1]
        BY <1>2, <1>5, <3>4
      <4> QED BY <1>4, <2>1, <3>4, <4>1 DEF Pair
    <3> QED BY <3>1, <3>2, <3>3, <3>4
  <2> QED BY <2>2, <2>3 DEF Whole
<1>6. CASE ~(n < MaxHistory)
  <2>1. n = MaxHistory /\ n % 2 = 0 /\ b = 0
    BY <1>2, <1>4, <1>6
  <2>2. Len(history') = n /\ history'[n] = e
    BY <1>2, <1>6
  <2>3. ASSUME NEW i \in 1 .. n
        PROVE  IF i % 2 = 1 THEN Pair(i)' ELSE history'[i].role = "assistant"
    <3>1. CASE i = n
      BY <2>1, <2>2, <3>1 DEF e
    <3>2. CASE i # n
      <4>1. i \in 1 .. n - 1 /\ history'[i] = history[i + 1] /\ i + 1 \in 1 .. n
        BY <1>2, <1>6, <3>2
      <4>2. CASE i % 2 = 1 /\ i + 1 = n
        BY <1>3, <2>2, <4>1, <4>2 DEF Pair, e
      <4>3. CASE i % 2 = 1 /\ i + 1 # n
        <5>1. i + 1 \in 1 .. n - 1 /\ (i + 1) % 2 = 0
          BY <4>1, <4>3, Parity
        <5>2. Pair(i + 1) /\ history'[i + 1] = history[(i + 1) + 1]
          BY <1>2, <1>4, <1>6, <2>1, <5>1
        <5> QED BY <4>1, <4>3, <5>2 DEF Pair
      <4>4. CASE i % 2 # 1
        <5>1. (i + 1) % 2 = 1 /\ i + 1 # n
          BY <2>1, <4>4, Parity
        <5>2. i + 1 \in 1 .. n - 1
          BY <4>1, <5>1
        <5> QED BY <1>4, <2>1, <4>1, <4>4, <5>1, <5>2
      <4> QED BY <4>2, <4>3, <4>4
    <3> QED BY <3>1, <3>2
  <2> QED BY <2>1, <2>2, <2>3 DEF Whole
<1> QED BY <1>5, <1>6

(* Requests that save one after the other keep whole exchanges.              *)
LEMMA ExchangesKept == ASSUME IInv, Step PROVE Exchanges'
<1>1. Types /\ Queued /\ Exchanges
  BY DEF IInv
<1>2. ASSUME NEW r \in Requests, NEW p \in Points, pc' = [pc EXCEPT ![r] = p],
             pc[r] # "savereply", p # "savereply", UNCHANGED <<history, mixed>>
      PROVE  Exchanges'
  <2>1. \A q \in Requests : pc'[q] = "savereply" <=> pc[q] = "savereply"
    BY <1>1, <1>2 DEF Types
  <2> QED BY <1>1, <1>2, <2>1 DEF Exchanges, Saving, Whole, Half, Pair
<1>3. ASSUME NEW r \in Requests, SaveUser(r) PROVE Exchanges'
  <2>1. /\ pc' = [pc EXCEPT ![r] = "savereply"]
        /\ Remember([req |-> r, role |-> "user"])
        /\ mixed' <=> mixed \/ Saving
    BY <1>3 DEF SaveUser, Goto, Saving
  <2>2. CASE mixed \/ Saving
    BY <2>1, <2>2 DEF Exchanges
  <2>3. CASE ~mixed /\ ~Saving
    <3>1. Half(r)'
      BY <1>1, <2>1, <2>3, QuestionSaved DEF Exchanges
    <3>2. /\ pc'[r] = "savereply"
          /\ \A q \in Requests : pc'[q] = "savereply" => q = r
      BY <1>1, <2>1, <2>3 DEF Saving, Types
    <3> QED BY <3>1, <3>2 DEF Exchanges, Saving
  <2> QED BY <2>2, <2>3
<1>4. ASSUME NEW r \in Requests, SaveReply(r) PROVE Exchanges'
  <2>1. /\ pc[r] = "savereply" /\ pc' = [pc EXCEPT ![r] = "done"]
        /\ Remember([req |-> r, role |-> "assistant"])
        /\ mixed' = mixed
    BY <1>4 DEF SaveReply, Answer, Goto
  <2>2. CASE mixed
    BY <2>1, <2>2 DEF Exchanges
  <2>3. CASE ~mixed
    <3>1. Half(r) /\ \A q \in Requests : pc[q] = "savereply" => q = r
      BY <1>1, <2>1, <2>3 DEF Exchanges
    <3>2. Whole'
      BY <1>1, <2>1, <3>1, ReplySaved
    <3>3. \A q \in Requests : pc'[q] # "savereply"
      BY <1>1, <2>1, <3>1 DEF Types
    <3> QED BY <3>2, <3>3 DEF Exchanges
  <2> QED BY <2>2, <2>3
<1>5. ASSUME NEW r \in Requests, Task(r), ~SaveUser(r), ~SaveReply(r)
      PROVE  Exchanges'
  <2>1. PICK p \in Points : TaskMoves(r, p)
    BY <1>1, <1>5, TasksMove
  <2>2. UNCHANGED <<history, mixed>> /\ pc[r] \notin {"save", "savereply"}
    BY <1>5, OthersDoNotSave
  <2>3. pc' = [pc EXCEPT ![r] = p]
    BY <2>1 DEF TaskMoves
  <2>4. p # "savereply"
    <3>1. pc'[r] # "savereply"
      BY <1>1, <1>5, <2>2 DEF Types, Task, Works, Waits, Think, RecordingEnds, Transcribe,
                              BeginBuild, EndBuild, Chat, DialogEnds, ToolEnds, CallDone,
                              Dispatch, Answer, Goto
    <3> QED BY <1>1, <2>3, <3>1 DEF Types
  <2> QED BY <1>2, <2>2, <2>3, <2>4
<1>6. ASSUME NEW r \in Requests, OnUserPrompt(r) \/ OnVoiceToggle(r)
      PROVE  Exchanges'
  BY <1>2, <1>6 DEF OnUserPrompt, OnVoiceToggle, Goto, Points, brain
<1>7. CASE Deliver
  BY <1>1, <1>7 DEF Deliver, brain, Exchanges, Saving, Whole, Half, Pair
<1>8. CASE StartTask
  BY <1>1, <1>2, <1>8, TaskStarts
<1> QED BY <1>3, <1>4, <1>5, <1>6, <1>7, <1>8 DEF Step

-----------------------------------------------------------------------------
(* Nothing has been asked.                                                   *)
LEMMA InitIInv == Init => IInv
<1> SUFFICES ASSUME Init PROVE IInv
  OBVIOUS
<1>1. <<>> \in Seq(Requests) /\ <<>> \in Seq(Exchange) /\ <<>> \in Seq(Signals)
      /\ <<>> \in Seq(Senders \X Requests) /\ Len(<<>>) = 0 /\ DOMAIN <<>> = {}
  OBVIOUS
<1>2. Types
  BY <1>1 DEF Init, Types, Points, OrbStates
<1>3. Queued /\ OrbAccounted
  BY <1>1 DEF Init, Queued, OrbAccounted, Final
<1>4. Exchanges
  <2>1. Whole
    BY <1>1 DEF Init, Whole
  <2> QED BY <2>1 DEF Init, Exchanges
<1>5. ASSUME NEW r \in Requests PROVE Placed(r)
  <2>1. \A X : Under(r, X) = {} /\ Shown(r, X) = {}
    BY <1>1 DEF Init, Under, Shown
  <2>2. "new" \notin Asked(r)
    BY DEF Asked
  <2> QED BY <2>1, <2>2
          DEF Init, Placed, NotBefore, QuestionIn, AnswerUnderWay, AnswerShown
<1> QED BY <1>2, <1>3, <1>4, <1>5 DEF IInv

(* Every step keeps the invariant.                                           *)
LEMMA NextKeepsIInv == IInv /\ [Next]_vars => IInv'
<1> SUFFICES ASSUME IInv, [Next]_vars PROVE IInv'
  OBVIOUS
<1>1. CASE Step
  BY <1>1, TypesKept, QueueKept, OrbKept, ExchangesKept, PlacesKept DEF IInv
<1>2. CASE (\E r \in Requests : DialogAborts(r)) \/ UNCHANGED vars
  <2>1. /\ UNCHANGED <<pc, tasks, history, mixed, inbox, orb, chat, lost>>
        /\ Types /\ Queued /\ OrbAccounted /\ Exchanges
    BY <1>2 DEF vars, brain, window, DialogAborts, IInv
  <2>2. Types' /\ Queued' /\ OrbAccounted'
    BY <2>1 DEF Types, Queued, OrbAccounted, Final
  <2>3. Exchanges'
    BY <2>1 DEF Exchanges, Saving, Whole, Half, Pair
  <2>4. ASSUME NEW r \in Requests PROVE Placed(r)'
    <3>1. Placed(r)
      BY DEF IInv
    <3> QED BY <2>1, <3>1 DEF Placed, NotBefore, QuestionIn, AnswerUnderWay,
                              AnswerShown, Under, Shown
  <2> QED BY <2>2, <2>3, <2>4 DEF IInv
<1> QED BY <1>1, <1>2 DEF Next, While

(* Requests, signals, the chat view and the history stay in step             *)
(* (main_window.py, core/brain.py, core/pipeline.py).                        *)
THEOREM RequestsKeepTheirPlaces == Spec => []IInv
<1> QED BY InitIInv, NextKeepsIInv, PTL DEF Spec

(* When no request is in progress the orb is idle, however requests and      *)
(* signals overlapped, if no voice task raised.                              *)
THEOREM OrbComesToRest == Spec => []OrbIdleWhenQuiet
<1>1. IInv => OrbIdleWhenQuiet
  BY DEF IInv, OrbAccounted, Final, OrbIdleWhenQuiet, Quiet
<1> QED BY <1>1, RequestsKeepTheirPlaces, PTL

(* In the chat view an answer comes after its question, and is the last of   *)
(* its request.                                                              *)
THEOREM AnswersAreInOrder == Spec => []AnswerAfterQuestion
<1>1. IInv => AnswerAfterQuestion
  <2> SUFFICES ASSUME IInv, NEW i \in DOMAIN chat, chat[i][1] \in {"SON", "Error"}
               PROVE  /\ \E j \in 1 .. i - 1 : /\ chat[j][2] = chat[i][2]
                                                /\ chat[j][1] \in {"Dad", "You (Voice)"}
                      /\ \A j \in DOMAIN chat : chat[j][2] = chat[i][2] => j <= i
    BY DEF AnswerAfterQuestion
  <2> DEFINE r == chat[i][2]
  <2>1. /\ r \in Requests /\ \A j \in DOMAIN chat : j \in Nat \ {0} /\ chat[j][1] \in Senders
    BY DEF IInv, Types
  <2>2. AnswerShown(r) /\ i \in Shown(r, Answers)
    BY <2>1 DEF IInv, Placed, Shown, Answers
  <2>3. /\ \E j \in Shown(r, Questions) : j < i
        /\ \A j \in Shown(r, Senders) : j <= i
    BY <2>2 DEF AnswerShown
  <2>4. \A j \in DOMAIN chat : j < i => j \in 1 .. i - 1
    BY <2>1
  <2> QED BY <2>1, <2>3, <2>4 DEF Shown, Questions
<1> QED BY <1>1, RequestsKeepTheirPlaces, PTL

(* While requests save one after the other, the history the model is given   *)
(* is made of whole exchanges, also when the deque drops its oldest entries. *)
THEOREM HistoryIsWhole == Spec => []WholeExchanges
<1>1. IInv => WholeExchanges
  <2> SUFFICES ASSUME IInv, ~mixed, ~Saving, NEW i \in DOMAIN history
               PROVE  IF i % 2 = 1
                      THEN /\ history[i].role = "user"
                           /\ i < Len(history) /\ history[i + 1].req = history[i].req
                      ELSE history[i].role = "assistant"
    BY DEF WholeExchanges
  <2>1. Whole /\ Len(history) \in Nat /\ i \in 1 .. Len(history)
    BY DEF IInv, Exchanges, Types
  <2>2. i % 2 = 1 => i # Len(history)
    BY <2>1 DEF Whole
  <2>3. i % 2 = 1 => i < Len(history)
    BY <2>1, <2>2
  <2>4. IF i % 2 = 1 THEN Pair(i) ELSE history[i].role = "assistant"
    BY <2>1 DEF Whole
  <2>5. CASE i % 2 = 1
    BY <2>3, <2>4, <2>5 DEF Pair
  <2>6. CASE i % 2 # 1
    BY <2>4, <2>6
  <2> QED BY <2>5, <2>6
<1> QED BY <1>1, RequestsKeepTheirPlaces, PTL
=============================================================================
