---------------------------- MODULE NativeProofs ----------------------------
(* Proofs about the two pipes of the host: the calls on the extension port and *)
(* their answers, the artifacts that are transferred on it, and what the       *)
(* DevTools client reports of its calls.                                       *)
EXTENDS NativeMessaging, NativeArtifacts, CdpClient, InductionProofs

-----------------------------------------------------------------------------
(* Messages of one kind in a pipe.                                             *)

\* A message of this kind with this id is in the pipe, and no two are.
In(s, kind, r) == \E j \in 1..Len(s) : s[j].kind = kind /\ s[j].id = r
Once(s, kind) ==
    \A j, k \in 1..Len(s) :
        s[j].kind = kind /\ s[k].kind = kind /\ s[j].id = s[k].id => j = k

\* What one more message changes.
LEMMA PipeAppend ==
  ASSUME NEW S, NEW s \in Seq(S), NEW m \in S, NEW kind
  PROVE  /\ Append(s, m) \in Seq(S)
         /\ \A r : In(Append(s, m), kind, r) <=> In(s, kind, r) \/ (m.kind = kind /\ m.id = r)
         /\ Once(s, kind) /\ (m.kind = kind => ~In(s, kind, m.id)) => Once(Append(s, m), kind)
  <1> DEFINE t == Append(s, m)
  <1>1. /\ t \in Seq(S) /\ Len(s) \in Nat /\ Len(t) = Len(s) + 1 /\ t[Len(s) + 1] = m
        /\ \A j \in 1..Len(s) : t[j] = s[j]
    OBVIOUS
  <1> HIDE DEF t
  <1>2. \A j \in 1..Len(t) : j \in 1..Len(s) \/ j = Len(s) + 1
    BY <1>1
  <1>3. 1..Len(s) \subseteq 1..Len(t) /\ Len(s) + 1 \in 1..Len(t)
    BY <1>1
  <1>4. ASSUME NEW r PROVE In(t, kind, r) <=> In(s, kind, r) \/ (m.kind = kind /\ m.id = r)
    <2>1. In(t, kind, r) => In(s, kind, r) \/ (m.kind = kind /\ m.id = r)
      BY <1>1, <1>2 DEF In
    <2>2. In(s, kind, r) => In(t, kind, r)
      BY <1>1, <1>3 DEF In
    <2>3. m.kind = kind /\ m.id = r => In(t, kind, r)
      BY <1>1, <1>3 DEF In
    <2> QED
      BY <2>1, <2>2, <2>3
  <1>5. Once(s, kind) /\ (m.kind = kind => ~In(s, kind, m.id)) => Once(t, kind)
    BY <1>1, <1>2 DEF Once, In
  <1> QED
    BY <1>1, <1>4, <1>5 DEF t

\* What reading the first one changes.
LEMMA PipeTail ==
  ASSUME NEW S, NEW s \in Seq(S), s # <<>>, NEW kind, Once(s, kind)
  PROVE  /\ Tail(s) \in Seq(S) /\ Head(s) \in S
         /\ Once(Tail(s), kind)
         /\ Head(s).kind = kind => In(s, kind, Head(s).id) /\ ~In(Tail(s), kind, Head(s).id)
         /\ \A r : In(Tail(s), kind, r) => In(s, kind, r)
         /\ \A r : In(s, kind, r) /\ ~(Head(s).kind = kind /\ Head(s).id = r) => In(Tail(s), kind, r)
         /\ \A j \in 1..Len(Tail(s)) : \E i \in 1..Len(s) : Tail(s)[j] = s[i]
  <1> DEFINE t == Tail(s)
  <1>1. /\ t \in Seq(S) /\ Len(s) \in Nat \ {0} /\ Head(s) = s[1] /\ s[1] \in S
        /\ \A j \in 1..Len(t) : j + 1 \in 1..Len(s) /\ t[j] = s[j + 1]
        /\ \A j \in 1..Len(s) : j # 1 => j - 1 \in 1..Len(t) /\ s[j] = t[j - 1]
    OBVIOUS
  <1> HIDE DEF t
  <1>2. Once(t, kind)
    <2> SUFFICES ASSUME NEW j \in 1..Len(t), NEW k \in 1..Len(t),
                        t[j].kind = kind, t[k].kind = kind, t[j].id = t[k].id
                 PROVE  j = k
      BY DEF Once
    <2>0. /\ j + 1 \in 1..Len(s) /\ k + 1 \in 1..Len(s)
          /\ t[j] = s[j + 1] /\ t[k] = s[k + 1]
      BY <1>1
    <2>1. j + 1 = k + 1
      BY <2>0 DEF Once
    <2> QED
      BY <1>1, <2>1
  <1>3. ASSUME Head(s).kind = kind PROVE In(s, kind, Head(s).id) /\ ~In(t, kind, Head(s).id)
    <2>1. In(s, kind, Head(s).id)
      BY <1>1, <1>3 DEF In
    <2>2. ASSUME NEW j \in 1..Len(t), t[j].kind = kind, t[j].id = Head(s).id PROVE FALSE
      <3>1. j + 1 = 1
        BY <1>1, <1>3, <2>2 DEF Once
      <3> QED
        BY <1>1, <3>1
    <2> QED
      BY <2>1, <2>2 DEF In
  <1>4. \A r : In(t, kind, r) => In(s, kind, r)
    BY <1>1 DEF In
  <1>5. \A r : In(s, kind, r) /\ ~(Head(s).kind = kind /\ Head(s).id = r) => In(t, kind, r)
    BY <1>1 DEF In
  <1>6. \A j \in 1..Len(t) : \E i \in 1..Len(s) : t[j] = s[i]
    BY <1>1
  <1> QED
    BY <1>1, <1>2, <1>3, <1>4, <1>5, <1>6 DEF t

-----------------------------------------------------------------------------
(* The port: types.                                                            *)

Outgoing == [seq : Nat, kind : {"hello_ok", "request", "event"}, id : Requests \cup {0}]
Incoming ==
    [seq : Nat, kind : {"hello", "answer", "event", "inventory", "request", "malformed"},
     id : Nat, reply : Replies, cursor : Nat]

EndsType ==
    /\ session \in [hello : BOOLEAN, done : BOOLEAN, in : Nat, out : Nat, cursor : Nat]
    /\ ext \in [state : {"off", "handshaking", "connected", "down"}, next : Nat, out : Nat, sent : Nat]
PipesType == wire \in Seq(Outgoing) /\ back \in Seq(Incoming)
CallsType ==
    /\ caller \in [Requests -> {"idle", "posting", "waiting", "expired"} \cup Returned]
    /\ inbox \in [Requests -> {"empty", "closed"} \cup Replies]
    /\ pending \subseteq Requests
    /\ reader \in [id : Requests \cup {0}, reply : Replies]
    /\ todo \subseteq Requests
    /\ performed \in [Requests -> Nat]

\* The first message, if there is one, is one that was sent.
LEMMA MessageTyped ==
  ASSUME PipesType, back # <<>>
  PROVE  /\ Message \in Incoming /\ Tail(back) \in Seq(Incoming) /\ Message = back[1]
         /\ 1 \in 1..Len(back)
  BY DEF PipesType, Message

\* What a step does to the session, to the extension's end and to the pipes.
LEMMA SessionMoves ==
  ASSUME EndsType, PipesType, PortNext
  PROVE  EndsType'
  <1> USE DEF EndsType
  <1>1. UNCHANGED session => session' \in [hello : BOOLEAN, done : BOOLEAN, in : Nat, out : Nat, cursor : Nat]
    OBVIOUS
  <1>2. UNCHANGED ext => ext' \in [state : {"off", "handshaking", "connected", "down"},
                                   next : Nat, out : Nat, sent : Nat]
    OBVIOUS
  <1>3. CASE CompleteHandshake
    <2>1. session' = [session EXCEPT !.done = TRUE, !.out = session.out + 1] /\ UNCHANGED ext
      BY <1>3, Zenon DEF CompleteHandshake, extVars
    <2>2. PICK n \in Nat : n = session.out + 1
      OBVIOUS
    <2> QED
      BY <1>2, <2>1, <2>2
  <1>4. CASE SendEvent
    BY <1>2, <1>4 DEF SendEvent, extVars, Number
  <1>5. CASE Respond
    BY <1>2, <1>5 DEF Respond, extVars, Number
  <1>6. CASE WriteHelloOk \/ DrainEvents
    BY <1>1, <1>2, <1>6 DEF WriteHelloOk, DrainEvents, hostVars, extVars
  <1>7. ASSUME NEW r \in Requests, Post(r) \/ PostFails(r) PROVE EndsType'
    BY <1>2, <1>7 DEF Post, PostFails, extVars, Number
  <1>8. ASSUME NEW r \in Requests, Register(r) \/ Receive(r) \/ TimeOut(r) \/ RememberTimedOut(r)
        PROVE  EndsType'
    BY <1>1, <1>2, <1>8 DEF Register, Receive, TimeOut, RememberTimedOut, extVars
  <1>9. CASE ReaderStep
    <2>1. CASE ReadHello
      BY <1>2, <2>1 DEF ReadHello
    <2>2. CASE ReadAnswer \/ ReadLateAnswer \/ ReadRequest
      <3>1. session' = Counted /\ UNCHANGED ext
        BY <2>2 DEF ReadAnswer, ReadLateAnswer, ReadRequest
      <3> QED
        BY <1>2, <3>1 DEF Counted
    <2>3. CASE ReadEvent
      <3>1. session' = CursorMoved /\ UNCHANGED ext /\ Message.cursor \in Nat
        BY <2>3, MessageTyped DEF ReadEvent, Reads, Incoming
      <3>2. Counted \in [hello : BOOLEAN, done : BOOLEAN, in : Nat, out : Nat, cursor : Nat]
        BY DEF Counted
      <3> QED
        BY <1>2, <3>1, <3>2 DEF CursorMoved
    <2>4. CASE Deliver \/ ReadRefused \/ ReadEnd
      BY <1>1, <1>2, <2>4 DEF Deliver, ReadRefused, ReadEnd, extVars
    <2> QED
      BY <1>9, <2>1, <2>2, <2>3, <2>4 DEF ReaderStep
  <1>10. CASE ExtConnect \/ ExtReceive \/ ExtDown
    <2>1. /\ UNCHANGED session
          /\ \/ ext' = [ext EXCEPT !.state = "handshaking", !.out = 2]
             \/ ext' = [ext EXCEPT !.state = "connected", !.next = ext.next + 1]
             \/ ext' = [ext EXCEPT !.state = "down"]
      BY <1>10, Zenon DEF ExtConnect, ExtReceive, ExtDown, hostVars
    <2>2. PICK n \in Nat : n = ext.next + 1
      OBVIOUS
    <2>3. CASE ext' = [ext EXCEPT !.state = "handshaking", !.out = 2]
      BY <1>1, <2>1, <2>3
    <2>4. CASE ext' = [ext EXCEPT !.state = "connected", !.next = n]
      BY <1>1, <2>1, <2>4
    <2>5. CASE ext' = [ext EXCEPT !.state = "down"]
      BY <1>1, <2>1, <2>5
    <2> QED
      BY <2>1, <2>2, <2>3, <2>4, <2>5
  <1>11. ASSUME NEW r \in Requests, NEW reply \in Replies, ExtAnswer(r, reply) PROVE EndsType'
    BY <1>1, <1>11 DEF ExtAnswer, hostVars
  <1>12. ASSUME NEW kind, NEW cursor, ExtUnsolicited(kind, cursor) PROVE EndsType'
    <2>1. UNCHANGED session /\ ext' = [ext EXCEPT !.out = ext.out + 1, !.sent = ext.sent + 1]
      BY <1>12, Zenon DEF ExtUnsolicited, hostVars
    <2>2. PICK n \in Nat, m \in Nat : n = ext.out + 1 /\ m = ext.sent + 1
      OBVIOUS
    <2> QED
      BY <1>1, <2>1, <2>2
  <1> QED
    BY <1>3, <1>4, <1>5, <1>6, <1>7, <1>8, <1>9, <1>10, <1>11, <1>12 DEF PortNext, CallerStep

-----------------------------------------------------------------------------
(* The port: calls and their answers.                                          *)

Asked(r) == In(wire, "request", r)
Replied(r) == In(back, "answer", r)
Count(reply) == IF reply = "ok" THEN 1 ELSE 0

\* An entry of pending waits for an answer that nobody has taken yet.
PendingInv ==
    \A r \in Requests :
        /\ r \in pending => caller[r] \in {"posting", "waiting"} /\ inbox[r] = "empty" /\ reader.id # r
        /\ caller[r] = "idle" => inbox[r] = "empty" /\ reader.id # r

\* A request is in one place at a time on its way to the extension and back: on the
\* wire, with the extension, answered, taken by the reader, in its caller's channel.
Journey(r) ==
    /\ Asked(r) \/ r \in todo \/ caller[r] \in {"idle", "posting"} => performed[r] = 0
    /\ Asked(r) \/ r \in todo \/ Replied(r) \/ reader.id = r \/ inbox[r] \in Replies
           => caller[r] \notin {"idle", "posting"}
    /\ Asked(r) => r \notin todo
    /\ Asked(r) \/ r \in todo => ~Replied(r)
    /\ Asked(r) \/ r \in todo \/ Replied(r) => reader.id # r
    /\ Asked(r) \/ r \in todo \/ Replied(r) \/ reader.id = r => inbox[r] \notin Replies
    /\ reader.id = r => performed[r] = Count(reader.reply)
    /\ inbox[r] \in Replies => performed[r] = Count(inbox[r])
    /\ caller[r] \in Replies => inbox[r] = caller[r]
    /\ performed[r] \in {0, 1}

\* Every message is in its pipe once, is for a request of the host, and tells the truth.
PipesInv ==
    /\ Once(wire, "request") /\ Once(back, "answer")
    /\ \A j \in 1..Len(wire) : wire[j].kind = "request" => wire[j].id \in Requests
    /\ \A j \in 1..Len(back) :
           back[j].kind = "answer" =>
               back[j].id \in Requests /\ performed[back[j].id] = Count(back[j].reply)

JourneyInv == PipesInv /\ \A r \in Requests : Journey(r)

PortInv == EndsType /\ PipesType /\ CallsType /\ PendingInv /\ JourneyInv

\* Steps that put no request on the wire.
LEMMA WireQuiet ==
  ASSUME PipesType, PipesInv,
         \/ wire' = wire
         \/ wire' = <<>>
         \/ \E m \in Outgoing : m.kind # "request" /\ wire' = Append(wire, m)
  PROVE  /\ wire' \in Seq(Outgoing) /\ Once(wire', "request")
         /\ \A j \in 1..Len(wire') : wire'[j].kind = "request" => wire'[j].id \in Requests
         /\ \A r : Asked(r)' => Asked(r)
  <1>1. CASE wire' = wire
    BY <1>1 DEF PipesType, PipesInv, Asked
  <1>2. CASE wire' = <<>>
    BY <1>2 DEF Asked, In, Once
  <1>3. ASSUME NEW m \in Outgoing, m.kind # "request", wire' = Append(wire, m)
        PROVE  /\ wire' \in Seq(Outgoing) /\ Once(wire', "request")
               /\ \A j \in 1..Len(wire') : wire'[j].kind = "request" => wire'[j].id \in Requests
               /\ \A r : Asked(r)' => Asked(r)
    <2>1. /\ wire' \in Seq(Outgoing) /\ Once(wire', "request")
          /\ \A r : In(wire', "request", r) => In(wire, "request", r)
      BY <1>3, PipeAppend DEF PipesType, PipesInv
    <2>2. \A j \in 1..Len(wire') : (j \in 1..Len(wire) /\ wire'[j] = wire[j]) \/ wire'[j] = m
      BY <1>3 DEF PipesType
    <2> QED
      BY <1>3, <2>1, <2>2 DEF PipesInv, Asked
  <1> QED
    BY <1>1, <1>2, <1>3

\* Steps that put no answer on the way back.
LEMMA BackQuiet ==
  ASSUME PipesType, PipesInv, UNCHANGED performed,
         \/ back' = back
         \/ back # <<>> /\ back' = Tail(back)
         \/ \E m \in Incoming : m.kind # "answer" /\ back' = Append(back, m)
  PROVE  /\ back' \in Seq(Incoming) /\ Once(back', "answer")
         /\ \A j \in 1..Len(back') :
                back'[j].kind = "answer" =>
                    back'[j].id \in Requests /\ performed'[back'[j].id] = Count(back'[j].reply)
         /\ \A r : Replied(r)' => Replied(r)
  <1> DEFINE Goal ==
         /\ back' \in Seq(Incoming) /\ Once(back', "answer")
         /\ \A j \in 1..Len(back') :
                back'[j].kind = "answer" =>
                    back'[j].id \in Requests /\ performed'[back'[j].id] = Count(back'[j].reply)
         /\ \A r : Replied(r)' => Replied(r)
  <1>1. CASE back' = back
    BY <1>1 DEF PipesType, PipesInv, Replied
  <1>2. CASE back # <<>> /\ back' = Tail(back)
    <2>1. /\ back' \in Seq(Incoming) /\ Once(back', "answer")
          /\ \A r : In(back', "answer", r) => In(back, "answer", r)
          /\ \A j \in 1..Len(back') : \E i \in 1..Len(back) : back'[j] = back[i]
      <3>1. back \in Seq(Incoming) /\ back # <<>> /\ Once(back, "answer")
        BY <1>2 DEF PipesType, PipesInv
      <3>2. Tail(back) \in Seq(Incoming) /\ Once(Tail(back), "answer")
        BY <3>1, PipeTail
      <3>3. \A r : In(Tail(back), "answer", r) => In(back, "answer", r)
        BY <3>1, PipeTail
      <3>4. \A j \in 1..Len(Tail(back)) : \E i \in 1..Len(back) : Tail(back)[j] = back[i]
        BY <3>1, PipeTail
      <3> QED
        BY <1>2, <3>2, <3>3, <3>4, Zenon
    <2> QED
      BY <2>1 DEF PipesInv, Replied
  <1>3. ASSUME NEW m \in Incoming, m.kind # "answer", back' = Append(back, m) PROVE Goal
    <2>1. /\ back' \in Seq(Incoming) /\ Once(back', "answer")
          /\ \A r : In(back', "answer", r) => In(back, "answer", r)
      BY <1>3, PipeAppend DEF PipesType, PipesInv
    <2>2. \A j \in 1..Len(back') : (j \in 1..Len(back) /\ back'[j] = back[j]) \/ back'[j] = m
      BY <1>3 DEF PipesType
    <2> QED
      BY <1>3, <2>1, <2>2 DEF PipesInv, Replied
  <1> QED
    BY <1>1, <1>2, <1>3

\* Steps that move no request on: they may lose one.
LEMMA JourneyFrame ==
  ASSUME NEW r \in Requests, Journey(r),
         Asked(r)' => Asked(r), Replied(r)' => Replied(r), r \in todo' => r \in todo,
         UNCHANGED <<performed, reader>>,
         inbox'[r] \in Replies => inbox'[r] = inbox[r],
         caller'[r] \in {"idle", "posting"} => caller[r] \in {"idle", "posting"},
         caller'[r] \in Replies => inbox'[r] = caller'[r]
  PROVE  Journey(r)'
  BY DEF Journey, Replies

\* Steps of the writer, of the reader with messages that are for no caller, and of an
\* extension that does not answer.
LEMMA QuietPort ==
  ASSUME PortInv, UNCHANGED <<caller, inbox, pending, reader, performed>>, todo' \subseteq todo,
         EndsType',
         \/ wire' = wire
         \/ wire' = <<>>
         \/ \E m \in Outgoing : m.kind # "request" /\ wire' = Append(wire, m),
         \/ back' = back
         \/ back # <<>> /\ back' = Tail(back)
         \/ \E m \in Incoming : m.kind # "answer" /\ back' = Append(back, m)
  PROVE  PortInv'
  <1>1. /\ wire' \in Seq(Outgoing) /\ Once(wire', "request")
        /\ \A j \in 1..Len(wire') : wire'[j].kind = "request" => wire'[j].id \in Requests
        /\ \A r : Asked(r)' => Asked(r)
    BY WireQuiet DEF PortInv, JourneyInv
  <1>2. /\ back' \in Seq(Incoming) /\ Once(back', "answer")
        /\ \A j \in 1..Len(back') :
               back'[j].kind = "answer" =>
                   back'[j].id \in Requests /\ performed'[back'[j].id] = Count(back'[j].reply)
        /\ \A r : Replied(r)' => Replied(r)
    BY BackQuiet DEF PortInv, JourneyInv
  <1>3. PipesType' /\ PipesInv'
    BY <1>1, <1>2 DEF PipesType, PipesInv
  <1>4. CallsType' /\ PendingInv'
    BY DEF PortInv, CallsType, PendingInv
  <1>5. ASSUME NEW r \in Requests PROVE Journey(r)'
    <2>1. Journey(r) /\ (caller[r] \in Replies => inbox[r] = caller[r])
      BY DEF PortInv, JourneyInv, Journey
    <2> QED
      BY <1>1, <1>2, <2>1, JourneyFrame
  <1> QED
    BY <1>3, <1>4, <1>5 DEF PortInv, JourneyInv

\* Which steps those are.
LEMMA QuietSteps ==
  ASSUME PortInv, EndsType',
         \/ CompleteHandshake \/ WriteHelloOk \/ SendEvent \/ Respond \/ DrainEvents
         \/ ReadHello \/ ReadLateAnswer \/ ReadEvent \/ ReadRequest
         \/ ExtConnect \/ ExtDown
         \/ \E kind, cursor : /\ ExtUnsolicited(kind, cursor) /\ cursor \in 0..2
                              /\ kind \in {"event", "inventory", "request", "malformed"}
  PROVE  PortInv'
  <1>0. session.out \in Nat /\ ext.out \in Nat
    BY DEF PortInv, EndsType
  <1>1. CASE CompleteHandshake \/ DrainEvents
    BY <1>1, QuietPort DEF CompleteHandshake, DrainEvents, hostVars, extVars
  <1>2. CASE WriteHelloOk \/ SendEvent \/ Respond
    <2>1. /\ [seq |-> 1, kind |-> "hello_ok", id |-> 0] \in Outgoing
          /\ [seq |-> session.out, kind |-> "event", id |-> 0] \in Outgoing
      BY <1>0 DEF Outgoing
    <2>2. /\ wire' = wire \/ \E m \in Outgoing : m.kind # "request" /\ wire' = Append(wire, m)
          /\ UNCHANGED <<caller, inbox, pending, reader, performed, todo, back>>
      BY <1>2, <2>1 DEF WriteHelloOk, SendEvent, Respond, Written, extVars
    <2> QED
      BY <2>2, QuietPort
  <1>3. CASE ReadHello \/ ReadLateAnswer \/ ReadEvent \/ ReadRequest
    <2>1. /\ back # <<>> /\ back' = Tail(back)
          /\ UNCHANGED <<caller, inbox, pending, reader, performed, todo, wire>>
      BY <1>3 DEF ReadHello, ReadLateAnswer, ReadEvent, ReadRequest, Reads
    <2> QED
      BY <2>1, QuietPort
  <1>4. CASE ExtDown
    BY <1>4, QuietPort DEF ExtDown, hostVars
  <1>5. ASSUME NEW kind \in {"hello", "event", "inventory", "request", "malformed"}, NEW id \in Nat,
               NEW cursor \in Nat, ExtSend(kind, id, "ok", cursor),
               UNCHANGED <<hostVars, todo, performed, wire>>
        PROVE  PortInv'
    <2> DEFINE m == [seq |-> ext.out, kind |-> kind, id |-> id, reply |-> "ok", cursor |-> cursor]
    <2>1. m \in Incoming /\ m.kind # "answer" /\ back' = Append(back, m)
      BY <1>0, <1>5 DEF Incoming, ExtSend, Replies
    <2> HIDE DEF m
    <2> QED
      BY <1>5, <2>1, QuietPort DEF hostVars
  <1>6. CASE ExtConnect
    BY <1>5, <1>6 DEF ExtConnect
  <1>7. ASSUME NEW kind \in {"event", "inventory", "request", "malformed"}, NEW cursor \in 0..2,
               ExtUnsolicited(kind, cursor)
        PROVE  PortInv'
    <2>1. ExtSend(kind, 1, "ok", cursor) \/ ExtSend(kind, 0, "ok", cursor)
      BY <1>7 DEF ExtUnsolicited
    <2> QED
      BY <1>5, <1>7, <2>1 DEF ExtUnsolicited
  <1> QED
    BY <1>1, <1>2, <1>3, <1>4, <1>6, <1>7

\* A caller that registers, gives up or takes what its channel holds.
LEMMA CallerSteps ==
  ASSUME PortInv, EndsType', NEW r \in Requests,
         Register(r) \/ PostFails(r) \/ Receive(r) \/ TimeOut(r) \/ RememberTimedOut(r)
  PROVE  PortInv'
  <1>1. UNCHANGED <<inbox, reader, wire, back, todo, performed>>
    BY DEF Register, PostFails, Receive, TimeOut, RememberTimedOut, extVars
  <1>2. caller \in [Requests -> {"idle", "posting", "waiting", "expired"} \cup Returned]
        /\ pending \subseteq Requests
        /\ inbox \in [Requests -> {"empty", "closed"} \cup Replies]
    BY DEF PortInv, CallsType
  <1>3. /\ pending' \subseteq pending \cup {r}
        /\ \E c \in {"posting", "failed", "timeout", "expired", "unknown", "ok", "refused"} :
               /\ caller' = [caller EXCEPT ![r] = c]
               /\ c = "posting" => caller[r] = "idle"
               /\ c \in Replies => inbox[r] = c
               /\ r \in pending' /\ c # "posting" =>
                      r \in pending /\ (inbox[r] # "empty" \/ caller[r] \notin {"posting", "waiting"})
    BY <1>2 DEF Register, PostFails, Receive, TimeOut, RememberTimedOut, Replies
  <1>4. PICK c \in {"posting", "failed", "timeout", "expired", "unknown", "ok", "refused"} :
               /\ caller' = [caller EXCEPT ![r] = c]
               /\ c = "posting" => caller[r] = "idle"
               /\ c \in Replies => inbox[r] = c
               /\ r \in pending' /\ c # "posting" =>
                      r \in pending /\ (inbox[r] # "empty" \/ caller[r] \notin {"posting", "waiting"})
    BY <1>3
  <1>5. caller'[r] = c /\ \A q \in Requests : q # r => caller'[q] = caller[q]
    BY <1>2, <1>4
  <1>6. CallsType'
    BY <1>1, <1>2, <1>3, <1>4 DEF PortInv, CallsType, Returned, Replies
  <1>7. r \in pending' => c = "posting"
    BY <1>4 DEF PortInv, PendingInv
  <1>8. PendingInv'
    BY <1>1, <1>3, <1>4, <1>5, <1>7 DEF PortInv, PendingInv
  <1>9. PipesType' /\ PipesInv'
    BY <1>1 DEF PortInv, JourneyInv, PipesType, PipesInv
  <1>10. ASSUME NEW q \in Requests PROVE Journey(q)'
    <2>1. Journey(q) /\ (caller[q] \in Replies => inbox[q] = caller[q])
      BY DEF PortInv, JourneyInv, Journey
    <2>2. /\ caller'[q] \in {"idle", "posting"} => caller[q] \in {"idle", "posting"}
          /\ caller'[q] \in Replies => inbox[q] = caller'[q]
      BY <1>4, <1>5, <2>1 DEF Replies
    <2>3. (Asked(q)' <=> Asked(q)) /\ (Replied(q)' <=> Replied(q))
      BY <1>1 DEF Asked, Replied
    <2> QED
      BY <1>1, <2>1, <2>2, <2>3, JourneyFrame
  <1> QED
    BY <1>6, <1>8, <1>9, <1>10 DEF PortInv, JourneyInv

\* The end of the connection, for every caller that waits.
LEMMA CloseSteps ==
  ASSUME PortInv, EndsType', ReadRefused \/ ReadEnd PROVE PortInv'
  <1>1. /\ UNCHANGED <<caller, reader, wire, todo, performed>> /\ MarkClosed
        /\ back' = back \/ (back # <<>> /\ back' = Tail(back))
    BY DEF ReadRefused, ReadEnd, Reads, extVars
  <1>2. /\ \A q \in Requests : inbox'[q] = IF q \in pending THEN "closed" ELSE inbox[q]
        /\ inbox' \in [Requests -> {"empty", "closed"} \cup Replies]
        /\ pending' = {}
    BY <1>1 DEF MarkClosed, PortInv, CallsType
  <1>3. CallsType'
    BY <1>1, <1>2 DEF PortInv, CallsType
  <1>4. PendingInv'
    BY <1>1, <1>2 DEF PortInv, PendingInv
  <1>5. /\ back' \in Seq(Incoming) /\ Once(back', "answer")
        /\ \A j \in 1..Len(back') :
               back'[j].kind = "answer" =>
                   back'[j].id \in Requests /\ performed'[back'[j].id] = Count(back'[j].reply)
        /\ \A r : Replied(r)' => Replied(r)
    BY <1>1, BackQuiet DEF PortInv, JourneyInv
  <1>6. PipesType' /\ PipesInv'
    BY <1>1, <1>5 DEF PortInv, JourneyInv, PipesType, PipesInv
  <1>7. ASSUME NEW q \in Requests PROVE Journey(q)'
    <2>1. Journey(q) /\ (caller[q] \in Replies => inbox[q] = caller[q])
          /\ (caller[q] \in Replies => q \notin pending)
      BY DEF PortInv, PendingInv, JourneyInv, Journey, Replies
    <2>2. inbox'[q] \in Replies => inbox'[q] = inbox[q]
      BY <1>2 DEF Replies
    <2>3. caller'[q] \in Replies => inbox'[q] = caller'[q]
      BY <1>1, <1>2, <2>1
    <2>4. Asked(q)' <=> Asked(q)
      BY <1>1 DEF Asked
    <2> QED
      BY <1>1, <1>5, <2>1, <2>2, <2>3, <2>4, JourneyFrame
  <1> QED
    BY <1>3, <1>4, <1>6, <1>7 DEF PortInv, JourneyInv

\* A request goes on the wire once: its caller posts once.
LEMMA PostStep ==
  ASSUME PortInv, EndsType', NEW r \in Requests, Post(r) PROVE PortInv'
  <1>1. /\ caller[r] = "posting" /\ caller' = [caller EXCEPT ![r] = "waiting"]
        /\ UNCHANGED <<inbox, pending, reader, back, todo, performed>>
        /\ wire' = wire \/ wire' = Written("request", r)
    BY DEF Post, extVars
  <1>2. /\ CallsType' /\ caller'[r] = "waiting"
        /\ \A q \in Requests : q # r => caller'[q] = caller[q]
    BY <1>1 DEF PortInv, CallsType
  <1>3. PendingInv'
    BY <1>1, <1>2 DEF PortInv, PendingInv
  <1>4. /\ ~Asked(r) /\ r \notin todo /\ ~Replied(r) /\ reader.id # r /\ inbox[r] \notin Replies
        /\ performed[r] = 0
    BY <1>1 DEF PortInv, JourneyInv, Journey
  <1>5. /\ wire' \in Seq(Outgoing) /\ Once(wire', "request")
        /\ \A q : Asked(q)' => Asked(q) \/ q = r
        /\ \A j \in 1..Len(wire') : wire'[j].kind = "request" => wire'[j].id \in Requests
    <2>1. CASE wire' = wire
      BY <2>1 DEF PortInv, JourneyInv, PipesType, PipesInv, Asked
    <2>2. CASE wire' = Written("request", r)
      <3> DEFINE m == [seq |-> session.out, kind |-> "request", id |-> r]
      <3>1. m \in Outgoing /\ m.kind = "request" /\ m.id = r
        BY DEF PortInv, EndsType, Outgoing
      <3>2. wire' = Append(wire, m) /\ wire \in Seq(Outgoing)
        BY <2>2 DEF Written, PortInv, PipesType
      <3> HIDE DEF m
      <3>3. /\ wire' \in Seq(Outgoing) /\ Once(wire', "request")
            /\ \A q : In(wire', "request", q) <=> In(wire, "request", q) \/ q = r
        BY <1>4, <3>1, <3>2, PipeAppend DEF PortInv, JourneyInv, PipesInv, Asked
      <3>4. \A j \in 1..Len(wire') : (j \in 1..Len(wire) /\ wire'[j] = wire[j]) \/ wire'[j] = m
        BY <3>2
      <3> QED
        BY <3>1, <3>3, <3>4 DEF PortInv, JourneyInv, PipesInv, Asked
    <2> QED
      BY <1>1, <2>1, <2>2
  <1>6. PipesType' /\ PipesInv'
    BY <1>1, <1>5 DEF PortInv, JourneyInv, PipesType, PipesInv
  <1>7. Journey(r)'
    <2>1. ~Replied(r)'
      BY <1>1, <1>4 DEF Replied
    <2> QED
      BY <1>1, <1>2, <1>4, <2>1 DEF Journey, Replies
  <1>8. ASSUME NEW q \in Requests, q # r PROVE Journey(q)'
    <2>1. Journey(q) /\ (caller[q] \in Replies => inbox[q] = caller[q])
      BY DEF PortInv, JourneyInv, Journey
    <2>2. (Asked(q)' => Asked(q)) /\ (Replied(q)' <=> Replied(q))
      BY <1>1, <1>5, <1>8 DEF Replied
    <2> QED
      BY <1>1, <1>2, <1>8, <2>1, <2>2, JourneyFrame
  <1> QED
    BY <1>2, <1>3, <1>6, <1>7, <1>8 DEF PortInv, JourneyInv

\* The extension takes it off the wire.
LEMMA ExtReceiveStep ==
  ASSUME PortInv, EndsType', ExtReceive PROVE PortInv'
  <1>1. /\ wire # <<>> /\ wire' = Tail(wire)
        /\ UNCHANGED <<caller, inbox, pending, reader, back, performed>>
        /\ todo' = IF Head(wire).kind = "request" THEN todo \cup {Head(wire).id} ELSE todo
    BY DEF ExtReceive, hostVars
  <1>2. PICK h : h = Head(wire)
    OBVIOUS
  <1>3. /\ wire' \in Seq(Outgoing) /\ Once(wire', "request")
        /\ h.kind = "request" => In(wire, "request", h.id) /\ ~In(wire', "request", h.id)
        /\ \A q : In(wire', "request", q) => In(wire, "request", q)
        /\ \A j \in 1..Len(wire') : \E i \in 1..Len(wire) : wire'[j] = wire[i]
    BY <1>1, <1>2, PipeTail DEF PortInv, PipesType, JourneyInv, PipesInv
  <1>4. h.kind = "request" => h.id \in Requests
    <2>1. h = wire[1] /\ 1 \in 1..Len(wire)
      BY <1>1, <1>2 DEF PortInv, PipesType
    <2> QED
      BY <2>1 DEF PortInv, JourneyInv, PipesInv
  <1>5. CallsType' /\ PendingInv'
    BY <1>1, <1>2, <1>4 DEF PortInv, CallsType, PendingInv
  <1>6. PipesType' /\ PipesInv'
    BY <1>1, <1>3 DEF PortInv, JourneyInv, PipesType, PipesInv
  <1>7. ASSUME NEW q \in Requests PROVE Journey(q)'
    <2>1. Journey(q) /\ (Replied(q)' <=> Replied(q)) /\ (Asked(q)' => Asked(q))
      BY <1>1, <1>3 DEF PortInv, JourneyInv, Replied, Asked
    <2>2. CASE h.kind = "request" /\ h.id = q
      <3>1. Asked(q) /\ ~Asked(q)'
        BY <1>3, <2>2 DEF Asked
      <3> QED
        BY <1>1, <2>1, <3>1 DEF Journey
    <2>3. CASE ~(h.kind = "request" /\ h.id = q)
      <3>1. q \in todo' => q \in todo
        BY <1>1, <1>2, <2>3
      <3> QED
        BY <1>1, <2>1, <3>1 DEF Journey
    <2> QED
      BY <2>2, <2>3
  <1> QED
    BY <1>5, <1>6, <1>7 DEF PortInv, JourneyInv

\* It performs what it has once, and answers what it did.
LEMMA ExtAnswerStep ==
  ASSUME PortInv, EndsType', NEW r \in Requests, NEW reply \in Replies, ExtAnswer(r, reply)
  PROVE  PortInv'
  <1> DEFINE m == [seq |-> ext.out, kind |-> "answer", id |-> r, reply |-> reply, cursor |-> 0]
  <1>1. /\ r \in todo /\ todo' = todo \ {r} /\ back' = Append(back, m)
        /\ UNCHANGED <<caller, inbox, pending, reader, wire>>
        /\ performed' = IF reply = "ok" THEN [performed EXCEPT ![r] = @ + 1] ELSE performed
    BY DEF ExtAnswer, ExtSend, hostVars
  <1>2. m \in Incoming /\ m.kind = "answer" /\ m.id = r /\ m.reply = reply
    BY NativeAssumption DEF Incoming, PortInv, EndsType
  <1> HIDE DEF m
  <1>3. /\ ~Asked(r) /\ ~Replied(r) /\ reader.id # r /\ inbox[r] \notin Replies
        /\ performed[r] = 0 /\ caller[r] \notin {"idle", "posting"} /\ caller[r] \notin Replies
    BY <1>1 DEF PortInv, JourneyInv, Journey
  <1>4. /\ performed' \in [Requests -> Nat] /\ performed'[r] = Count(reply)
        /\ \A q \in Requests : q # r => performed'[q] = performed[q]
    BY <1>1, <1>3 DEF PortInv, CallsType, Count
  <1>5. /\ back' \in Seq(Incoming) /\ Once(back', "answer")
        /\ \A q : In(back', "answer", q) <=> In(back, "answer", q) \/ q = r
    BY <1>1, <1>2, <1>3, PipeAppend DEF PortInv, PipesType, JourneyInv, PipesInv, Replied
  <1>6. \A j \in 1..Len(back') :
           back'[j].kind = "answer" =>
               back'[j].id \in Requests /\ performed'[back'[j].id] = Count(back'[j].reply)
    <2>1. \A j \in 1..Len(back') : (j \in 1..Len(back) /\ back'[j] = back[j]) \/ back'[j] = m
      BY <1>1 DEF PortInv, PipesType
    <2>2. \A j \in 1..Len(back) : back[j].kind = "answer" => back[j].id # r
      BY <1>3 DEF Replied, In
    <2> QED
      BY <1>2, <1>4, <2>1, <2>2 DEF PortInv, JourneyInv, PipesInv
  <1>7. PipesType' /\ PipesInv'
    BY <1>1, <1>5, <1>6 DEF PortInv, JourneyInv, PipesType, PipesInv
  <1>8. CallsType' /\ PendingInv'
    BY <1>1, <1>4 DEF PortInv, CallsType, PendingInv
  <1>9. Journey(r)'
    <2>1. ~Asked(r)' /\ performed'[r] \in {0, 1}
      BY <1>1, <1>3, <1>4 DEF Asked, Count
    <2> QED
      BY <1>1, <1>3, <1>4, <2>1 DEF Journey
  <1>10. ASSUME NEW q \in Requests, q # r PROVE Journey(q)'
    <2>1. Journey(q) /\ (Replied(q)' <=> Replied(q)) /\ (Asked(q)' <=> Asked(q))
      BY <1>1, <1>5, <1>10 DEF PortInv, JourneyInv, Replied, Asked
    <2>2. (q \in todo' <=> q \in todo) /\ performed'[q] = performed[q]
      BY <1>1, <1>4, <1>10
    <2> QED
      BY <1>1, <2>1, <2>2 DEF Journey
  <1> QED
    BY <1>7, <1>8, <1>9, <1>10 DEF PortInv, JourneyInv

\* The reader takes the answer for the caller that waits for it.
LEMMA ReadAnswerStep ==
  ASSUME PortInv, EndsType', ReadAnswer PROVE PortInv'
  <1>1. PICK h : h = Message
    OBVIOUS
  <1>2. /\ back # <<>> /\ back' = Tail(back) /\ reader = NoDelivery
        /\ h.kind = "answer" /\ h.id \in pending /\ pending' = pending \ {h.id}
        /\ reader' = [id |-> h.id, reply |-> h.reply]
        /\ UNCHANGED <<caller, inbox, wire, todo, performed>>
    BY <1>1 DEF ReadAnswer, Reads
  <1>3. h = Head(back) /\ h = back[1] /\ 1 \in 1..Len(back) /\ h \in Incoming
    BY <1>1, <1>2, MessageTyped DEF PortInv, Message
  <1>4. h.id \in Requests /\ performed[h.id] = Count(h.reply)
    BY <1>2, <1>3 DEF PortInv, JourneyInv, PipesInv
  <1>5. /\ back' \in Seq(Incoming) /\ Once(back', "answer")
        /\ In(back, "answer", h.id) /\ ~In(back', "answer", h.id)
        /\ \A q : In(back', "answer", q) => In(back, "answer", q)
        /\ \A j \in 1..Len(back') : \E i \in 1..Len(back) : back'[j] = back[i]
    BY <1>2, <1>3, PipeTail DEF PortInv, PipesType, JourneyInv, PipesInv
  <1>6. reader' \in [id : Requests \cup {0}, reply : Replies] /\ reader'.id = h.id
        /\ reader'.reply = h.reply
    BY <1>2, <1>3, <1>4 DEF Incoming
  <1>7. CallsType'
    BY <1>2, <1>6 DEF PortInv, CallsType
  <1>8. PendingInv'
    BY <1>2, <1>4, <1>6 DEF PortInv, PendingInv
  <1>9. PipesType' /\ PipesInv'
    BY <1>2, <1>5 DEF PortInv, JourneyInv, PipesType, PipesInv
  <1>10. ASSUME NEW q \in Requests PROVE Journey(q)'
    <2>1. Journey(q) /\ (Replied(q)' => Replied(q)) /\ (Asked(q)' <=> Asked(q))
      BY <1>2, <1>5 DEF PortInv, JourneyInv, Replied, Asked
    <2>2. CASE q = h.id
      <3>1. Replied(q) /\ ~Replied(q)'
        BY <1>5, <2>2 DEF Replied
      <3> QED
        BY <1>2, <1>4, <1>6, <2>1, <2>2, <3>1 DEF Journey
    <2>3. CASE q # h.id
      BY <1>2, <1>6, <2>1, <2>3 DEF Journey
    <2> QED
      BY <2>2, <2>3
  <1> QED
    BY <1>7, <1>8, <1>9, <1>10 DEF PortInv, JourneyInv

\* And puts it into the caller's channel.
LEMMA DeliverStep ==
  ASSUME PortInv, EndsType', Deliver PROVE PortInv'
  <1>1. /\ reader # NoDelivery /\ inbox' = [inbox EXCEPT ![reader.id] = reader.reply]
        /\ reader' = NoDelivery
        /\ UNCHANGED <<caller, pending, wire, back, todo, performed>>
    BY DEF Deliver, extVars
  <1>2. reader \in [id : Requests \cup {0}, reply : Replies] /\ 0 \notin Requests
    BY NativeAssumption DEF PortInv, CallsType
  <1>3. /\ reader'.id = 0 /\ NoDelivery \in [id : Requests \cup {0}, reply : Replies]
    BY <1>1 DEF NoDelivery, Replies
  <1>4. inbox' \in [Requests -> {"empty", "closed"} \cup Replies]
        /\ \A q \in Requests : inbox'[q] = IF q = reader.id THEN reader.reply ELSE inbox[q]
    BY <1>1, <1>2 DEF PortInv, CallsType
  <1>5. CallsType'
    BY <1>1, <1>3, <1>4 DEF PortInv, CallsType
  <1>6. PendingInv'
    BY <1>1, <1>2, <1>3, <1>4 DEF PortInv, PendingInv
  <1>7. PipesType' /\ PipesInv'
    BY <1>1 DEF PortInv, JourneyInv, PipesType, PipesInv
  <1>8. ASSUME NEW q \in Requests PROVE Journey(q)'
    <2>1. Journey(q) /\ (Replied(q)' <=> Replied(q)) /\ (Asked(q)' <=> Asked(q))
      BY <1>1 DEF PortInv, JourneyInv, Replied, Asked
    <2>2. CASE q = reader.id
      BY <1>1, <1>2, <1>3, <1>4, <2>1, <2>2 DEF Journey
    <2>3. CASE q # reader.id
      BY <1>1, <1>2, <1>3, <1>4, <2>1, <2>3 DEF Journey
    <2> QED
      BY <2>2, <2>3
  <1> QED
    BY <1>5, <1>6, <1>7, <1>8 DEF PortInv, JourneyInv

\* The invariant of the calls holds in every reachable state.
THEOREM PortSafety == PortSpec => []PortInv
  <1>1. PortInit => PortInv
    <2> SUFFICES ASSUME PortInit PROVE PortInv
      OBVIOUS
    <2>1. EndsType /\ PipesType
      BY DEF PortInit, EndsType, PipesType
    <2>2. CallsType
      BY DEF PortInit, CallsType, NoDelivery, Replies
    <2>3. PendingInv
      BY NativeAssumption DEF PortInit, PendingInv, NoDelivery
    <2>4. PipesInv /\ \A r \in Requests : ~Asked(r) /\ ~Replied(r)
      BY DEF PortInit, PipesInv, Once, Asked, Replied, In
    <2>5. \A r \in Requests : Journey(r)
      BY <2>4, NativeAssumption DEF PortInit, Journey, NoDelivery, Replies
    <2> QED
      BY <2>1, <2>2, <2>3, <2>4, <2>5 DEF PortInv, JourneyInv
  <1>2. PortInv /\ [PortNext]_portVars => PortInv'
    <2> SUFFICES ASSUME PortInv, [PortNext]_portVars PROVE PortInv'
      OBVIOUS
    <2>1. CASE UNCHANGED portVars
      <3>1. UNCHANGED <<session, ext, wire, back, caller, inbox, pending, reader, todo, performed>>
        BY <2>1 DEF portVars, hostVars, extVars
      <3>2. EndsType' /\ PipesType' /\ CallsType' /\ PendingInv'
        BY <3>1 DEF PortInv, EndsType, PipesType, CallsType, PendingInv
      <3>3. JourneyInv'
        BY <3>1 DEF PortInv, JourneyInv, PipesInv, Journey, Asked, Replied
      <3> QED
        BY <3>2, <3>3 DEF PortInv
    <2>2. CASE PortNext
      <3>1. EndsType'
        BY <2>2, SessionMoves DEF PortInv
      <3>2. ASSUME NEW r \in Requests, CallerStep(r) PROVE PortInv'
        BY <3>1, <3>2, CallerSteps, PostStep DEF CallerStep
      <3>3. CASE ReaderStep
        BY <3>1, <3>3, QuietSteps, ReadAnswerStep, DeliverStep, CloseSteps DEF ReaderStep
      <3>4. ASSUME NEW kind, NEW cursor, ExtUnsolicited(kind, cursor),
                   \/ kind = "event" /\ cursor \in 1..2
                   \/ kind \in {"inventory", "request", "malformed"} /\ cursor = 0
            PROVE  PortInv'
        BY <3>1, <3>4, QuietSteps
      <3> QED
        BY <2>2, <3>1, <3>2, <3>3, <3>4, QuietSteps, ExtReceiveStep, ExtAnswerStep DEF PortNext
    <2> QED
      BY <2>1, <2>2
  <1> QED
    BY <1>1, <1>2, PTL DEF PortSpec

\* Requests that ended, in whatever way and order, do not use up the bound on requests in
\* flight, for any number of callers and any bounds.
THEOREM PendingRequestsHaveCallers == PortSpec => []PendingHasCaller
  <1>1. PortInv => PendingHasCaller
    BY DEF PortInv, PendingInv, CallsType, PendingHasCaller
  <1> QED
    BY <1>1, PortSafety, PTL

\* A caller that is told that its request was carried out, or refused, is told the truth,
\* and no request is carried out twice.
THEOREM AnswersAreTrue == PortSpec => []AnswerMeansPerformed
  <1>1. PortInv => AnswerMeansPerformed
    <2> SUFFICES ASSUME PortInv, NEW r \in Requests
                 PROVE  /\ performed[r] <= 1
                        /\ caller[r] = "ok" => performed[r] = 1
                        /\ caller[r] = "refused" => performed[r] = 0
      BY DEF AnswerMeansPerformed
    <2> QED
      BY DEF PortInv, JourneyInv, Journey, Count, Replies
  <1> QED
    BY <1>1, PortSafety, PTL

-----------------------------------------------------------------------------
(* The port: the queue of events.                                              *)

EventInv == events \in Seq({"event", "inventory", "gap"}) /\ EventLossVisible

\* A reader of the event queue is told when events were lost, for any size of the queue.
THEOREM EventLossIsVisible == PortSpec => []EventLossVisible
  <1>1. PortInit => EventInv
    BY DEF PortInit, EventInv, EventLossVisible
  <1>2. EventInv /\ [PortNext]_portVars => EventInv'
    <2> SUFFICES ASSUME EventInv, [PortNext]_portVars PROVE EventInv'
      OBVIOUS
    <2>1. CASE UNCHANGED <<events, dropped>>
      BY <2>1 DEF EventInv, EventLossVisible
    <2>2. CASE DrainEvents
      BY <2>2 DEF DrainEvents, EventInv, EventLossVisible
    <2>3. CASE ReadEvent
      <3>1. PICK k \in {"event", "inventory"} : Enqueued(k)
        BY <2>3 DEF ReadEvent
      <3>2. CASE Len(events) >= MaxEvents
        <4>1. events' = <<"gap">>
          BY <3>1, <3>2 DEF Enqueued
        <4>2. 1 \in DOMAIN events' /\ events'[1] = "gap"
          BY <4>1
        <4> QED
          BY <4>1, <4>2 DEF EventInv, EventLossVisible
      <3>3. CASE ~(Len(events) >= MaxEvents)
        <4>1. events' = Append(events, k) /\ (dropped' => dropped)
          BY <3>1, <3>3 DEF Enqueued
        <4>2. \A i \in DOMAIN events : i \in DOMAIN events' /\ events'[i] = events[i]
          BY <4>1 DEF EventInv
        <4> QED
          BY <4>1, <4>2 DEF EventInv, EventLossVisible
      <3> QED
        BY <3>2, <3>3
    <2>4. ASSUME NEW r \in Requests, CallerStep(r) PROVE UNCHANGED <<events, dropped>>
      BY <2>4 DEF CallerStep, Register, Post, PostFails, Receive, TimeOut, RememberTimedOut, queueVars
    <2>5. ASSUME ReaderStep, ~ReadEvent PROVE UNCHANGED <<events, dropped>>
      BY <2>5 DEF ReaderStep, ReadHello, ReadAnswer, Deliver, ReadLateAnswer, ReadRequest,
                  ReadRefused, ReadEnd, queueVars
    <2>6. ASSUME CompleteHandshake \/ WriteHelloOk \/ SendEvent \/ Respond
          PROVE  UNCHANGED <<events, dropped>>
      BY <2>6 DEF CompleteHandshake, WriteHelloOk, SendEvent, Respond, queueVars
    <2>7. ASSUME \/ ExtConnect \/ ExtReceive \/ ExtDown
                 \/ \E r \in Requests, reply \in Replies : ExtAnswer(r, reply)
                 \/ \E kind, cursor : ExtUnsolicited(kind, cursor)
          PROVE  UNCHANGED <<events, dropped>>
      BY <2>7 DEF ExtConnect, ExtReceive, ExtDown, ExtAnswer, ExtUnsolicited, queueVars
    <2>8. UNCHANGED portVars => UNCHANGED <<events, dropped>>
      BY DEF portVars, queueVars
    <2> QED
      BY <2>1, <2>2, <2>3, <2>4, <2>5, <2>6, <2>7, <2>8 DEF PortNext
  <1>3. EventInv => EventLossVisible
    BY DEF EventInv
  <1> QED
    BY <1>1, <1>2, <1>3, PTL DEF PortSpec

-----------------------------------------------------------------------------
(* Artifacts.                                                                  *)

Transfers == [begin : Envelopes, got : Seq(Chunks)]

\* A buffer is what a begin declared and the chunks since; what is complete passed
\* EndValid; a handle is about the request of its action.
ArtifactInv ==
    /\ \A a \in DOMAIN inbound : inbound[a] \in Transfers
    /\ \A a \in DOMAIN completed : completed[a] \in Transfers
    /\ CompletedWhole
    /\ \A x \in DOMAIN byAction : byAction[x].begin.for = x
    /\ DeliveredToOwner

\* A whole transfer, as CompletedWhole says of each one.
Whole(t) ==
    /\ [i \in DOMAIN t.got |-> t.got[i].seq] = [i \in 1..t.begin.count |-> i - 1]
    /\ Bytes(t.got) = t.begin.total
    /\ \A i \in DOMAIN t.got : t.got[i].good

\* The checks of handle_native_artifact_end are enough: the counts of
\* ArtifactTransferProgress and the digest leave no room for a hole or a copy.
LEMMA EndMeansWhole ==
    ASSUME NEW t \in Transfers, NEW d, EndValid(t, d)
    PROVE  Whole(t)
  <1>1. /\ t.got \in Seq(Chunks) /\ d = t.begin /\ Len(t.got) = d.count
        /\ Bytes(t.got) = t.begin.total
        /\ \A i \in DOMAIN t.got : t.got[i].good /\ t.got[i].seq = i - 1
    BY DEF EndValid, Transfers
  <1>2. DOMAIN t.got = 1..t.begin.count
    BY <1>1
  <1>3. [i \in DOMAIN t.got |-> t.got[i].seq] = [i \in 1..t.begin.count |-> i - 1]
    BY <1>1, <1>2
  <1> QED
    BY <1>1, <1>3 DEF Whole

\* Steps that leave the completed artifacts and their handles alone.
LEMMA BuffersOnly ==
    ASSUME ArtifactInv, UNCHANGED <<completed, byAction, taken>>,
           \A a \in DOMAIN inbound' : inbound'[a] \in Transfers
    PROVE  ArtifactInv'
  BY DEF ArtifactInv, CompletedWhole, DeliveredToOwner

\* Taking an artifact leaves the others as they are.
LEMMA TakenAway ==
    ASSUME ArtifactInv, NEW a, completed' = Without(completed, a), UNCHANGED inbound,
           byAction' = byAction \/ \E x : byAction' = Without(byAction, x),
           DeliveredToOwner'
    PROVE  ArtifactInv'
  <1>1. /\ \A b \in DOMAIN completed' : b \in DOMAIN completed /\ completed'[b] = completed[b]
    BY DEF Without
  <1>2. /\ \A x \in DOMAIN byAction' : x \in DOMAIN byAction /\ byAction'[x] = byAction[x]
    BY DEF Without
  <1>3. \A b \in DOMAIN completed' : Whole(completed'[b])
    BY <1>1 DEF ArtifactInv, CompletedWhole, Whole
  <1>4. CompletedWhole'
    BY <1>3 DEF CompletedWhole, Whole
  <1> QED
    BY <1>1, <1>2, <1>4 DEF ArtifactInv

\* Every step of the extension or the host on an artifact keeps the invariant.
LEMMA ArtifactStep == ArtifactInv /\ [InboundNext \/ OutboundNext]_artifactVars => ArtifactInv'
  <1> SUFFICES ASSUME ArtifactInv, [InboundNext \/ OutboundNext]_artifactVars PROVE ArtifactInv'
    OBVIOUS
  <1>1. CASE UNCHANGED <<inbound, completed, byAction, taken>>
    BY <1>1, BuffersOnly DEF ArtifactInv
  <1>2. ASSUME NEW a \in Artifacts, NEW d \in Envelopes, ReceiveBegin(a, d) PROVE ArtifactInv'
    <2> DEFINE t == [begin |-> d, got |-> <<>>]
    <2>1. t \in Transfers
      BY DEF Transfers
    <2>2. inbound' = With(inbound, a, t) /\ UNCHANGED <<completed, byAction, taken>>
      BY <1>2 DEF ReceiveBegin
    <2> HIDE DEF t
    <2> QED
      BY <2>1, <2>2, BuffersOnly DEF ArtifactInv, With
  <1>3. ASSUME NEW a \in Artifacts, NEW c \in Chunks, ReceiveChunk(a, c) PROVE ArtifactInv'
    <2>1. /\ a \in DOMAIN inbound /\ UNCHANGED <<completed, byAction, taken>>
          /\ inbound' = [inbound EXCEPT ![a].got = Append(@, c)]
      BY <1>3 DEF ReceiveChunk, ChunkAccepted, Open
    <2>2. inbound[a] \in Transfers
      BY <2>1 DEF ArtifactInv
    <2>3. [inbound[a] EXCEPT !.got = Append(@, c)] \in Transfers
      BY <2>2 DEF Transfers
    <2>4. inbound' = [inbound EXCEPT ![a] = [inbound[a] EXCEPT !.got = Append(@, c)]]
      BY <2>1, Zenon
    <2>5. \A b \in DOMAIN inbound' : inbound'[b] \in Transfers
      BY <2>3, <2>4 DEF ArtifactInv
    <2> QED
      BY <2>1, <2>5, BuffersOnly
  <1>4. ASSUME NEW a \in Artifacts, NEW d \in Envelopes, ReceiveEnd(a, d) PROVE ArtifactInv'
    <2>1. /\ a \in DOMAIN inbound /\ inbound' = Without(inbound, a) /\ UNCHANGED <<byAction, taken>>
          /\ \/ completed' = completed
             \/ EndValid(inbound[a], d) /\ completed' = With(completed, a, inbound[a])
      BY <1>4 DEF ReceiveEnd, Open
    <2>2. \A b \in DOMAIN inbound' : inbound'[b] \in Transfers
      BY <2>1 DEF ArtifactInv, Without
    <2>3. CASE completed' = completed
      BY <2>1, <2>2, <2>3, BuffersOnly
    <2>4. CASE EndValid(inbound[a], d) /\ completed' = With(completed, a, inbound[a])
      <3>1. inbound[a] \in Transfers /\ Whole(inbound[a])
        BY <2>1, <2>4, EndMeansWhole DEF ArtifactInv
      <3>2. \A b \in DOMAIN completed : completed[b] \in Transfers /\ Whole(completed[b])
        BY DEF ArtifactInv, CompletedWhole, Whole
      <3>3. \A b \in DOMAIN completed' : completed'[b] \in Transfers /\ Whole(completed'[b])
        BY <2>4, <3>1, <3>2 DEF With
      <3>4. CompletedWhole'
        BY <3>3 DEF CompletedWhole, Whole
      <3> QED
        BY <2>1, <2>2, <3>3, <3>4 DEF ArtifactInv, DeliveredToOwner
    <2> QED
      BY <2>1, <2>3, <2>4
  <1>5. ASSUME NEW a \in Artifacts, NEW x \in Actions, Retain(x, a) PROVE ArtifactInv'
    <2> DEFINE h == [id |-> a, begin |-> [completed[a].begin EXCEPT !.for = x]]
    <2>1. /\ a \in DOMAIN completed /\ byAction' = With(byAction, x, h)
          /\ UNCHANGED <<inbound, completed, taken>>
      BY <1>5 DEF Retain, inboundVars
    <2>2. completed[a].begin \in [total : Nat, size : Nat, count : Nat, for : Actions \cup {NoAction}]
      BY <2>1, ArtifactAssumption DEF ArtifactInv, Transfers
    <2>3. h.begin.for = x
      BY <2>2
    <2> HIDE DEF h
    <2>4. \A y \in DOMAIN byAction' : byAction'[y].begin.for = y
      BY <2>1, <2>3 DEF ArtifactInv, With
    <2> QED
      BY <2>1, <2>4 DEF ArtifactInv, CompletedWhole, DeliveredToOwner
  <1>6. ASSUME NEW x \in Actions, TakeArtifact(x) PROVE ArtifactInv'
    <2>1. PICK i : /\ i = byAction[x].id
                   /\ completed[i].begin = byAction[x].begin
                   /\ x \in DOMAIN byAction
                   /\ taken' = taken \cup {[by |-> x, for |-> completed[i].begin.for]}
                   /\ completed' = Without(completed, i)
                   /\ byAction' = Without(byAction, x)
                   /\ UNCHANGED inbound
      BY <1>6 DEF TakeArtifact
    <2>2. completed[i].begin.for = x
      BY <2>1 DEF ArtifactInv
    <2>3. DeliveredToOwner'
      BY <2>1, <2>2 DEF ArtifactInv, DeliveredToOwner
    <2> QED
      BY <2>1, <2>3, TakenAway
  <1>7. ASSUME NEW a \in Artifacts, TakeCompleted(a) PROVE ArtifactInv'
    <2>1. /\ completed' = Without(completed, a) /\ UNCHANGED <<inbound, taken>>
          /\ byAction' = byAction \/ \E x : byAction' = Without(byAction, x)
      BY <1>7 DEF TakeCompleted
    <2> QED
      BY <2>1, TakenAway DEF ArtifactInv, DeliveredToOwner
  <1>8. ASSUME OutboundNext \/ ReceiveRefused \/ UNCHANGED artifactVars
        PROVE  UNCHANGED <<inbound, completed, byAction, taken>>
    BY <1>8 DEF OutboundNext, SendBegin, SendChunk, SendEnd, ReceiveRefused, Refuse, inboundVars, artifactVars
  <1> QED
    BY <1>1, <1>2, <1>3, <1>4, <1>5, <1>6, <1>7, <1>8 DEF InboundNext

\* The invariant of the transfers.
THEOREM ArtifactSafety == ArtifactSpec => []ArtifactInv
  <1>1. ArtifactInit => ArtifactInv
    BY DEF ArtifactInit, ArtifactInv, NoTransfers, CompletedWhole, DeliveredToOwner
  <1> QED
    BY <1>1, ArtifactStep, PTL DEF ArtifactSpec

\* A completed artifact is whole, for every limit and whatever the extension declares
\* and sends.
THEOREM CompletedArtifactsAreWhole == ArtifactSpec => []CompletedWhole
  <1>1. ArtifactInv => CompletedWhole
    BY DEF ArtifactInv
  <1> QED
    BY <1>1, ArtifactSafety, PTL

\* take_artifact gives an action only bytes made for its own request.
THEOREM BytesReachTheirOwner == ArtifactSpec => []DeliveredToOwner
  <1>1. ArtifactInv => DeliveredToOwner
    BY DEF ArtifactInv
  <1> QED
    BY <1>1, ArtifactSafety, PTL

-----------------------------------------------------------------------------
(* Artifacts: the budget.                                                      *)

Lengths(got) == [i \in DOMAIN got |-> got[i].len]
Sizes(transfers) == [a \in DOMAIN transfers |-> Bytes(transfers[a].got)]

\* The transfers of one direction: finitely many, of the declared shape.
Buffers(transfers) ==
    /\ IsFiniteSet(DOMAIN transfers)
    /\ \A a \in DOMAIN transfers : transfers[a] \in Transfers
    /\ transfers = [a \in DOMAIN transfers |-> transfers[a]]

\* The bytes of a sequence of chunks are a sum over its indices.
LEMMA BytesIsSum ==
    ASSUME NEW got \in Seq(Chunks)
    PROVE  \E sum : IsSum(sum, Lengths(got), DOMAIN got) /\ Bytes(got) = sum[DOMAIN got]
  <1> DEFINE Folds(sum) ==
                 sum = [s \in SUBSET DOMAIN got |->
                           IF s = {} THEN 0
                           ELSE got[CHOOSE x \in s : TRUE].len + sum[s \ {CHOOSE x \in s : TRUE}]]
  <1>1. \A sum : Folds(sum) <=> IsSum(sum, Lengths(got), DOMAIN got)
    <2>1. \A s \in SUBSET DOMAIN got :
              s # {} => Lengths(got)[CHOOSE x \in s : TRUE] = got[CHOOSE x \in s : TRUE].len
      BY DEF Lengths
    <2>2. \A s \in SUBSET DOMAIN got : s # {} => Lengths(got)[Pick(s)] = got[Pick(s)].len
      BY <2>1 DEF Pick
    <2>3. \A sum : Folds(sum) <=> sum = [s \in SUBSET DOMAIN got |->
                                            IF s = {} THEN 0 ELSE got[Pick(s)].len + sum[s \ {Pick(s)}]]
      BY Zenon DEF Pick
    <2> HIDE DEF Folds
    <2> QED
      BY <2>2, <2>3 DEF IsSum
  <1>2. Bytes(got) = (CHOOSE sum : Folds(sum))[DOMAIN got]
    BY Zenon DEF Bytes, FoldSeq, FoldFunction, FoldFunctionOnSet, MapThenFoldSet
  <1> HIDE DEF Folds
  <1>3. IsFiniteSet(DOMAIN got)
    BY FS_Interval
  <1>4. \E sum : Folds(sum)
    BY <1>1, <1>3, SumExists
  <1>5. Folds(CHOOSE sum : Folds(sum))
    BY <1>4, Zenon
  <1> QED
    BY <1>1, <1>2, <1>5

\* See BytesIsSum; a sum of lengths is a natural number.
LEMMA BytesType == ASSUME NEW got \in Seq(Chunks) PROVE Bytes(got) \in Nat
  <1>1. PICK sum : IsSum(sum, Lengths(got), DOMAIN got) /\ Bytes(got) = sum[DOMAIN got]
    BY BytesIsSum
  <1>2. IsFiniteSet(DOMAIN got)
    BY FS_Interval
  <1>3. \A i \in DOMAIN got : got[i].len \in Nat
    BY ArtifactAssumption
  <1>4. Lengths(got) \in [DOMAIN got -> Nat]
    BY <1>3 DEF Lengths
  <1> QED
    BY <1>1, <1>2, <1>4, SumType

\* No chunk, no byte; one more chunk, its bytes more.
LEMMA BytesAppend ==
    /\ Bytes(<<>>) = 0
    /\ \A got \in Seq(Chunks), c \in Chunks : Bytes(Append(got, c)) = Bytes(got) + c.len
  <1>1. Bytes(<<>>) = 0
    <2>1. <<>> \in Seq(Chunks) /\ DOMAIN <<>> = {}
      OBVIOUS
    <2>2. PICK sum : IsSum(sum, Lengths(<<>>), DOMAIN <<>>) /\ Bytes(<<>>) = sum[DOMAIN <<>>]
      BY <2>1, BytesIsSum
    <2> QED
      BY <2>1, <2>2 DEF IsSum
  <1>2. ASSUME NEW got \in Seq(Chunks), NEW c \in Chunks
        PROVE  Bytes(Append(got, c)) = Bytes(got) + c.len
    <2>0. Append(got, c) \in Seq(Chunks)
      OBVIOUS
    <2>1. PICK more \in Seq(Chunks) : more = Append(got, c)
      BY <2>0
    <2>2. PICK n \in Nat : n = Len(got)
      OBVIOUS
    <2>3. /\ DOMAIN got = 1..n /\ DOMAIN more = 1..(n + 1) /\ more[n + 1] = c
          /\ \A i \in 1..n : more[i] = got[i]
      BY <2>1, <2>2
    <2>4. PICK sum : IsSum(sum, Lengths(got), 1..n) /\ Bytes(got) = sum[1..n]
      BY <2>3, BytesIsSum
    <2>5. PICK all : IsSum(all, Lengths(more), 1..(n + 1)) /\ Bytes(more) = all[1..(n + 1)]
      BY <2>3, BytesIsSum
    <2>6. IsFiniteSet(1..n) /\ IsFiniteSet(1..(n + 1))
      BY FS_Interval
    <2>7. /\ Lengths(more) \in [1..(n + 1) -> Nat] /\ Lengths(more)[n + 1] = c.len
          /\ \A i \in 1..n : Lengths(got)[i] = Lengths(more)[i]
      BY <2>3, ArtifactAssumption DEF Lengths
    <2>8. 1..n \subseteq 1..(n + 1) /\ n + 1 \in 1..(n + 1) /\ 1..(n + 1) \ {n + 1} = 1..n
      OBVIOUS
    <2>9. sum[1..n] = all[1..n]
      BY <2>4, <2>5, <2>6, <2>7, <2>8, SumAgrees, SMTT(30)
    <2>10. all[1..(n + 1)] = Lengths(more)[n + 1] + all[1..(n + 1) \ {n + 1}]
      <3>1. PICK S : S = 1..(n + 1)
        OBVIOUS
      <3>2. IsSum(all, Lengths(more), S) /\ IsFiniteSet(S) /\ Lengths(more) \in [S -> Nat]
        BY <2>5, <2>6, <2>7, <3>1
      <3>3. S \in SUBSET S /\ n + 1 \in S
        BY <3>1
      <3>4. all[S] = Lengths(more)[n + 1] + all[S \ {n + 1}]
        BY <3>2, <3>3, SumRemove
      <3> QED
        BY <3>1, <3>4
    <2>11. all[1..(n + 1)] = c.len + Bytes(got)
      BY <2>4, <2>7, <2>8, <2>9, <2>10
    <2>12. c.len \in Nat /\ Bytes(got) \in Nat
      BY BytesType, ArtifactAssumption
    <2> QED
      BY <2>1, <2>5, <2>11, <2>12
  <1> QED
    BY <1>1, <1>2

\* The bytes of the open transfers are a sum over their ids.
LEMMA InFlightIsSum ==
    ASSUME NEW t, Buffers(t)
    PROVE  /\ \E sum : IsSum(sum, Sizes(t), DOMAIN t) /\ InFlight(t) = sum[DOMAIN t]
           /\ Sizes(t) \in [DOMAIN t -> Nat]
  <1> DEFINE Folds(sum) ==
                 sum = [s \in SUBSET DOMAIN t |->
                           IF s = {} THEN 0
                           ELSE Bytes(t[CHOOSE x \in s : TRUE].got) + sum[s \ {CHOOSE x \in s : TRUE}]]
  <1>1. \A sum : Folds(sum) <=> IsSum(sum, Sizes(t), DOMAIN t)
    <2>1. \A s \in SUBSET DOMAIN t :
              s # {} => Sizes(t)[CHOOSE x \in s : TRUE] = Bytes(t[CHOOSE x \in s : TRUE].got)
      BY DEF Sizes
    <2> QED
      BY <2>1 DEF IsSum, Pick
  <1>2. InFlight(t) = (CHOOSE sum : Folds(sum))[DOMAIN t]
    BY Zenon DEF InFlight, MapThenSumSet, MapThenFoldSet
  <1> HIDE DEF Folds
  <1>3. \E sum : Folds(sum)
    BY <1>1, SumExists DEF Buffers
  <1>4. Folds(CHOOSE sum : Folds(sum))
    BY <1>3, Zenon
  <1>5. \A a \in DOMAIN t : Bytes(t[a].got) \in Nat
    BY BytesType DEF Buffers, Transfers
  <1>6. Sizes(t) \in [DOMAIN t -> Nat]
    BY <1>5 DEF Sizes
  <1> QED
    BY <1>1, <1>2, <1>4, <1>6

\* The bytes in flight are those of one transfer and those of the others.
LEMMA InFlightWithout ==
    ASSUME NEW t, Buffers(t), NEW a \in DOMAIN t
    PROVE  /\ Buffers(Without(t, a))
           /\ InFlight(t) \in Nat /\ InFlight(Without(t, a)) \in Nat /\ Bytes(t[a].got) \in Nat
           /\ InFlight(t) = Bytes(t[a].got) + InFlight(Without(t, a))
  <1>1. PICK u : u = Without(t, a)
    OBVIOUS
  <1>2. DOMAIN u = DOMAIN t \ {a} /\ \A x \in DOMAIN u : u[x] = t[x]
    BY <1>1 DEF Without
  <1>3. Buffers(u)
    <2>1. IsFiniteSet(DOMAIN u)
      BY <1>2, FS_Subset DEF Buffers
    <2>2. u = [x \in DOMAIN u |-> u[x]]
      BY <1>1, <1>2 DEF Without
    <2> QED
      BY <1>2, <2>1, <2>2 DEF Buffers
  <1>4. PICK sum : IsSum(sum, Sizes(t), DOMAIN t) /\ InFlight(t) = sum[DOMAIN t]
    BY InFlightIsSum
  <1>5. PICK rest : IsSum(rest, Sizes(u), DOMAIN u) /\ InFlight(u) = rest[DOMAIN u]
    BY <1>3, InFlightIsSum
  <1>6. Sizes(t) \in [DOMAIN t -> Nat] /\ Sizes(u) \in [DOMAIN u -> Nat]
    BY <1>3, InFlightIsSum
  <1>7. \A x \in DOMAIN u : Sizes(u)[x] = Sizes(t)[x]
    BY <1>2 DEF Sizes
  <1>8. IsFiniteSet(DOMAIN t) /\ IsFiniteSet(DOMAIN u) /\ DOMAIN u \subseteq DOMAIN t
    BY <1>2, <1>3 DEF Buffers
  <1>9. rest[DOMAIN u] = sum[DOMAIN u]
    BY <1>4, <1>5, <1>7, <1>8, SumAgrees
  <1>10. sum[DOMAIN t] = Sizes(t)[a] + sum[DOMAIN t \ {a}]
    BY <1>4, <1>6, <1>8, SumRemove
  <1>11. Sizes(t)[a] = Bytes(t[a].got) /\ Sizes(t)[a] \in Nat
    BY <1>6 DEF Sizes
  <1>12. sum[DOMAIN t] \in Nat /\ rest[DOMAIN u] \in Nat
    BY <1>4, <1>5, <1>6, <1>8, SumType
  <1> QED
    BY <1>1, <1>2, <1>3, <1>4, <1>5, <1>9, <1>10, <1>11, <1>12

\* Opening a transfer, or changing one, changes the bytes in flight by its own.
LEMMA InFlightWith ==
    ASSUME NEW t, Buffers(t), NEW a, NEW v \in Transfers
    PROVE  /\ Buffers(With(t, a, v))
           /\ a \notin DOMAIN t => InFlight(With(t, a, v)) = Bytes(v.got) + InFlight(t)
           /\ a \in DOMAIN t =>
                  InFlight(With(t, a, v)) = Bytes(v.got) + InFlight(Without(t, a))
  <1>1. PICK u : u = With(t, a, v)
    OBVIOUS
  <1>2. /\ DOMAIN u = DOMAIN t \cup {a} /\ u[a] = v
        /\ \A x \in DOMAIN t : x # a => u[x] = t[x]
    BY <1>1 DEF With
  <1>3. Buffers(u)
    <2>1. IsFiniteSet(DOMAIN u)
      BY <1>2, FS_AddElement DEF Buffers
    <2>2. u = [x \in DOMAIN u |-> u[x]]
      BY <1>1, <1>2 DEF With
    <2> QED
      BY <1>2, <2>1, <2>2 DEF Buffers
  <1>4. Without(u, a) = IF a \in DOMAIN t THEN Without(t, a) ELSE t
    <2>1. Without(u, a) = [x \in DOMAIN t \ {a} |-> t[x]]
      BY <1>2 DEF Without
    <2>2. a \notin DOMAIN t => t = [x \in DOMAIN t \ {a} |-> t[x]]
      BY DEF Buffers
    <2> QED
      BY <2>1, <2>2 DEF Without
  <1>5. InFlight(u) = Bytes(u[a].got) + InFlight(Without(u, a))
    BY <1>2, <1>3, InFlightWithout
  <1> QED
    BY <1>1, <1>2, <1>3, <1>4, <1>5

\* One direction's budget counts what its buffers hold.
Exact(transfers, budget) ==
    /\ Buffers(transfers)
    /\ budget \in [flight : Nat, total : Nat]
    /\ budget.flight = InFlight(transfers)

BudgetInv == Exact(inbound, inBudget) /\ Exact(outbound, outBudget)

\* begin: nothing is counted yet.
LEMMA ExactBegin ==
    ASSUME NEW t, NEW b, Exact(t, b), NEW a, a \notin DOMAIN t, NEW d \in Envelopes
    PROVE  Exact(With(t, a, [begin |-> d, got |-> <<>>]), b)
  <1>1. PICK v \in Transfers : v = [begin |-> d, got |-> <<>>] /\ v.got = <<>>
    <2>1. [begin |-> d, got |-> <<>>] \in Transfers
      BY DEF Transfers
    <2> QED
      BY <2>1
  <1>2. Buffers(With(t, a, v)) /\ InFlight(With(t, a, v)) = Bytes(v.got) + InFlight(t)
    BY <1>1, InFlightWith DEF Exact
  <1>3. InFlight(With(t, a, v)) = InFlight(t)
    BY <1>1, <1>2, BytesAppend DEF Exact
  <1> QED
    BY <1>1, <1>2, <1>3 DEF Exact

\* chunk: its bytes are counted once.
LEMMA ExactChunk ==
    ASSUME NEW t, NEW b, Exact(t, b), NEW a \in DOMAIN t, NEW c \in Chunks
    PROVE  Exact([t EXCEPT ![a].got = Append(@, c)], Receives(b, c.len))
  <1>1. t[a] \in Transfers /\ t[a].got \in Seq(Chunks) /\ t[a].begin \in Envelopes
    BY DEF Exact, Buffers, Transfers
  <1>2. PICK v \in Transfers : v = [t[a] EXCEPT !.got = Append(@, c)] /\ v.got = Append(t[a].got, c)
    <2>1. [t[a] EXCEPT !.got = Append(@, c)] \in Transfers
      BY <1>1 DEF Transfers
    <2>2. [t[a] EXCEPT !.got = Append(@, c)].got = Append(t[a].got, c)
      BY <1>1 DEF Transfers
    <2> QED
      BY <2>1, <2>2
  <1>3. [t EXCEPT ![a].got = Append(@, c)] = With(t, a, v)
    <2>1. [t EXCEPT ![a].got = Append(@, c)] = [t EXCEPT ![a] = v]
      BY <1>2, Zenon
    <2>2. DOMAIN t \cup {a} = DOMAIN t
      OBVIOUS
    <2> QED
      BY <2>1, <2>2 DEF With
  <1>4. Buffers(With(t, a, v)) /\ InFlight(With(t, a, v)) = Bytes(v.got) + InFlight(Without(t, a))
    BY InFlightWith DEF Exact
  <1>5. /\ InFlight(t) = Bytes(t[a].got) + InFlight(Without(t, a))
        /\ InFlight(Without(t, a)) \in Nat /\ Bytes(t[a].got) \in Nat
    BY InFlightWithout DEF Exact
  <1>6. Bytes(v.got) = Bytes(t[a].got) + c.len
    BY <1>1, <1>2, BytesAppend
  <1>7. c.len \in Nat
    BY ArtifactAssumption
  <1>8. InFlight(With(t, a, v)) = InFlight(t) + c.len
    BY <1>4, <1>5, <1>6, <1>7
  <1>9. Receives(b, c.len) \in [flight : Nat, total : Nat]
        /\ Receives(b, c.len).flight = b.flight + c.len
    BY <1>7 DEF Exact, Receives
  <1> QED
    BY <1>3, <1>4, <1>8, <1>9 DEF Exact

\* end: the bytes of the transfer, and no others, are released.
LEMMA ExactEnd ==
    ASSUME NEW t, NEW b, Exact(t, b), NEW a \in DOMAIN t
    PROVE  Exact(Without(t, a), Released(b, Bytes(t[a].got)))
  <1>1. /\ Buffers(Without(t, a))
        /\ InFlight(t) \in Nat /\ InFlight(Without(t, a)) \in Nat /\ Bytes(t[a].got) \in Nat
        /\ InFlight(t) = Bytes(t[a].got) + InFlight(Without(t, a))
    BY InFlightWithout DEF Exact
  <1>2. b.flight - Bytes(t[a].got) = InFlight(Without(t, a))
    BY <1>1 DEF Exact
  <1>3. PICK n \in Nat : n = InFlight(Without(t, a)) /\ b.flight - Bytes(t[a].got) = n
    BY <1>1, <1>2
  <1>4. Released(b, Bytes(t[a].got)) = [b EXCEPT !.flight = n]
    BY <1>3 DEF Released
  <1> QED
    BY <1>1, <1>3, <1>4 DEF Exact

\* Every begin, chunk and end keeps both budgets exact.
LEMMA BudgetStep == BudgetInv /\ [InboundNext \/ OutboundNext]_artifactVars => BudgetInv'
  <1> SUFFICES ASSUME BudgetInv, [InboundNext \/ OutboundNext]_artifactVars PROVE BudgetInv'
    OBVIOUS
  <1> USE DEF Open
  <1>1. CASE UNCHANGED <<inbound, inBudget, outbound, outBudget>>
    BY <1>1 DEF BudgetInv, Exact
  <1>2. ASSUME NEW a \in Artifacts, NEW d \in Envelopes, ReceiveBegin(a, d) PROVE BudgetInv'
    BY <1>2, ExactBegin DEF ReceiveBegin, BeginAccepted, outboundVars, BudgetInv
  <1>3. ASSUME NEW a \in Artifacts, NEW c \in Chunks, ReceiveChunk(a, c) PROVE BudgetInv'
    BY <1>3, ExactChunk DEF ReceiveChunk, ChunkAccepted, outboundVars, BudgetInv
  <1>4. ASSUME NEW a \in Artifacts, NEW d \in Envelopes, ReceiveEnd(a, d) PROVE BudgetInv'
    BY <1>4, ExactEnd DEF ReceiveEnd, outboundVars, BudgetInv
  <1>5. ASSUME NEW a \in Artifacts, NEW d \in Envelopes, SendBegin(a, d) PROVE BudgetInv'
    BY <1>5, ExactBegin DEF SendBegin, inboundVars, BudgetInv
  <1>6. ASSUME NEW a \in Artifacts, NEW c \in Chunks, SendChunk(a, c) PROVE BudgetInv'
    BY <1>6, ExactChunk DEF SendChunk, inboundVars, BudgetInv
  <1>7. ASSUME NEW a \in Artifacts, SendEnd(a) PROVE BudgetInv'
    BY <1>7, ExactEnd DEF SendEnd, inboundVars, BudgetInv
  <1>8. ASSUME \/ \E a \in Artifacts, x \in Actions : Retain(x, a)
               \/ \E a \in Artifacts : TakeCompleted(a)
               \/ \E x \in Actions : TakeArtifact(x)
               \/ ReceiveRefused \/ UNCHANGED artifactVars
        PROVE  UNCHANGED <<inbound, inBudget, outbound, outBudget>>
    BY <1>8 DEF Retain, TakeCompleted, TakeArtifact, ReceiveRefused, Refuse, inboundVars,
                outboundVars, artifactVars
  <1> QED
    BY <1>1, <1>2, <1>3, <1>4, <1>5, <1>6, <1>7, <1>8 DEF InboundNext, OutboundNext

\* The budgets count exactly the bytes in the buffers of open transfers, for every
\* number and size of transfers.
THEOREM BudgetsAreExact == ArtifactSpec => []BudgetExact
  <1>1. ArtifactInit => BudgetInv
    <2> SUFFICES ASSUME ArtifactInit PROVE BudgetInv
      OBVIOUS
    <2>1. PICK t : t = NoTransfers
      OBVIOUS
    <2>2. DOMAIN t = {} /\ Buffers(t)
      BY <2>1, FS_EmptySet DEF NoTransfers, Buffers
    <2>3. PICK sum : IsSum(sum, Sizes(t), DOMAIN t) /\ InFlight(t) = sum[DOMAIN t]
      BY <2>2, InFlightIsSum
    <2>4. InFlight(t) = 0
      BY <2>2, <2>3 DEF IsSum
    <2> QED
      BY <2>1, <2>2, <2>4 DEF ArtifactInit, BudgetInv, Exact
  <1>2. BudgetInv => BudgetExact
    BY DEF BudgetInv, Exact, BudgetExact
  <1> QED
    BY <1>1, <1>2, BudgetStep, PTL DEF ArtifactSpec

-----------------------------------------------------------------------------
(* The DevTools client.                                                        *)

\* The commands that complete a call: each is the last of its call and of no other
\* place in it.
Completing == {"release", "insert", "load", "capture", "close"}
CommandNames ==
    Completing \cup {"find", "attach", "enable", "document", "describe", "box", "focus", "hit", "press"}
CompletesAtEnd(rest) == \A i \in DOMAIN rest : (rest[i] \in Completing) <=> (i = Len(rest))

\* The call under the mutex is about a page, has reported nothing and has not taken
\* effect; what it still has to send ends with the command that does it.
CallInv ==
    call # Idle =>
        /\ call.page \in Targets
        /\ told[call.page] = "none"
        /\ effect[call.page] # "done"
        /\ call \in [kind : Kinds \cup {"cleanup"}, page : Targets, todo : Seq(CommandNames), tab : BOOLEAN]
        /\ call.kind = "cleanup" \/ (call.todo # <<>> /\ CompletesAtEnd(call.todo))
        /\ call.kind = "cleanup" => call.todo = <<>>

CdpType ==
    /\ told \in [Targets -> {"none", "ok", "failed", "unknown", "transport", "abandoned"}]
    /\ effect \in [Targets -> {"none", "part", "done"}]
    /\ tabs \in [Targets -> Nat]

CdpInv == CdpType /\ CallInv /\ ReportsAreTrue /\ NoTabLeftBehind

\* Every call ends with the command that makes it take effect, and has no other.
LEMMA CommandsComplete ==
    ASSUME NEW kind \in Kinds
    PROVE  /\ Commands(kind) \in Seq(CommandNames) /\ Commands(kind) # <<>>
           /\ CompletesAtEnd(Commands(kind))
  <1>1. CASE kind = "create"
    BY <1>1 DEF Commands, CompletesAtEnd, Completing, CommandNames
  <1>2. CASE kind = "navigate"
    BY <1>2 DEF Commands, CompletesAtEnd, Completing, CommandNames
  <1>3. CASE kind = "click"
    BY <1>3 DEF Commands, CompletesAtEnd, Completing, CommandNames
  <1>4. CASE kind = "input"
    BY <1>4 DEF Commands, CompletesAtEnd, Completing, CommandNames
  <1>5. CASE kind = "snapshot"
    BY <1>5 DEF Commands, CompletesAtEnd, Completing, CommandNames
  <1>6. CASE kind = "close"
    BY <1>6 DEF Commands, CompletesAtEnd, Completing, CommandNames
  <1> QED
    BY <1>1, <1>2, <1>3, <1>4, <1>5, <1>6 DEF Kinds

\* What is left of a call after a command that does not end it.
LEMMA RestCompletes ==
    ASSUME NEW rest \in Seq(CommandNames), rest # <<>>, CompletesAtEnd(rest)
    PROVE  /\ (Head(rest) \in Completing) <=> (Tail(rest) = <<>>)
           /\ Tail(rest) \in Seq(CommandNames) /\ CompletesAtEnd(Tail(rest))
  <1>1. /\ Len(rest) \in Nat /\ Len(rest) > 0 /\ DOMAIN rest = 1..Len(rest) /\ Head(rest) = rest[1]
        /\ Tail(rest) \in Seq(CommandNames) /\ Len(Tail(rest)) = Len(rest) - 1
    OBVIOUS
  <1>2. (Tail(rest) = <<>>) <=> (Len(rest) = 1)
    <2>1. \A s \in Seq(CommandNames) : (s = <<>>) <=> (Len(s) = 0)
      OBVIOUS
    <2>2. PICK s \in Seq(CommandNames) : s = Tail(rest) /\ Len(s) = Len(rest) - 1
      BY <1>1
    <2>3. (s = <<>>) <=> (Len(rest) = 1)
      BY <1>1, <2>1, <2>2
    <2> QED
      BY <2>2, <2>3, Zenon
  <1>3. \A i \in DOMAIN Tail(rest) : i + 1 \in DOMAIN rest /\ Tail(rest)[i] = rest[i + 1]
    BY <1>1
  <1>4. CompletesAtEnd(Tail(rest))
    BY <1>1, <1>3 DEF CompletesAtEnd
  <1>5. (Head(rest) \in Completing) <=> (Len(rest) = 1)
    BY <1>1 DEF CompletesAtEnd
  <1> QED
    BY <1>1, <1>2, <1>4, <1>5

\* What an answered command did: an effect that is complete only if it completes.
LEMMA AnsweredEffect ==
    ASSUME CdpInv, call # Idle, call.todo # <<>>, Answered
    PROVE  /\ effect' \in [Targets -> {"none", "part", "done"}]
           /\ tabs' \in [Targets -> Nat]
           /\ \A p \in Targets : p # Page => effect'[p] = effect[p] /\ tabs'[p] = tabs[p]
           /\ (effect'[Page] = "done") <=> (Command \in Completing)
           /\ tabs'[Page] = tabs[Page] \/ tabs'[Page] = 0
  <1>1. Page \in Targets /\ effect[Page] # "done"
    BY DEF CdpInv, CallInv, Page
  <1>2. PICK v : effect' = [effect EXCEPT ![Page] = v]
                 /\ v = (CASE Command = "press" -> "part"
                           [] Command \in {"release", "insert", "load", "capture", "close"} -> "done"
                           [] OTHER -> effect[Page])
    BY Zenon DEF Answered
  <1>3. v \in {"none", "part", "done"} /\ ((v = "done") <=> (Command \in Completing))
    BY <1>1, <1>2 DEF Completing, CdpInv, CdpType
  <1>4. tabs' = tabs \/ tabs' = [tabs EXCEPT ![Page] = 0]
    BY DEF Answered
  <1> QED
    BY <1>1, <1>2, <1>3, <1>4 DEF CdpInv, CdpType

\* A call that ends with a report that is true of its page.
LEMMA EndsTruly ==
    ASSUME CdpInv, call # Idle, NEW report \in {"ok", "failed", "unknown", "abandoned"},
           Ends(report),
           effect' \in [Targets -> {"none", "part", "done"}], tabs' \in [Targets -> Nat],
           \A p \in Targets : p # Page => effect'[p] = effect[p] /\ tabs'[p] = tabs[p],
           report = "ok" => effect'[Page] = "done",
           report = "failed" => effect'[Page] # "done",
           report = "abandoned" => tabs'[Page] = 0
    PROVE  CdpInv'
  <1>1. Page \in Targets
    BY DEF CdpInv, CallInv, Page
  <1>2. told' = [told EXCEPT ![Page] = report] /\ call' = Idle
    BY DEF Ends
  <1>3. CdpType' /\ CallInv'
    BY <1>1, <1>2 DEF CdpInv, CdpType, CallInv
  <1>4. \A p \in Targets : told'[p] = IF p = Page THEN report ELSE told[p]
    BY <1>1, <1>2 DEF CdpInv, CdpType
  <1> QED
    BY <1>1, <1>3, <1>4 DEF CdpInv, ReportsAreTrue, NoTabLeftBehind

\* A step of a call keeps the invariant: it ends with a true report, or goes on without
\* having taken effect.
LEMMA CdpStep == CdpInv /\ [CdpNext]_cdpVars => CdpInv'
  <1> SUFFICES ASSUME CdpInv, [CdpNext]_cdpVars PROVE CdpInv'
    OBVIOUS
  <1> USE DEF Page
  <1>1. ASSUME NEW p \in Targets, NEW k \in Kinds, Begin(k, p) PROVE CdpInv'
    <2>1. /\ call' = [kind |-> k, page |-> p, todo |-> Commands(k), tab |-> FALSE]
          /\ effect' = [effect EXCEPT ![p] = "none"] /\ told' = [told EXCEPT ![p] = "none"]
          /\ tabs' = tabs
      BY <1>1 DEF Begin
    <2>2. CdpType' /\ ReportsAreTrue' /\ NoTabLeftBehind'
      BY <2>1 DEF CdpInv, CdpType, ReportsAreTrue, NoTabLeftBehind
    <2>3. CallInv'
      BY <2>1, CommandsComplete DEF CdpInv, CdpType, CallInv, Kinds
    <2> QED
      BY <2>2, <2>3 DEF CdpInv
  <1>2. ASSUME NEW p \in Targets, NEW a \in TabAnswers, BeginCreate(p, a) PROVE CdpInv'
    <2>1. PICK v \in {"none", "transport"} :
            /\ told' = [told EXCEPT ![p] = v]
            /\ effect' = [effect EXCEPT ![p] = "none"]
            /\ tabs' = [tabs EXCEPT ![p] = tabs[p] + 1] \/ tabs' = tabs
            /\ \/ call' = Idle
               \/ v = "none" /\ call' = [kind |-> "create", page |-> p,
                                         todo |-> Commands("create"), tab |-> FALSE]
      <3>1. tabs' = [tabs EXCEPT ![p] = tabs[p] + 1] \/ tabs' = [tabs EXCEPT ![p] = tabs[p]]
        BY <1>2, Zenon DEF BeginCreate
      <3>2. tabs' = [tabs EXCEPT ![p] = tabs[p] + 1] \/ tabs' = tabs
        BY <3>1 DEF CdpInv, CdpType
      <3>3. CASE a = "created"
        BY <1>2, <3>2, <3>3 DEF BeginCreate
      <3>4. CASE a # "created"
        BY <1>2, <3>2, <3>4 DEF BeginCreate
      <3> QED
        BY <3>3, <3>4
    <2>2. CdpType' /\ ReportsAreTrue' /\ NoTabLeftBehind'
      BY <2>1 DEF CdpInv, CdpType, ReportsAreTrue, NoTabLeftBehind
    <2>3. CallInv'
      <3>1. CASE call' = Idle
        BY <3>1 DEF CallInv
      <3>2. CASE v = "none" /\ call' = [kind |-> "create", page |-> p,
                                       todo |-> Commands("create"), tab |-> FALSE]
        <4>1. told'[p] = "none" /\ effect'[p] = "none"
          BY <2>1, <3>2 DEF CdpInv, CdpType
        <4>2. "create" \in Kinds
          BY DEF Kinds
        <4>3. /\ Commands("create") \in Seq(CommandNames) /\ Commands("create") # <<>>
              /\ CompletesAtEnd(Commands("create"))
          BY <4>2, CommandsComplete
        <4> QED
          BY <3>2, <4>1, <4>2, <4>3 DEF CallInv
      <3> QED
        BY <2>1, <3>1, <3>2
    <2> QED
      BY <2>2, <2>3 DEF CdpInv
  <1>3. CASE CommandOk
    <2>1. call # Idle /\ call.todo # <<>> /\ Answered
      BY <1>3 DEF CommandOk
    <2>2. /\ Page \in Targets /\ call.todo \in Seq(CommandNames) /\ CompletesAtEnd(call.todo)
          /\ call \in [kind : Kinds \cup {"cleanup"}, page : Targets, todo : Seq(CommandNames), tab : BOOLEAN]
          /\ call.kind # "cleanup" /\ told[Page] = "none"
      BY <2>1 DEF CdpInv, CallInv
    <2>3. CASE Finished
      <3>1. Command \in Completing
        BY <2>1, <2>2, <2>3, RestCompletes DEF Command, Finished
      <3>2. Ends("ok")
        BY <1>3, <2>3 DEF CommandOk, Ends
      <3> QED
        BY <2>1, <3>1, <3>2, AnsweredEffect, EndsTruly
    <2>4. CASE ~Finished
      <3>1. Command \notin Completing /\ Tail(call.todo) # <<>>
            /\ Tail(call.todo) \in Seq(CommandNames) /\ CompletesAtEnd(Tail(call.todo))
        BY <2>1, <2>2, <2>4, RestCompletes DEF Command, Finished
      <3>2. /\ call' = [call EXCEPT !.todo = Tail(call.todo), !.tab = call.tab \/ Command = "find"]
            /\ told' = told
        BY <1>3, <2>4 DEF CommandOk
      <3>3. PICK b \in BOOLEAN : call' = [call EXCEPT !.todo = Tail(call.todo), !.tab = b]
        BY <2>2, <3>2
      <3>4. call' = [kind |-> call.kind, page |-> call.page, todo |-> Tail(call.todo), tab |-> b]
        BY <2>2, <3>3
      <3>5. /\ effect' \in [Targets -> {"none", "part", "done"}] /\ tabs' \in [Targets -> Nat]
            /\ \A p \in Targets : p # Page => effect'[p] = effect[p] /\ tabs'[p] = tabs[p]
            /\ effect'[Page] # "done"
        BY <2>1, <3>1, AnsweredEffect
      <3>6. CdpType' /\ ReportsAreTrue' /\ NoTabLeftBehind'
        BY <2>2, <3>2, <3>5 DEF CdpInv, CdpType, ReportsAreTrue, NoTabLeftBehind
      <3>7. CallInv'
        BY <2>2, <3>1, <3>2, <3>4, <3>5 DEF CallInv
      <3> QED
        BY <3>6, <3>7 DEF CdpInv
    <2> QED
      BY <2>3, <2>4
  <1>4. CASE CommandLost
    <2>1. call # Idle /\ call.todo # <<>> /\ Ends("unknown")
          /\ (Answered \/ UNCHANGED <<tabs, effect>>)
      BY <1>4 DEF CommandLost
    <2>2. CASE Answered
      BY <2>1, <2>2, AnsweredEffect, EndsTruly
    <2>3. CASE UNCHANGED <<tabs, effect>>
      BY <2>1, <2>3, EndsTruly DEF CdpInv, CdpType
    <2> QED
      BY <2>1, <2>2, <2>3
  <1>5. CASE CommandRejected
    <2>1. call # Idle /\ UNCHANGED <<tabs, effect>> /\ Page \in Targets /\ effect[Page] # "done"
      BY <1>5 DEF CommandRejected, CdpInv, CallInv
    <2>2. CASE call.kind = "create" /\ call.tab
      <3>1. call' = [call EXCEPT !.kind = "cleanup", !.todo = <<>>] /\ told' = told
        BY <1>5, <2>2 DEF CommandRejected
      <3>2. call \in [kind : Kinds \cup {"cleanup"}, page : Targets, todo : Seq(CommandNames), tab : BOOLEAN]
        BY <2>1 DEF CdpInv, CallInv
      <3>3. call' = [kind |-> "cleanup", page |-> call.page, todo |-> <<>>, tab |-> call.tab]
        BY <3>1, <3>2
      <3>4. CallInv'
        <4>1. told[call.page] = "none" /\ effect[call.page] # "done" /\ call.page \in Targets
          BY <2>1 DEF CdpInv, CallInv
        <4>2. <<>> \in Seq(CommandNames) /\ call.tab \in BOOLEAN
          BY <3>2
        <4>3. call' \in [kind : Kinds \cup {"cleanup"}, page : Targets, todo : Seq(CommandNames), tab : BOOLEAN]
          BY <3>3, <4>1, <4>2
        <4> QED
          BY <2>1, <3>1, <3>3, <4>1, <4>3 DEF CallInv
      <3> QED
        BY <2>1, <3>1, <3>4 DEF CdpInv, CdpType, ReportsAreTrue, NoTabLeftBehind
    <2>3. CASE ~(call.kind = "create" /\ call.tab)
      <3>1. Ends("unknown") \/ Ends("failed")
        BY <1>5, <2>3 DEF CommandRejected
      <3> QED
        BY <2>1, <3>1, EndsTruly DEF CdpInv, CdpType
    <2> QED
      BY <2>2, <2>3
  <1>6. CASE CleanupOk
    <2>1. call # Idle /\ Ends("abandoned") /\ tabs' = [tabs EXCEPT ![Page] = 0] /\ effect' = effect
      BY <1>6 DEF CleanupOk, Idle
    <2>2. Page \in Targets
      BY <2>1 DEF CdpInv, CallInv
    <2> QED
      BY <2>1, <2>2, EndsTruly DEF CdpInv, CdpType
  <1>7. CASE CleanupFails \/ Unusable
    <2>1. call # Idle /\ Ends("unknown") /\ UNCHANGED <<tabs, effect>>
      <3>1. CASE CleanupFails
        BY <3>1 DEF CleanupFails, Idle
      <3>2. CASE Unusable
        BY <3>2 DEF Unusable
      <3> QED
        BY <1>7, <3>1, <3>2
    <2> QED
      BY <2>1, EndsTruly DEF CdpInv, CdpType
  <1>8. ASSUME NEW p \in Targets, UserCloses(p) PROVE CdpInv'
    BY <1>8 DEF UserCloses, CdpInv, CdpType, CallInv, ReportsAreTrue, NoTabLeftBehind
  <1>9. CASE UNCHANGED <<call, tabs, effect, told>>
    BY <1>9 DEF CdpInv, CdpType, CallInv, ReportsAreTrue, NoTabLeftBehind
  <1>10. ASSUME NEW p \in Targets, PageLoads(p) PROVE UNCHANGED <<call, tabs, effect, told>>
    BY <1>10 DEF PageLoads
  <1> QED
    BY <1>1, <1>2, <1>3, <1>4, <1>5, <1>6, <1>7, <1>8, <1>9, <1>10 DEF CdpNext, cdpVars

\* The invariant of the DevTools client.
THEOREM CdpSafety == CdpSpec => []CdpInv
  <1>1. CdpInit => CdpInv
    BY DEF CdpInit, CdpInv, CdpType, CallInv, ReportsAreTrue, NoTabLeftBehind
  <1> QED
    BY <1>1, CdpStep, PTL DEF CdpSpec

\* What the bridge reports of a call is true, whatever command is lost or rejected and
\* whatever happens in the browser meanwhile.
THEOREM BridgeReportsAreTrue == CdpSpec => []ReportsAreTrue
  <1>1. CdpInv => ReportsAreTrue
    BY DEF CdpInv
  <1> QED
    BY <1>1, CdpSafety, PTL

\* cleanup_failed_creation: no definite failure of a creation leaves its tab.
THEOREM FailedCreationsLeaveNoTab == CdpSpec => []NoTabLeftBehind
  <1>1. CdpInv => NoTabLeftBehind
    BY DEF CdpInv
  <1> QED
    BY <1>1, CdpSafety, PTL
=============================================================================
