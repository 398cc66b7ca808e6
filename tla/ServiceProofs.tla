--------------------------- MODULE ServiceProofs ---------------------------
(* Proofs about the service around the broker: cancelled requests never run,   *)
(* the processes over a state directory keep what they acknowledged and are    *)
(* found by their clients, and an answer of snapshot.read reproduces the       *)
(* document (deltas) or says that it leaves some of it out (omissions).        *)
EXTENDS Requests, HostProcess, Context, FiniteSetTheorems, TLAPS

-----------------------------------------------------------------------------
(* Requests.                                                                   *)

Frames ==
    [kind : {"hello", "eof", "bad"}]
    \cup [kind : {"call"}, id : CallIds]
    \cup [kind : {"wait"}, id : WaitIds]
    \cup [kind : {"cancel"}, id : RequestIds]

RequestType ==
    /\ inbox \in Seq(Frames)
    /\ sentFrames.n \in Nat /\ sentFrames.waits \subseteq WaitIds
    /\ track \in [RequestIds -> {"none", "completed", "cancelled_queued"}]
    /\ token \in [RequestIds -> {"none", "live", "cancelled"}]
    /\ worker \in [WaitIds -> {"none", "forked", "unbound", "waiting", "done"}]
    /\ runs \in [RequestIds -> Nat]
    /\ early \subseteq RequestIds

\* A wait is asked for once: while its frame is on the way it has no worker, and it is
\* in the inbox at one place only.
WaitsOnce ==
    /\ \A j \in 1..Len(inbox) :
           inbox[j].kind = "wait" =>
               inbox[j].id \in sentFrames.waits /\ worker[inbox[j].id] = "none"
    /\ \A j, k \in 1..Len(inbox) :
           inbox[j].kind = "wait" /\ inbox[k].kind = "wait" /\ inbox[j].id = inbox[k].id => j = k
    /\ \A i \in WaitIds : worker[i] # "none" => i \in sentFrames.waits

\* What keeps a cancelled request from running: for a call its record, for a wait the
\* cancelled token until its worker is done.
Barred(i) ==
    /\ i \in CallIds => track[i] # "none"
    /\ i \in WaitIds => token[i] = "cancelled" \/ worker[i] = "done"

CancelInv ==
    /\ \A i \in RequestIds : token[i] = "live" => runs[i] > 0
    /\ \A i \in CallIds : token[i] # "none" => track[i] # "none"
    /\ \A i \in RequestIds : track[i] = "cancelled_queued" => Barred(i)
    /\ \A i \in early : runs[i] = 0 /\ Barred(i)

RequestInv == RequestType /\ WaitsOnce /\ CancelInv

\* A frame that is read was sent, and the others move up.
LEMMA FrameRead ==
  ASSUME RequestType, inbox # <<>>, inbox' = Tail(inbox)
  PROVE  /\ Head(inbox) = inbox[1] /\ 1 \in 1..Len(inbox) /\ inbox[1] \in Frames
         /\ inbox' \in Seq(Frames)
         /\ \A j \in 1..Len(inbox') : j + 1 \in 1..Len(inbox) /\ inbox'[j] = inbox[j + 1]
  BY DEF RequestType

\* The frames a client may send are the kinds the connection knows.
LEMMA FrameKinds ==
  ASSUME NEW f \in Frames
  PROVE  /\ f.kind = "call" => f.id \in CallIds
         /\ f.kind = "wait" => f.id \in WaitIds
         /\ f.kind = "cancel" => f.id \in RequestIds
  BY DEF Frames

\* Reading a frame that is not a wait, and steps of workers, keep WaitsOnce.
LEMMA WaitsKept ==
  ASSUME RequestType, WaitsOnce, UNCHANGED sentFrames,
         inbox' = inbox \/ (inbox # <<>> /\ inbox' = Tail(inbox)),
         \A i \in WaitIds : worker'[i] = "none" <=> worker[i] = "none"
  PROVE  inbox' \in Seq(Frames) /\ WaitsOnce'
  <1>1. CASE inbox' = inbox
    <2>1. \A j \in 1..Len(inbox) : inbox[j].kind = "wait" => inbox[j].id \in WaitIds
      BY FrameKinds DEF RequestType
    <2> QED
      BY <1>1, <2>1 DEF RequestType, WaitsOnce
  <1>2. CASE inbox # <<>> /\ inbox' = Tail(inbox)
    <2>1. /\ inbox' \in Seq(Frames)
          /\ \A j \in 1..Len(inbox') : j + 1 \in 1..Len(inbox) /\ inbox'[j] = inbox[j + 1]
      BY <1>2, FrameRead
    <2>2. \A j \in 1..Len(inbox') : inbox'[j] \in Frames
      BY <2>1
    <2>3. \A j \in 1..Len(inbox') :
             inbox'[j].kind = "wait" =>
                 inbox'[j].id \in sentFrames'.waits /\ worker'[inbox'[j].id] = "none"
      BY <2>1, <2>2, FrameKinds DEF WaitsOnce
    <2>4. \A j, k \in 1..Len(inbox') :
             inbox'[j].kind = "wait" /\ inbox'[k].kind = "wait" /\ inbox'[j].id = inbox'[k].id
                 => j = k
      <3> SUFFICES ASSUME NEW j \in 1..Len(inbox'), NEW k \in 1..Len(inbox'),
                          inbox'[j].kind = "wait", inbox'[k].kind = "wait",
                          inbox'[j].id = inbox'[k].id
                   PROVE  j = k
        OBVIOUS
      <3>1. j + 1 = k + 1
        BY <2>1 DEF WaitsOnce
      <3>2. j \in Int /\ k \in Int
        OBVIOUS
      <3> QED
        BY <3>1, <3>2
    <2>5. \A i \in WaitIds : worker'[i] # "none" => i \in sentFrames'.waits
      BY DEF WaitsOnce
    <2> QED
      BY <2>1, <2>3, <2>4, <2>5 DEF WaitsOnce
  <1> QED
    BY <1>1, <1>2

\* The client only sends waits it did not send before.
LEMMA SendSteps ==
  ASSUME RequestInv, ClientSends PROVE RequestInv'
  <1>1. PICK f \in Frames : SendFrame(f) /\ (f.kind = "wait" => f.id \notin sentFrames.waits)
    <2> DEFINE Sent(f) == f \in Frames /\ (f.kind = "wait" => f.id \notin sentFrames.waits)
    <2>1. \A k \in {"hello", "eof", "bad"} : Sent([kind |-> k])
      BY DEF Frames
    <2>2. \A i \in CallIds : Sent([kind |-> "call", id |-> i])
      BY DEF Frames
    <2>3. \A i \in WaitIds \ sentFrames.waits : Sent([kind |-> "wait", id |-> i])
      BY DEF Frames
    <2>4. \A i \in RequestIds : Sent([kind |-> "cancel", id |-> i])
      BY DEF Frames
    <2>5. \E f : Sent(f) /\ SendFrame(f)
      <3> HIDE DEF Sent
      <3> QED
        BY <2>1, <2>2, <2>3, <2>4, Zenon DEF ClientSends
    <2> QED
      BY <2>5
  <1>2. /\ inbox' = Append(inbox, f) /\ inbox' \in Seq(Frames)
        /\ Len(inbox') = Len(inbox) + 1 /\ inbox'[Len(inbox) + 1] = f
        /\ \A j \in 1..Len(inbox) : inbox'[j] = inbox[j]
    BY <1>1 DEF SendFrame, RequestInv, RequestType
  <1>3. UNCHANGED <<conn, track, token, worker, runs, confirmed, early>>
    BY <1>1 DEF SendFrame
  <1>4. /\ sentFrames'.n \in Nat
        /\ sentFrames'.waits = sentFrames.waits \cup (IF f.kind = "wait" THEN {f.id} ELSE {})
    BY <1>1 DEF SendFrame, RequestInv, RequestType
  <1>5. RequestType'
    BY <1>2, <1>3, <1>4, FrameKinds DEF RequestInv, RequestType
  <1>6. WaitsOnce'
    <2>1. ASSUME f.kind = "wait" PROVE f.id \in WaitIds /\ worker[f.id] = "none"
      BY <1>1, <2>1, FrameKinds DEF RequestInv, WaitsOnce
    <2>2. Len(inbox) \in Nat /\ \A j \in 1..Len(inbox') : j \in 1..Len(inbox) \/ j = Len(inbox) + 1
      BY <1>2 DEF RequestInv, RequestType
    <2>3. \A j \in 1..Len(inbox') :
             inbox'[j].kind = "wait" =>
                 inbox'[j].id \in sentFrames'.waits /\ worker'[inbox'[j].id] = "none"
      BY <1>2, <1>3, <1>4, <2>1, <2>2 DEF RequestInv, WaitsOnce
    <2>4. \A j, k \in 1..Len(inbox') :
             inbox'[j].kind = "wait" /\ inbox'[k].kind = "wait" /\ inbox'[j].id = inbox'[k].id
                 => j = k
      BY <1>1, <1>2, <2>2 DEF RequestInv, WaitsOnce
    <2> QED
      BY <1>3, <1>4, <2>3, <2>4 DEF RequestInv, WaitsOnce
  <1>7. CancelInv'
    BY <1>3 DEF RequestInv, CancelInv, Barred
  <1> QED
    BY <1>5, <1>6, <1>7 DEF RequestInv

\* The cancellation of all tokens bars nothing less than before.
LEMMA AllCancelledKeeps ==
  ASSUME RequestInv, token' = AllCancelled,
         UNCHANGED <<track, worker, runs, early>>
  PROVE  CancelInv' /\ token' \in [RequestIds -> {"none", "live", "cancelled"}]
  <1>1. token' \in [RequestIds -> {"none", "live", "cancelled"}]
    BY DEF AllCancelled
  <1>2. \A i \in RequestIds :
           /\ token'[i] # "live" /\ (token'[i] = "none" <=> token[i] = "none")
           /\ token[i] = "cancelled" => token'[i] = "cancelled"
    BY DEF AllCancelled
  <1> QED
    BY <1>1, <1>2 DEF RequestInv, RequestType, CancelInv, Barred, RequestIds

\* The thread of the connection.
LEMMA ConnectionSteps ==
  ASSUME RequestInv, HandleHello \/ CancelAll \/ CloseSession PROVE RequestInv'
  <1>1. /\ inbox' = inbox \/ (inbox # <<>> /\ inbox' = Tail(inbox))
        /\ UNCHANGED <<sentFrames, track, worker, runs, confirmed, early>>
        /\ token' = token \/ token' = AllCancelled
    BY DEF HandleHello, CancelAll, CloseSession, Reads
  <1>2. inbox' \in Seq(Frames) /\ WaitsOnce'
    BY <1>1, WaitsKept DEF RequestInv
  <1>3. CancelInv' /\ token' \in [RequestIds -> {"none", "live", "cancelled"}]
    <2>1. CASE token' = token
      BY <1>1, <2>1 DEF RequestInv, RequestType, CancelInv, Barred
    <2> QED
      BY <1>1, <2>1, AllCancelledKeeps
  <1> QED
    BY <1>1, <1>2, <1>3 DEF RequestInv, RequestType

\* A call runs only with a fresh record, which it then fills.
LEMMA CallStep ==
  ASSUME RequestInv, HandleCall PROVE RequestInv'
  <1>1. /\ inbox # <<>> /\ inbox' = Tail(inbox) /\ Head(inbox).kind = "call"
        /\ UNCHANGED <<sentFrames, worker, early>>
    BY DEF HandleCall, Reads
  <1>2. inbox' \in Seq(Frames) /\ WaitsOnce'
    BY <1>1, WaitsKept DEF RequestInv
  <1>3. PICK i : i = Head(inbox).id
    OBVIOUS
  <1>4. i \in CallIds /\ i \in RequestIds /\ i \notin WaitIds
    BY <1>1, <1>3, FrameRead, FrameKinds, RequestAssumption DEF RequestInv, RequestIds
  <1>5. CASE /\ track[i] = "none"
             /\ track' = [track EXCEPT ![i] = "completed"]
             /\ runs' = [runs EXCEPT ![i] = @ + 1] \/ runs' = runs
             /\ token' = [token EXCEPT ![i] = "none"]
    <2>1. i \notin early
      BY <1>4, <1>5 DEF RequestInv, CancelInv, Barred
    <2>2. /\ \A k \in RequestIds : k # i => /\ track'[k] = track[k] /\ token'[k] = token[k]
                                           /\ runs'[k] = runs[k]
          /\ track'[i] = "completed" /\ token'[i] = "none"
      BY <1>4, <1>5 DEF RequestInv, RequestType
    <2>3. /\ track' \in [RequestIds -> {"none", "completed", "cancelled_queued"}]
          /\ token' \in [RequestIds -> {"none", "live", "cancelled"}]
          /\ runs' \in [RequestIds -> Nat]
      BY <1>4, <1>5 DEF RequestInv, RequestType
    <2>4. CancelInv'
      <3>1. \A k \in RequestIds : k # i => Barred(k)' = Barred(k)
        BY <1>1, <2>2 DEF Barred
      <3>2. Barred(i)'
        BY <1>4, <2>2 DEF Barred
      <3>3. \A k \in CallIds : k \in RequestIds
        BY DEF RequestIds
      <3>4. early \subseteq RequestIds /\ early' = early
        BY <1>1 DEF RequestInv, RequestType
      <3>5. CancelInv
        BY DEF RequestInv
      <3>6. \A k \in RequestIds : token'[k] = "live" => runs'[k] > 0
        BY <2>2, <3>5 DEF CancelInv
      <3>7. \A k \in CallIds : token'[k] # "none" => track'[k] # "none"
        BY <2>2, <3>3, <3>5 DEF CancelInv
      <3>8. \A k \in RequestIds : track'[k] = "cancelled_queued" => Barred(k)'
        BY <2>2, <3>1, <3>2, <3>5 DEF CancelInv
      <3>9. \A k \in early : runs'[k] = 0 /\ Barred(k)'
        BY <2>1, <2>2, <3>1, <3>4, <3>5 DEF CancelInv
      <3> QED
        BY <3>4, <3>6, <3>7, <3>8, <3>9 DEF CancelInv
    <2> QED
      BY <1>1, <1>2, <2>3, <2>4 DEF RequestInv, RequestType
  <1>6. CASE UNCHANGED <<track, runs, token>>
    BY <1>1, <1>2, <1>6 DEF RequestInv, RequestType, CancelInv, Barred
  <1> QED
    BY <1>3, <1>5, <1>6 DEF HandleCall, Executed

\* A worker is forked for a wait that had none.
LEMMA ForkStep ==
  ASSUME RequestInv, ForkWait PROVE RequestInv'
  <1>1. /\ inbox # <<>> /\ inbox' = Tail(inbox) /\ Head(inbox).kind = "wait"
        /\ UNCHANGED <<sentFrames, track, token, runs, early>>
    BY DEF ForkWait, Reads
  <1>2. PICK i : i = Head(inbox).id
    OBVIOUS
  <1>3. i = inbox[1].id /\ inbox[1].kind = "wait" /\ i \in WaitIds
    BY <1>1, <1>2, FrameRead, FrameKinds DEF RequestInv
  <1>4. worker[i] = "none" /\ i \in sentFrames.waits
    BY <1>1, <1>3, FrameRead DEF RequestInv, WaitsOnce
  <1>5. /\ worker' \in [WaitIds -> {"none", "forked", "unbound", "waiting", "done"}]
        /\ \A k \in WaitIds : k # i => worker'[k] = worker[k]
    BY <1>2, <1>3 DEF ForkWait, RequestInv, RequestType
  <1>6. WaitsOnce' /\ inbox' \in Seq(Frames)
    <2>1. /\ inbox' \in Seq(Frames)
          /\ \A j \in 1..Len(inbox') : j + 1 \in 1..Len(inbox) /\ inbox'[j] = inbox[j + 1]
          /\ 1 \in 1..Len(inbox)
      BY <1>1, FrameRead DEF RequestInv
    <2>2. \A j \in 1..Len(inbox') : inbox'[j] \in Frames
      BY <2>1
    <2>3. \A j \in 1..Len(inbox') : inbox'[j].kind = "wait" => inbox'[j].id # i
      <3> SUFFICES ASSUME NEW j \in 1..Len(inbox'), inbox'[j].kind = "wait", inbox'[j].id = i
                   PROVE  FALSE
        OBVIOUS
      <3>1. j + 1 = 1
        BY <1>3, <2>1 DEF RequestInv, WaitsOnce
      <3>2. j \in Nat \ {0}
        BY <2>1
      <3> QED
        BY <3>1, <3>2
    <2>4. \A j \in 1..Len(inbox') :
             inbox'[j].kind = "wait" =>
                 inbox'[j].id \in sentFrames'.waits /\ worker'[inbox'[j].id] = "none"
      BY <1>1, <1>5, <2>1, <2>2, <2>3, FrameKinds DEF RequestInv, WaitsOnce
    <2>5. \A j, k \in 1..Len(inbox') :
             inbox'[j].kind = "wait" /\ inbox'[k].kind = "wait" /\ inbox'[j].id = inbox'[k].id
                 => j = k
      <3> SUFFICES ASSUME NEW j \in 1..Len(inbox'), NEW k \in 1..Len(inbox'),
                          inbox'[j].kind = "wait", inbox'[k].kind = "wait",
                          inbox'[j].id = inbox'[k].id
                   PROVE  j = k
        OBVIOUS
      <3>1. j + 1 = k + 1
        BY <2>1 DEF RequestInv, WaitsOnce
      <3>2. j \in Int /\ k \in Int
        OBVIOUS
      <3> QED
        BY <3>1, <3>2
    <2>6. \A k \in WaitIds : worker'[k] # "none" => k \in sentFrames'.waits
      BY <1>1, <1>4, <1>5 DEF RequestInv, WaitsOnce
    <2> QED
      BY <2>1, <2>4, <2>5, <2>6 DEF WaitsOnce
  <1>7. \A k \in RequestIds : Barred(k) => Barred(k)'
    BY <1>1, <1>4, <1>5 DEF Barred
  <1>8. CancelInv'
    BY <1>1, <1>7 DEF RequestInv, RequestType, CancelInv
  <1> QED
    BY <1>1, <1>5, <1>6, <1>8 DEF RequestInv, RequestType

\* A cancel that is answered bars its request.
LEMMA CancelStep ==
  ASSUME RequestInv, HandleCancel PROVE RequestInv'
  <1>1. /\ inbox # <<>> /\ inbox' = Tail(inbox) /\ Head(inbox).kind = "cancel"
        /\ UNCHANGED <<sentFrames, worker, runs>>
    BY DEF HandleCancel, Reads
  <1>2. inbox' \in Seq(Frames) /\ WaitsOnce'
    BY <1>1, WaitsKept DEF RequestInv
  <1>3. PICK i : i = Head(inbox).id
    OBVIOUS
  <1>4. i \in RequestIds
    BY <1>1, <1>3, FrameRead, FrameKinds DEF RequestInv
  <1>5. \/ token[i] # "none" /\ CancelToken(i)
        \/ token[i] = "none" /\ CancelTracked(i)
    BY <1>3 DEF HandleCancel
  <1>6. CASE UNCHANGED <<early, token, track>>
    BY <1>1, <1>2, <1>6 DEF RequestInv, RequestType, CancelInv, Barred
  <1>7. CASE track[i] = "cancelled_queued" /\ Acknowledge(i) /\ UNCHANGED <<token, track>>
    <2>1. early' \subseteq early \cup {i} /\ (i \in early' => i \in early \/ runs[i] = 0)
      BY <1>7 DEF Acknowledge
    <2> QED
      BY <1>1, <1>2, <1>4, <1>7, <2>1 DEF RequestInv, RequestType, CancelInv, Barred
  <1>8. CASE /\ Acknowledge(i) /\ token' = [token EXCEPT ![i] = "cancelled"]
             /\ \/ track' = track /\ token[i] # "none"
                \/ track' = [track EXCEPT ![i] = "cancelled_queued"]
    <2>1. early' \subseteq early \cup {i} /\ (i \in early' => i \in early \/ runs[i] = 0)
      BY <1>8 DEF Acknowledge
    <2>2. /\ token' \in [RequestIds -> {"none", "live", "cancelled"}]
          /\ track' \in [RequestIds -> {"none", "completed", "cancelled_queued"}]
      BY <1>4, <1>8 DEF RequestInv, RequestType
    <2>3. /\ token'[i] = "cancelled"
          /\ \A k \in RequestIds : k # i => token'[k] = token[k] /\ track'[k] = track[k]
      BY <1>4, <1>8 DEF RequestInv, RequestType
    <2>4. i \in CallIds => track'[i] # "none"
      BY <1>4, <1>8 DEF RequestInv, RequestType, CancelInv
    <2>5. Barred(i)' /\ \A k \in RequestIds : k # i => (Barred(k)' <=> Barred(k))
      BY <1>1, <2>3, <2>4 DEF Barred
    <2>6. CancelInv'
      BY <1>1, <1>4, <2>1, <2>3, <2>4, <2>5 DEF RequestInv, RequestType, CancelInv, RequestIds
    <2> QED
      BY <1>1, <1>2, <1>4, <2>1, <2>2, <2>6 DEF RequestInv, RequestType
  <1> QED
    BY <1>5, <1>6, <1>7, <1>8 DEF CancelToken, CancelTracked

\* The workers: a cancelled token ends the worker before it runs.
LEMMA WorkerSteps ==
  ASSUME RequestInv, NEW i \in WaitIds, WorkerBegins(i) \/ WorkerPolls(i) PROVE RequestInv'
  <1>1. /\ worker[i] # "none" /\ UNCHANGED <<inbox, sentFrames, track, early>>
        /\ i \in RequestIds /\ i \notin CallIds
    BY RequestAssumption DEF WorkerBegins, WorkerPolls, RequestIds
  <1>2. CASE WorkerEnds(i) /\ UNCHANGED runs
    <2>1. /\ worker'[i] = "done" /\ token'[i] = "none"
          /\ \A k \in WaitIds : k # i => worker'[k] = worker[k]
          /\ \A k \in RequestIds : k # i => token'[k] = token[k]
          /\ token' \in [RequestIds -> {"none", "live", "cancelled"}]
          /\ worker' \in [WaitIds -> {"none", "forked", "unbound", "waiting", "done"}]
      BY <1>1, <1>2 DEF WorkerEnds, RequestInv, RequestType
    <2>2. inbox' \in Seq(Frames) /\ WaitsOnce'
      BY <1>1, <2>1, WaitsKept DEF RequestInv
    <2>3. \A k \in RequestIds : Barred(k) => Barred(k)'
      BY <1>1, <2>1 DEF Barred
    <2>4. CancelInv'
      BY <1>1, <1>2, <2>1, <2>3 DEF RequestInv, RequestType, CancelInv, RequestIds
    <2> QED
      BY <1>1, <1>2, <2>1, <2>2, <2>4 DEF RequestInv, RequestType
  <1>3. CASE /\ token[i] # "cancelled" /\ worker[i] \in {"forked", "unbound"}
             /\ token' = [token EXCEPT ![i] = "live"]
             /\ worker' = [worker EXCEPT ![i] = "waiting"] /\ Executed(i)
    <2>1. /\ worker'[i] = "waiting" /\ token'[i] = "live" /\ runs'[i] > 0
          /\ \A k \in WaitIds : k # i => worker'[k] = worker[k]
          /\ \A k \in RequestIds : k # i => token'[k] = token[k] /\ runs'[k] = runs[k]
          /\ token' \in [RequestIds -> {"none", "live", "cancelled"}]
          /\ worker' \in [WaitIds -> {"none", "forked", "unbound", "waiting", "done"}]
          /\ runs' \in [RequestIds -> Nat]
      BY <1>1, <1>3 DEF Executed, RequestInv, RequestType
    <2>2. inbox' \in Seq(Frames) /\ WaitsOnce'
      BY <1>1, <2>1, WaitsKept DEF RequestInv
    <2>3. ~Barred(i) /\ \A k \in RequestIds : k # i /\ Barred(k) => Barred(k)'
      BY <1>1, <1>3, <2>1 DEF Barred
    <2>4. CancelInv'
      BY <1>1, <2>1, <2>3 DEF RequestInv, RequestType, CancelInv, RequestIds
    <2> QED
      BY <1>1, <2>1, <2>2, <2>4 DEF RequestInv, RequestType
  <1>4. CASE UNCHANGED <<worker, token, runs>>
    BY <1>1, <1>4 DEF RequestInv, RequestType, WaitsOnce, CancelInv, Barred
  <1> QED
    BY <1>2, <1>3, <1>4 DEF WorkerBegins, WorkerPolls

\* The invariant holds in every reachable state.
THEOREM RequestSafety == RequestSpec => []RequestInv
  <1>1. RequestInit => RequestInv
    BY DEF RequestInit, RequestInv, RequestType, WaitsOnce, CancelInv, Barred, RequestIds
  <1>2. RequestInv /\ [RequestNext]_requestVars => RequestInv'
    <2> SUFFICES ASSUME RequestInv, [RequestNext]_requestVars PROVE RequestInv'
      OBVIOUS
    <2>1. CASE UNCHANGED requestVars
      BY <2>1 DEF requestVars, RequestInv, RequestType, WaitsOnce, CancelInv, Barred
    <2> QED
      BY <2>1, SendSteps, ConnectionSteps, CallStep, ForkStep, CancelStep, WorkerSteps
         DEF RequestNext
  <1> QED
    BY <1>1, <1>2, PTL DEF RequestSpec

\* A cancel that is answered with "cancelled" before the request ran keeps it from ever
\* running, for any number of calls, waits and frames and any size of the record.
THEOREM CancelledRequestsNeverRun == RequestSpec => []CancelledNeverRuns
  <1>1. RequestInv => CancelledNeverRuns
    BY DEF RequestInv, CancelInv, CancelledNeverRuns
  <1> QED
    BY <1>1, RequestSafety, PTL

-----------------------------------------------------------------------------
(* The processes over a state directory.                                       *)

Places ==
    {"off", "create", "write", "examine", "remove", "load", "check", "persist", "forward",
     "handshake", "local", "publish", "serve", "shim", "proxy", "leaving", "gone"}
Unopened == {"off", "create", "write", "examine", "remove", "load"}
Opened == {"forward", "handshake", "local", "publish", "serve"}
Things == {"local", "localPath", "forward", "forwardPath", "endpoint", "lock"}

\* What is dropped before the lock, and that the lock is dropped once.
Keeps(s) == \E j \in 1..Len(s) : s[j] = "lock"
Orderly(s) ==
    /\ \A i \in 1..Len(s) :
           s[i] \in {"local", "localPath", "endpoint"} =>
               \E j \in 1..Len(s) : i < j /\ s[j] = "lock"
    /\ \A i, j \in 1..Len(s) : s[i] = "lock" /\ s[j] = "lock" => i = j

\* From the token in the lock file to the drop of the lock a process owns the directory.
Owns(h) ==
    \/ pc[h] \in {"load", "check", "persist"} \cup Opened
    \/ pc[h] = "leaving" /\ Keeps(cleanup[h])

HostType ==
    /\ pc \in [Hosts -> Places]
    /\ cleanup \in [Hosts -> Seq(Things)] /\ \A h \in Hosts : Orderly(cleanup[h])
    /\ lock = NoLock \/ (lock \in [owner : Hosts, written : BOOLEAN] /\ pc[lock.owner] # "off")

\* One owner, whose lock it is; one recovery, of a lock whose owner is gone.
LockInv ==
    /\ HostType
    /\ \A h \in Hosts : pc[h] = "write" => lock = [owner |-> h, written |-> FALSE]
    /\ \A h \in Hosts : Owns(h) => lock = [owner |-> h, written |-> TRUE]
    /\ \A h \in Hosts :
           pc[h] = "remove" => lock # NoLock /\ lock.written /\ pc[lock.owner] = "gone"
    /\ \A g, h \in Hosts : pc[g] = "remove" /\ pc[h] = "remove" => g = h

\* A state of the ledger, of which only the shape matters here.
IsState(s) == s = [epoch |-> s.epoch, updates |-> s.updates]

\* A new set of updates changes nothing else of a state.
LEMMA WithUpdates ==
  ASSUME NEW s, IsState(s), NEW u
  PROVE  [s EXCEPT !.updates = u] = [epoch |-> s.epoch, updates |-> u]
  <1>1. PICK e, v : s = [epoch |-> e, updates |-> v]
    BY DEF IsState
  <1>2. s.epoch = e
    BY <1>1
  <1> QED
    BY <1>1, <1>2

\* Updating(h): an update is under way in a process whose ledger is open.
Updating(h) == pc[h] \in {"check", "persist"} /\ memory[h] # NoState

\* What was acknowledged is in the file, in the state of the owner and in what it is
\* about to write.
DurableInv ==
    /\ memory = [h \in Hosts |-> memory[h]] /\ draft = [h \in Hosts |-> draft[h]]
    /\ IsState(disk) /\ \A h \in Hosts : IsState(memory[h]) /\ IsState(draft[h])
    /\ acked \subseteq disk.updates
    /\ \A h \in Hosts : pc[h] \in {"check", "persist"} => acked \subseteq draft[h].updates
    /\ \A h \in Hosts : pc[h] \in Opened \/ Updating(h) => acked \subseteq memory[h].updates
    /\ \A h \in Hosts : pc[h] \in Unopened => memory[h] = NoState

\* A process that has bound its local socket still has it; one that serves is published.
ReachInv ==
    /\ listening \in [Hosts -> SUBSET {"local", "forward"}]
    /\ \A h \in Hosts :
           /\ pc[h] \in {"publish", "serve"} \/ Updating(h) => ("local" \in listening[h] => local = h)
           /\ pc[h] = "serve" \/ Updating(h) => endpoint = h

\* The orders in which a process drops what it holds.
LEMMA Holdings ==
  /\ \A s \in {<<"lock">>, <<"forward", "lock">>, <<"lock", "forward">>} :
         s \in Seq(Things) /\ Orderly(s)
  /\ <<"local", "lock", "forward">> \in Seq(Things) /\ Orderly(<<"local", "lock", "forward">>)
  /\ <<"local", "forward", "endpoint", "lock">> \in Seq(Things)
  /\ Orderly(<<"local", "forward", "endpoint", "lock">>)
  <1>1. <<"lock">> \in Seq(Things) /\ Orderly(<<"lock">>)
    BY DEF Things, Orderly
  <1>2. <<"forward", "lock">> \in Seq(Things) /\ Orderly(<<"forward", "lock">>)
    BY DEF Things, Orderly
  <1>3. <<"lock", "forward">> \in Seq(Things) /\ Orderly(<<"lock", "forward">>)
    BY DEF Things, Orderly
  <1>4. <<"local", "lock", "forward">> \in Seq(Things) /\ Orderly(<<"local", "lock", "forward">>)
    BY DEF Things, Orderly
  <1>5. /\ <<"local", "forward", "endpoint", "lock">> \in Seq(Things)
        /\ Orderly(<<"local", "forward", "endpoint", "lock">>)
    BY DEF Things, Orderly
  <1> QED
    BY <1>1, <1>2, <1>3, <1>4, <1>5

\* What is left after the first drop; the lock is there until it is dropped itself, and
\* it is there while a socket path or the endpoint file still has to go.
LEMMA AfterDrop ==
  ASSUME NEW s \in Seq(Things), s # <<>>, Orderly(s)
  PROVE  /\ Tail(s) \in Seq(Things) /\ Orderly(Tail(s))
         /\ Head(s) # "lock" => (Keeps(Tail(s)) <=> Keeps(s))
         /\ Head(s) = "lock" => Keeps(s) /\ ~Keeps(Tail(s))
         /\ Head(s) \in {"local", "localPath", "endpoint"} => Keeps(Tail(s))
  <1>1. /\ Tail(s) \in Seq(Things) /\ Len(s) \in Nat \ {0} /\ Len(Tail(s)) = Len(s) - 1
        /\ Head(s) = s[1]
        /\ \A i \in 1..Len(Tail(s)) : i + 1 \in 1..Len(s) /\ Tail(s)[i] = s[i + 1]
    OBVIOUS
  <1>2. \A j \in 1..Len(s) : j # 1 => j - 1 \in 1..Len(Tail(s)) /\ Tail(s)[j - 1] = s[j]
    BY <1>1
  <1>3. Orderly(Tail(s))
    <2>1. ASSUME NEW i \in 1..Len(Tail(s)), Tail(s)[i] \in {"local", "localPath", "endpoint"}
          PROVE  \E j \in 1..Len(Tail(s)) : i < j /\ Tail(s)[j] = "lock"
      <3>1. PICK j \in 1..Len(s) : i + 1 < j /\ s[j] = "lock"
        BY <1>1, <2>1 DEF Orderly
      <3>2. i < j - 1 /\ j # 1
        BY <1>1, <3>1
      <3> QED
        BY <1>2, <3>1, <3>2
    <2>2. ASSUME NEW i \in 1..Len(Tail(s)), NEW j \in 1..Len(Tail(s)),
                 Tail(s)[i] = "lock", Tail(s)[j] = "lock"
          PROVE  i = j
      <3>1. i + 1 = j + 1
        BY <1>1, <2>2 DEF Orderly
      <3> QED
        BY <1>1, <3>1
    <2> QED
      BY <2>1, <2>2 DEF Orderly
  <1>4. Keeps(Tail(s)) => Keeps(s)
    BY <1>1 DEF Keeps
  <1>5. Head(s) # "lock" /\ Keeps(s) => Keeps(Tail(s))
    BY <1>1, <1>2 DEF Keeps
  <1>6. Head(s) = "lock" => Keeps(s)
    BY <1>1 DEF Keeps
  <1>7. ASSUME Head(s) = "lock", Keeps(Tail(s)) PROVE FALSE
    <2>1. PICK i \in 1..Len(Tail(s)) : Tail(s)[i] = "lock"
      BY <1>7 DEF Keeps
    <2>2. i + 1 = 1
      BY <1>1, <1>7, <2>1 DEF Orderly
    <2> QED
      BY <1>1, <2>2
  <1>8. ASSUME Head(s) \in {"local", "localPath", "endpoint"} PROVE Keeps(Tail(s))
    <2>1. PICK j \in 1..Len(s) : 1 < j /\ s[j] = "lock"
      BY <1>1, <1>8 DEF Orderly
    <2> QED
      BY <1>2, <2>1 DEF Keeps
  <1> QED
    BY <1>1, <1>3, <1>4, <1>5, <1>6, <1>7, <1>8

\* A server that is stopped leaves the removal of its path to do.
LEMMA AfterStop ==
  ASSUME NEW s \in Seq(Things), Orderly(s), NEW x \in {"localPath", "forwardPath"},
         x = "localPath" => Keeps(s)
  PROVE  <<x>> \o s \in Seq(Things) /\ Orderly(<<x>> \o s) /\ (Keeps(<<x>> \o s) <=> Keeps(s))
  <1> DEFINE t == <<x>> \o s
  <1>1. /\ t \in Seq(Things) /\ Len(s) \in Nat /\ Len(t) = Len(s) + 1 /\ t[1] = x
        /\ \A i \in 1..Len(s) : i + 1 \in 1..Len(t) /\ t[i + 1] = s[i]
    BY DEF Things
  <1> HIDE DEF t
  <1>2. \A j \in 1..Len(t) : j # 1 => j - 1 \in 1..Len(s) /\ t[j] = s[j - 1]
    BY <1>1
  <1>3. Keeps(s) => Keeps(t)
    BY <1>1 DEF Keeps
  <1>4. Keeps(t) => Keeps(s)
    BY <1>1, <1>2 DEF Keeps
  <1>5. ASSUME NEW i \in 1..Len(t), t[i] \in {"local", "localPath", "endpoint"}
        PROVE  \E j \in 1..Len(t) : i < j /\ t[j] = "lock"
    <2>1. CASE i = 1
      <3>1. PICK j \in 1..Len(s) : s[j] = "lock"
        BY <1>1, <1>5, <2>1 DEF Keeps
      <3> QED
        BY <1>1, <2>1, <3>1
    <2>2. CASE i # 1
      <3>1. PICK j \in 1..Len(s) : i - 1 < j /\ s[j] = "lock"
        BY <1>2, <1>5, <2>2 DEF Orderly
      <3>2. i < j + 1
        BY <1>1, <3>1
      <3> QED
        BY <1>1, <3>1, <3>2
    <2> QED
      BY <2>1, <2>2
  <1>6. ASSUME NEW i \in 1..Len(t), NEW j \in 1..Len(t), t[i] = "lock", t[j] = "lock"
        PROVE  i = j
    <2>1. i # 1 /\ j # 1
      BY <1>1, <1>6
    <2>2. i - 1 = j - 1
      BY <1>2, <1>6, <2>1 DEF Orderly
    <2> QED
      BY <1>1, <2>2
  <1>7. Orderly(t)
    BY <1>5, <1>6 DEF Orderly
  <1> QED
    BY <1>1, <1>3, <1>4, <1>7 DEF t

-----------------------------------------------------------------------------
(* The lock.                                                                   *)

\* A step of h that leaves the lock file alone and takes h nowhere it would need it.
LEMMA QuietHost ==
  ASSUME LockInv, UNCHANGED lock, NEW h \in Hosts, NEW p, NEW s,
         pc' = [pc EXCEPT ![h] = p], cleanup' = [cleanup EXCEPT ![h] = s],
         p \in Places \ {"off", "write", "remove"}, s \in Seq(Things), Orderly(s),
         pc[h] # "gone",
         p \in {"load", "check", "persist"} \cup Opened \/ (p = "leaving" /\ Keeps(s)) => Owns(h)
  PROVE  LockInv'
  <1>1. /\ pc' \in [Hosts -> Places] /\ cleanup' \in [Hosts -> Seq(Things)]
        /\ pc'[h] = p /\ cleanup'[h] = s
        /\ \A k \in Hosts : k # h => pc'[k] = pc[k] /\ cleanup'[k] = cleanup[k]
    BY DEF LockInv, HostType
  <1>2. \A k \in Hosts : Orderly(cleanup'[k])
    BY <1>1 DEF LockInv, HostType
  <1>3. lock # NoLock => lock.owner \in Hosts /\ pc'[lock.owner] # "off"
    BY <1>1 DEF LockInv, HostType
  <1>4. HostType'
    BY <1>1, <1>2, <1>3 DEF LockInv, HostType
  <1>5. \A k \in Hosts : Owns(k)' => Owns(k)
    BY <1>1 DEF Owns
  <1>6. \A k \in Hosts : pc'[k] = "write" => pc[k] = "write"
    BY <1>1
  <1>7. \A k \in Hosts : pc'[k] = "remove" => pc[k] = "remove"
    BY <1>1
  <1>8. \A k \in Hosts : pc[k] = "gone" => pc'[k] = "gone"
    BY <1>1
  <1>9. lock # NoLock => lock.owner \in Hosts
    BY DEF LockInv, HostType
  <1> QED
    BY <1>4, <1>5, <1>6, <1>7, <1>8, <1>9 DEF LockInv

\* Goto and Leave as moves of one process.
LEMMA GotoMoves ==
  ASSUME LockInv, NEW h \in Hosts, NEW p, Goto(h, p)
  PROVE  /\ pc' = [pc EXCEPT ![h] = p] /\ cleanup' = [cleanup EXCEPT ![h] = cleanup[h]]
         /\ cleanup[h] \in Seq(Things) /\ Orderly(cleanup[h])
  BY DEF Goto, LockInv, HostType

\* The same where the lock is not touched.
LEMMA QuietGoto ==
  ASSUME LockInv, UNCHANGED lock, NEW h \in Hosts, NEW p, Goto(h, p),
         p \in Places \ {"off", "write", "remove", "leaving"}, pc[h] # "gone",
         p \in {"load", "check", "persist"} \cup Opened => Owns(h)
  PROVE  LockInv'
  <1>1. /\ pc' = [pc EXCEPT ![h] = p] /\ cleanup' = [cleanup EXCEPT ![h] = cleanup[h]]
        /\ cleanup[h] \in Seq(Things) /\ Orderly(cleanup[h])
    BY GotoMoves
  <1>2. p # "leaving" /\ p \in Places \ {"off", "write", "remove"}
    OBVIOUS
  <1> QED
    BY <1>1, <1>2, QuietHost

\* An owner that leaves.
LEMMA QuietLeave ==
  ASSUME LockInv, UNCHANGED lock, NEW h \in Hosts, NEW s, Leave(h, s), Owns(h), pc[h] # "gone",
         s \in Seq(Things), Orderly(s)
  PROVE  LockInv'
  <1>1. pc' = [pc EXCEPT ![h] = "leaving"] /\ cleanup' = [cleanup EXCEPT ![h] = s]
    BY DEF Leave
  <1>2. "leaving" \in Places \ {"off", "write", "remove"}
    BY DEF Places
  <1> QED
    BY <1>1, <1>2, QuietHost

\* A process on its way out that drops something else than the lock.
LEMMA QuietDrop ==
  ASSUME LockInv, UNCHANGED lock, NEW h \in Hosts, NEW s, pc[h] = "leaving", UNCHANGED pc,
         cleanup' = [cleanup EXCEPT ![h] = s],
         s \in Seq(Things), Orderly(s), Keeps(s) => Keeps(cleanup[h])
  PROVE  LockInv'
  <1>1. pc' = [pc EXCEPT ![h] = "leaving"]
    BY DEF LockInv, HostType
  <1>2. "leaving" \in Places \ {"off", "write", "remove"}
    BY DEF Places
  <1>3. Keeps(s) => Owns(h)
    BY DEF Owns
  <1> QED
    BY <1>1, <1>2, <1>3, QuietHost DEF Opened

\* Of the way to the lock, what leaves it alone.
LEMMA QuietStart ==
  ASSUME LockInv, NEW h \in Hosts,
         \/ StartHost(h) \/ DirectoryRefused(h) \/ ShimConnects(h) \/ ShimEnds(h)
         \/ ExamineLock(h) /\ ~Goto(h, "remove")
         \/ CreateLock(h) /\ lock # NoLock
  PROVE  LockInv'
  <1>1. PICK p \in {"create", "gone", "proxy", "shim", "examine"} :
           Goto(h, p) /\ pc[h] # "gone" /\ UNCHANGED lock
    BY DEF StartHost, DirectoryRefused, ShimConnects, ShimEnds, ExamineLock, CreateLock
  <1>2. p \in Places \ {"off", "write", "remove", "leaving"}
        /\ p \notin {"load", "check", "persist"} \cup Opened
    BY DEF Places, Opened
  <1> QED
    BY <1>1, <1>2, QuietGoto

\* The owner between the lock and the way out.
LEMMA QuietOwner ==
  ASSUME LockInv, NEW h \in Hosts,
         \/ LoadLedger(h) \/ LedgerUnreadable(h) \/ BeginUpdate(h) \/ EnsureOwner(h)
         \/ PersistLedger(h) \/ BindForward(h) \/ Handshake(h) \/ BindLocal(h)
         \/ PublishEndpoint(h) \/ LocalAcceptFails(h) \/ Supervise(h)
  PROVE  LockInv'
  <1>1. UNCHANGED lock
    BY DEF LoadLedger, LedgerUnreadable, BeginUpdate, EnsureOwner, PersistLedger, BindForward,
           Handshake, BindLocal, PublishEndpoint, LocalAcceptFails, Supervise
  <1>2. pc[h] \in {"load", "check", "persist"} \cup Opened /\ pc[h] # "gone"
    BY DEF LoadLedger, LedgerUnreadable, BeginUpdate, EnsureOwner, PersistLedger, BindForward,
           Handshake, BindLocal, PublishEndpoint, LocalAcceptFails, Supervise, Opened
  <1>3. Owns(h)
    BY <1>2 DEF Owns
  <1>4. ASSUME NEW p \in {"check", "persist", "forward", "handshake", "local", "publish", "serve"},
               Goto(h, p)
        PROVE  LockInv'
    <2>1. p \in Places \ {"off", "write", "remove", "leaving"}
      BY DEF Places
    <2> QED
      BY <1>1, <1>2, <1>3, <1>4, <2>1, QuietGoto
  <1>5. ASSUME NEW s, Leave(h, s), s \in Seq(Things), Orderly(s) PROVE LockInv'
    BY <1>1, <1>2, <1>3, <1>5, QuietLeave
  <1>6. Refused(h) => LockInv'
    BY <1>4, <1>5, Holdings DEF Refused
  <1>7. CASE LoadLedger(h) \/ BeginUpdate(h)
    BY <1>4, <1>7 DEF LoadLedger, BeginUpdate
  <1>8. CASE LedgerUnreadable(h)
    BY <1>5, <1>8, Holdings DEF LedgerUnreadable
  <1>9. CASE EnsureOwner(h) \/ PersistLedger(h)
    BY <1>4, <1>6, <1>9 DEF EnsureOwner, PersistLedger
  <1>10. CASE BindForward(h) \/ Handshake(h)
    BY <1>4, <1>5, <1>10, Holdings DEF BindForward, Handshake
  <1>11. CASE BindLocal(h) \/ PublishEndpoint(h)
    BY <1>4, <1>5, <1>11, Holdings DEF BindLocal, PublishEndpoint
  <1>12. CASE LocalAcceptFails(h)
    <2>1. Goto(h, "serve")
      BY <1>12 DEF LocalAcceptFails, Goto, LockInv, HostType
    <2> QED
      BY <1>4, <2>1
  <1>13. CASE Supervise(h)
    BY <1>5, <1>13, Holdings DEF Supervise
  <1> QED
    BY <1>7, <1>8, <1>9, <1>10, <1>11, <1>12, <1>13

\* The way out, but for the lock.
LEMMA QuietExit ==
  ASSUME LockInv, NEW h \in Hosts,
         \/ StopLocal(h) \/ RemoveLocal(h) \/ StopForward(h) \/ RemoveForward(h)
         \/ Unpublish(h) \/ ExitHost(h) \/ KillHost(h)
  PROVE  LockInv'
  <1>0. cleanup[h] \in Seq(Things) /\ Orderly(cleanup[h])
    BY DEF LockInv, HostType
  <1>1. CASE StopLocal(h) \/ RemoveLocal(h) \/ StopForward(h) \/ RemoveForward(h) \/ Unpublish(h)
    <2>1. /\ pc[h] = "leaving" /\ cleanup[h] # <<>> /\ UNCHANGED <<pc, lock>>
          /\ Head(cleanup[h]) # "lock"
      BY <1>1 DEF StopLocal, RemoveLocal, StopForward, RemoveForward, Unpublish, Dropping, Dropped
    <2>2. /\ Tail(cleanup[h]) \in Seq(Things) /\ Orderly(Tail(cleanup[h]))
          /\ Keeps(Tail(cleanup[h])) <=> Keeps(cleanup[h])
          /\ Head(cleanup[h]) \in {"local", "localPath", "endpoint"} => Keeps(Tail(cleanup[h]))
      BY <1>0, <2>1, AfterDrop
    <2>3. \/ cleanup' = [cleanup EXCEPT ![h] = Tail(cleanup[h])]
          \/ cleanup' = [cleanup EXCEPT ![h] = <<>> \o Tail(cleanup[h])]
          \/ cleanup' = [cleanup EXCEPT ![h] = <<"forwardPath">> \o Tail(cleanup[h])]
          \/ /\ cleanup' = [cleanup EXCEPT ![h] = <<"localPath">> \o Tail(cleanup[h])]
             /\ Head(cleanup[h]) = "local"
      BY <1>1, Zenon DEF StopLocal, RemoveLocal, StopForward, RemoveForward, Unpublish, Dropping, Dropped
    <2>4. <<>> \o Tail(cleanup[h]) = Tail(cleanup[h])
      BY <2>2
    <2>5. PICK s \in Seq(Things) : /\ cleanup' = [cleanup EXCEPT ![h] = s] /\ Orderly(s)
                                   /\ Keeps(s) => Keeps(cleanup[h])
      BY <2>2, <2>3, <2>4, AfterStop
    <2> QED
      BY <2>1, <2>5, QuietDrop
  <1>2. CASE ExitHost(h)
    <2>1. Goto(h, "gone") /\ pc[h] # "gone" /\ UNCHANGED lock
      BY <1>2 DEF ExitHost
    <2>2. "gone" \in Places \ {"off", "write", "remove", "leaving"}
          /\ "gone" \notin {"load", "check", "persist"} \cup Opened
      BY DEF Places, Opened
    <2> QED
      BY <2>1, <2>2, QuietGoto
  <1>3. CASE KillHost(h)
    <2>1. /\ pc' = [pc EXCEPT ![h] = "gone"] /\ cleanup' = [cleanup EXCEPT ![h] = <<>>]
          /\ pc[h] # "gone" /\ UNCHANGED lock
      BY <1>3 DEF KillHost, Alive
    <2>2. <<>> \in Seq(Things) /\ Orderly(<<>>)
      BY DEF Orderly
    <2>3. "gone" \in Places \ {"off", "write", "remove"}
          /\ "gone" \notin {"load", "check", "persist"} \cup Opened
      BY DEF Places, Opened
    <2> QED
      BY <2>1, <2>2, <2>3, QuietHost
  <1> QED
    BY <1>1, <1>2, <1>3

\* While a live process owns or makes the lock nobody else does, and nobody recovers it.
LEMMA OneOwner ==
  ASSUME LockInv, NEW h \in Hosts, lock.owner = h, pc[h] # "gone"
  PROVE  /\ \A k \in Hosts : k # h => ~Owns(k) /\ pc[k] # "write"
         /\ \A k \in Hosts : pc[k] # "remove"
  <1>1. \A k \in Hosts : Owns(k) \/ pc[k] = "write" => lock.owner = k
    BY DEF LockInv
  <1> QED
    BY <1>1 DEF LockInv

\* The file that is created is the only one.
LEMMA CreateSteps ==
  ASSUME LockInv, NEW h \in Hosts, CreateLock(h), lock = NoLock PROVE LockInv'
  <1>1. /\ pc[h] = "create" /\ lock' = [owner |-> h, written |-> FALSE]
        /\ pc' = [pc EXCEPT ![h] = "write"] /\ UNCHANGED cleanup
    BY DEF CreateLock, Goto
  <1>2. /\ pc' \in [Hosts -> Places] /\ pc'[h] = "write"
        /\ \A k \in Hosts : k # h => pc'[k] = pc[k]
    BY <1>1 DEF LockInv, HostType, Places
  <1>3. lock.owner \notin Hosts
    BY HostAssumption DEF NoLock
  <1>4. \A k \in Hosts : ~Owns(k) /\ pc[k] # "write" /\ pc[k] # "remove"
    BY <1>3 DEF LockInv
  <1>5. \A k \in Hosts : ~Owns(k)'
    BY <1>1, <1>2, <1>4 DEF Owns, Opened
  <1>6. lock' \in [owner : Hosts, written : BOOLEAN] /\ lock'.owner = h
    BY <1>1
  <1>7. HostType'
    BY <1>1, <1>2, <1>6 DEF LockInv, HostType
  <1> QED
    BY <1>1, <1>2, <1>4, <1>5, <1>7 DEF LockInv

\* Its token is written by the process that made it, or the file goes.
LEMMA WriteSteps ==
  ASSUME LockInv, NEW h \in Hosts, WriteLock(h) PROVE LockInv'
  <1>1. pc[h] = "write" /\ lock = [owner |-> h, written |-> FALSE] /\ UNCHANGED cleanup
    BY DEF WriteLock, Goto, LockInv
  <1>2. /\ \A k \in Hosts : k # h => ~Owns(k) /\ pc[k] # "write"
        /\ \A k \in Hosts : pc[k] # "remove"
    BY <1>1, OneOwner
  <1>3. CASE lock' = [owner |-> h, written |-> TRUE] /\ pc' = [pc EXCEPT ![h] = "load"]
    <2>1. /\ pc' \in [Hosts -> Places] /\ pc'[h] = "load"
          /\ \A k \in Hosts : k # h => pc'[k] = pc[k]
      BY <1>3 DEF LockInv, HostType, Places
    <2>2. \A k \in Hosts : Owns(k)' => k = h
      BY <1>1, <1>2, <2>1 DEF Owns
    <2>3. lock' \in [owner : Hosts, written : BOOLEAN] /\ lock'.owner = h
      BY <1>3
    <2>4. HostType'
      BY <1>1, <2>1, <2>3 DEF LockInv, HostType
    <2> QED
      BY <1>2, <1>3, <2>1, <2>2, <2>4 DEF LockInv
  <1>4. CASE lock' = NoLock /\ pc' = [pc EXCEPT ![h] = "gone"]
    <2>1. /\ pc' \in [Hosts -> Places] /\ pc'[h] = "gone"
          /\ \A k \in Hosts : k # h => pc'[k] = pc[k]
      BY <1>4 DEF LockInv, HostType, Places
    <2>2. \A k \in Hosts : ~Owns(k)'
      BY <1>1, <1>2, <2>1 DEF Owns, Opened
    <2>3. HostType'
      BY <1>1, <1>4, <2>1 DEF LockInv, HostType
    <2> QED
      BY <1>2, <1>4, <2>1, <2>2, <2>3 DEF LockInv
  <1>5. [lock EXCEPT !.written = TRUE] = [owner |-> h, written |-> TRUE] /\ lock.owner = h
    <2> DEFINE q == [lock EXCEPT !.written = TRUE]
    <2>1. q \in [owner : Hosts, written : BOOLEAN] /\ q.owner = h /\ q.written /\ lock.owner = h
      BY <1>1
    <2> HIDE DEF q
    <2>2. q = [owner |-> h, written |-> TRUE]
      BY <2>1
    <2> QED
      BY <2>1, <2>2 DEF q
  <1> QED
    BY <1>3, <1>4, <1>5 DEF WriteLock, Goto

\* One process at a time goes on to remove a lock, and it is a dead one's.
LEMMA ExamineSteps ==
  ASSUME MaxRecovering = 1, LockInv, NEW h \in Hosts, ExamineLock(h), Goto(h, "remove")
  PROVE  LockInv'
  <1> DEFINE Removing == {g \in Hosts : pc[g] = "remove"}
  <1>1. /\ pc[h] = "examine" /\ UNCHANGED <<lock, cleanup>>
        /\ pc' \in [Hosts -> Places] /\ pc'[h] = "remove"
        /\ \A k \in Hosts : k # h => pc'[k] = pc[k]
    BY DEF ExamineLock, Goto, LockInv, HostType, Places
  <1>2. lock # NoLock /\ StaleLockOwner(h) /\ Cardinality(Removing) < 1
    BY <1>1 DEF ExamineLock, Goto
  <1>3. Removing = {}
    <2>1. IsFiniteSet(Removing)
      BY HostAssumption, FS_Subset
    <2>2. Cardinality(Removing) \in Nat
      BY <2>1, FS_CardinalityType
    <2>3. Cardinality(Removing) = 0
      BY <1>2, <2>2
    <2> QED
      BY <2>1, <2>3, FS_EmptySet
  <1>4. lock.written /\ lock.owner \in Hosts /\ pc[lock.owner] = "gone"
    BY <1>2, HostAssumption DEF StaleLockOwner, Alive, LockInv, HostType
  <1>5. \A k \in Hosts : Owns(k)' => Owns(k)
    BY <1>1 DEF Owns, Opened
  <1>6. HostType'
    BY <1>1, <1>4 DEF LockInv, HostType
  <1>7. \A k \in Hosts : pc'[k] = "remove" => k = h
    BY <1>1, <1>3
  <1>8. pc'[lock.owner] = "gone"
    BY <1>1, <1>4
  <1> QED
    BY <1>1, <1>2, <1>4, <1>5, <1>6, <1>7, <1>8 DEF LockInv

\* The file that is removed was nobody's.
LEMMA RemoveSteps ==
  ASSUME LockInv, NEW h \in Hosts, RemoveLock(h) PROVE LockInv'
  <1>1. /\ pc[h] = "remove" /\ lock # NoLock /\ lock.written /\ pc[lock.owner] = "gone"
        /\ lock' = NoLock /\ UNCHANGED cleanup
    BY DEF RemoveLock, Goto, LockInv
  <1>2. /\ pc' \in [Hosts -> Places] /\ pc'[h] = "create"
        /\ \A k \in Hosts : k # h => pc'[k] = pc[k]
    BY <1>1 DEF RemoveLock, Goto, LockInv, HostType, Places
  <1>3. \A k \in Hosts : ~Owns(k) /\ pc[k] # "write" /\ (pc[k] = "remove" => k = h)
    <2>1. \A k \in Hosts : Owns(k) => pc[k] # "gone" /\ lock.owner = k
      BY DEF LockInv, Owns, Opened
    <2>2. \A k \in Hosts : pc[k] = "write" => lock.owner = k
      BY DEF LockInv
    <2> QED
      BY <1>1, <2>1, <2>2 DEF LockInv
  <1>4. \A k \in Hosts : ~Owns(k)'
    BY <1>1, <1>2, <1>3 DEF Owns, Opened
  <1>5. HostType'
    BY <1>1, <1>2 DEF LockInv, HostType
  <1> QED
    BY <1>1, <1>2, <1>3, <1>4, <1>5 DEF LockInv

\* The owner drops its lock, or a thread that still holds the broker keeps it.
LEMMA DropSteps ==
  ASSUME LockInv, NEW h \in Hosts, DropLock(h) PROVE LockInv'
  <1>1. /\ pc[h] = "leaving" /\ cleanup[h] # <<>> /\ Head(cleanup[h]) = "lock"
        /\ cleanup' = [cleanup EXCEPT ![h] = Tail(cleanup[h])] /\ UNCHANGED pc
        /\ lock' = lock \/ lock' = NoLock
    BY DEF DropLock, Dropping, Dropped
  <1>2. cleanup[h] \in Seq(Things) /\ Orderly(cleanup[h])
    BY DEF LockInv, HostType
  <1>3. /\ Tail(cleanup[h]) \in Seq(Things) /\ Orderly(Tail(cleanup[h]))
        /\ Keeps(cleanup[h]) /\ ~Keeps(Tail(cleanup[h]))
    BY <1>1, <1>2, AfterDrop
  <1>4. lock = [owner |-> h, written |-> TRUE]
    BY <1>1, <1>3 DEF LockInv, Owns
  <1>5. /\ \A k \in Hosts : k # h => ~Owns(k) /\ pc[k] # "write"
        /\ \A k \in Hosts : pc[k] # "remove"
    BY <1>1, <1>4, OneOwner
  <1>6. /\ cleanup' \in [Hosts -> Seq(Things)] /\ ~Keeps(cleanup'[h]) /\ Orderly(cleanup'[h])
        /\ \A k \in Hosts : k # h => cleanup'[k] = cleanup[k]
    BY <1>1, <1>3 DEF LockInv, HostType
  <1>7. \A k \in Hosts : ~Owns(k)'
    BY <1>1, <1>5, <1>6 DEF Owns, Opened
  <1>8. HostType'
    BY <1>1, <1>6 DEF LockInv, HostType
  <1> QED
    BY <1>1, <1>5, <1>7, <1>8 DEF LockInv

\* Together: one owner, through every crash and recovery, as long as recoveries do not
\* overlap.
LEMMA LockSteps ==
  ASSUME MaxRecovering = 1, LockInv, [HostNext]_hostVars PROVE LockInv'
  <1>1. CASE UNCHANGED hostVars
    BY <1>1 DEF hostVars, LockInv, HostType, Owns
  <1>2. ASSUME NEW h \in Hosts, CreateLock(h) \/ ExamineLock(h) PROVE LockInv'
    BY <1>2, CreateSteps, ExamineSteps, QuietStart
  <1> QED
    BY <1>1, <1>2, QuietStart, QuietOwner, QuietExit, WriteSteps, RemoveSteps, DropSteps
       DEF HostNext

-----------------------------------------------------------------------------
(* The ledger file.                                                            *)

\* A step of h that leaves the ledger alone.
LEMMA LedgerFrame ==
  ASSUME DurableInv, UNCHANGED ledgerVars, NEW h \in Hosts,
         \A k \in Hosts : k # h => pc'[k] = pc[k],
         pc'[h] \in {"check", "persist"} => pc[h] \in {"check", "persist"},
         pc'[h] \in Opened => pc[h] \in Opened \/ Updating(h),
         pc'[h] \in Unopened => pc[h] \in Unopened
  PROVE  DurableInv'
  <1>1. \A k \in Hosts : pc'[k] \in {"check", "persist"} => pc[k] \in {"check", "persist"}
    OBVIOUS
  <1>2. \A k \in Hosts : pc'[k] \in Unopened => pc[k] \in Unopened
    OBVIOUS
  <1>3. UNCHANGED <<disk, memory, draft, acked>>
    BY DEF ledgerVars
  <1>4. \A k \in Hosts : pc'[k] \in Opened \/ Updating(k)' => pc[k] \in Opened \/ Updating(k)
    BY <1>3 DEF Updating
  <1> QED
    BY <1>1, <1>2, <1>3, <1>4 DEF DurableInv

\* Steps that do not read or write the ledger.
LEMMA LedgerKept ==
  ASSUME LockInv, DurableInv, NEW h \in Hosts,
         \/ StartHost(h) \/ DirectoryRefused(h) \/ CreateLock(h) \/ WriteLock(h)
         \/ ExamineLock(h) \/ RemoveLock(h) \/ LedgerUnreadable(h) \/ EnsureOwner(h)
         \/ BindForward(h) \/ Handshake(h) \/ BindLocal(h) \/ PublishEndpoint(h)
         \/ LocalAcceptFails(h) \/ ShimConnects(h) \/ ShimEnds(h) \/ Supervise(h)
         \/ StopLocal(h) \/ RemoveLocal(h) \/ StopForward(h) \/ RemoveForward(h)
         \/ Unpublish(h) \/ DropLock(h) \/ ExitHost(h) \/ KillHost(h)
  PROVE  DurableInv'
  <1>0. pc \in [Hosts -> Places]
    BY DEF LockInv, HostType
  <1>1. UNCHANGED ledgerVars
    BY DEF StartHost, DirectoryRefused, CreateLock, WriteLock, ExamineLock, RemoveLock,
           LedgerUnreadable, EnsureOwner, BindForward, Handshake, BindLocal, PublishEndpoint,
           LocalAcceptFails, ShimConnects, ShimEnds, Supervise, StopLocal, RemoveLocal,
           StopForward, RemoveForward, Unpublish, DropLock, ExitHost, KillHost
  <1>2. ASSUME NEW p, pc' = [pc EXCEPT ![h] = p],
               p \in {"check", "persist"} => pc[h] \in {"check", "persist"},
               p \in Opened => pc[h] \in Opened \/ Updating(h),
               p \in Unopened => pc[h] \in Unopened
        PROVE  DurableInv'
    <2>1. pc'[h] = p /\ \A k \in Hosts : k # h => pc'[k] = pc[k]
      BY <1>0, <1>2
    <2> QED
      BY <1>1, <1>2, <2>1, LedgerFrame
  <1>3. CASE StartHost(h) \/ DirectoryRefused(h) \/ CreateLock(h) \/ WriteLock(h)
             \/ ExamineLock(h) \/ RemoveLock(h)
    <2>1. /\ pc[h] \in Unopened
          /\ \E p \in {"create", "write", "examine", "load", "gone", "remove", "shim"} :
                 pc' = [pc EXCEPT ![h] = p]
      BY <1>3 DEF StartHost, DirectoryRefused, CreateLock, WriteLock, ExamineLock, RemoveLock,
                  Goto, Unopened
    <2> QED
      BY <1>2, <2>1 DEF Unopened, Opened
  <1>4. CASE LedgerUnreadable(h) \/ BindForward(h) \/ Handshake(h) \/ BindLocal(h)
             \/ PublishEndpoint(h) \/ Supervise(h)
    <2>1. \/ pc' = [pc EXCEPT ![h] = "leaving"]
          \/ /\ pc[h] \in Opened
             /\ \E p \in {"handshake", "local", "publish", "serve"} : pc' = [pc EXCEPT ![h] = p]
      BY <1>4 DEF LedgerUnreadable, BindForward, Handshake, BindLocal, PublishEndpoint, Supervise,
                  Goto, Leave, Opened
    <2> QED
      BY <1>2, <2>1 DEF Unopened, Opened
  <1>5. CASE EnsureOwner(h)
    <2>1. \/ pc' = [pc EXCEPT ![h] = "leaving"]
          \/ pc[h] = "check" /\ pc' = [pc EXCEPT ![h] = "persist"]
          \/ Updating(h) /\ pc' = [pc EXCEPT ![h] = "serve"]
      BY <1>5 DEF EnsureOwner, Refused, Opening, Goto, Leave, Updating
    <2> QED
      BY <1>2, <2>1 DEF Unopened, Opened
  <1>6. CASE ShimConnects(h) \/ ShimEnds(h) \/ ExitHost(h) \/ KillHost(h)
    <2>1. \E p \in {"gone", "proxy"} : pc' = [pc EXCEPT ![h] = p]
      BY <1>6 DEF ShimConnects, ShimEnds, ExitHost, KillHost, Goto
    <2> QED
      BY <1>2, <2>1 DEF Unopened, Opened
  <1>7. CASE LocalAcceptFails(h) \/ StopLocal(h) \/ RemoveLocal(h) \/ StopForward(h)
             \/ RemoveForward(h) \/ Unpublish(h) \/ DropLock(h)
    <2>1. pc' = [pc EXCEPT ![h] = pc[h]]
      BY <1>0, <1>7 DEF LocalAcceptFails, StopLocal, RemoveLocal, StopForward, RemoveForward,
                        Unpublish, DropLock, Dropped
    <2> QED
      BY <1>2, <2>1
  <1> QED
    BY <1>3, <1>4, <1>5, <1>6, <1>7

\* The opening of the ledger and the drafts of updates start from what was acknowledged.
LEMMA DraftSteps ==
  ASSUME LockInv, DurableInv, NEW h \in Hosts, LoadLedger(h) \/ BeginUpdate(h)
  PROVE  DurableInv'
  <1>0. pc \in [Hosts -> Places]
    BY DEF LockInv, HostType
  <1>1. PICK d : /\ draft' = [draft EXCEPT ![h] = d] /\ IsState(d) /\ acked \subseteq d.updates
                 /\ pc[h] = "load" \/ pc[h] = "serve"
    <2>1. CASE LoadLedger(h)
      <3> DEFINE d == [disk EXCEPT !.epoch = @ + 1]
      <3>1. d = [epoch |-> disk.epoch + 1, updates |-> disk.updates]
        BY DEF DurableInv, IsState
      <3>2. IsState(d) /\ d.updates = disk.updates
        BY <3>1 DEF IsState
      <3> QED
        BY <2>1, <3>2 DEF LoadLedger, DurableInv
    <2>2. CASE BeginUpdate(h)
      <3> DEFINE u == memory[h].updates \cup {<<h, Cardinality(memory[h].updates) + 1>>}
                 d == [memory[h] EXCEPT !.updates = u]
      <3>1. d = [epoch |-> memory[h].epoch, updates |-> u]
        BY WithUpdates DEF DurableInv
      <3>2. IsState(d) /\ d.updates = u
        BY <3>1 DEF IsState
      <3>3. pc[h] = "serve" /\ draft' = [draft EXCEPT ![h] = d]
        BY <2>2 DEF BeginUpdate
      <3>4. acked \subseteq memory[h].updates
        BY <3>3 DEF DurableInv, Opened
      <3> QED
        BY <3>2, <3>3, <3>4
    <2> QED
      BY <2>1, <2>2
  <1>2. /\ pc'[h] = "check" /\ \A k \in Hosts : k # h => pc'[k] = pc[k]
        /\ UNCHANGED <<disk, memory, acked>>
    BY <1>0 DEF LoadLedger, BeginUpdate, Goto
  <1>3. draft'[h] = d /\ \A k \in Hosts : k # h => draft'[k] = draft[k]
    BY <1>1 DEF DurableInv
  <1>4. draft' = [k \in Hosts |-> draft'[k]]
    BY <1>1 DEF DurableInv
  <1>5. \A k \in Hosts : pc'[k] \in Opened \/ Updating(k)' => pc[k] \in Opened \/ Updating(k)
    BY <1>1, <1>2 DEF DurableInv, Updating, Opened, Unopened
  <1>6. \A k \in Hosts : pc'[k] \in Unopened => pc[k] \in Unopened
    BY <1>2 DEF Unopened
  <1> QED
    BY <1>1, <1>2, <1>3, <1>4, <1>5, <1>6 DEF DurableInv

\* What is renamed over the ledger holds everything that was acknowledged, and it is the
\* owner that does it.
LEMMA PersistSteps ==
  ASSUME LockInv, DurableInv, NEW h \in Hosts, PersistLedger(h) PROVE DurableInv'
  <1>0. pc \in [Hosts -> Places]
    BY DEF LockInv, HostType
  <1>1. /\ pc[h] = "persist" /\ UNCHANGED draft
        /\ acked \subseteq draft[h].updates /\ IsState(draft[h]) /\ IsState(disk)
    BY DEF PersistLedger, DurableInv
  <1>2. \A k \in Hosts : k # h => pc[k] \notin {"check", "persist"} \cup Opened
    <2>1. Owns(h) /\ pc[h] # "gone" /\ lock.owner = h
      BY <1>1 DEF Owns, LockInv
    <2> QED
      BY <2>1, OneOwner DEF Owns
  <1>3. CASE /\ disk' = draft[h] /\ memory' = [memory EXCEPT ![h] = draft[h]]
             /\ acked' = acked \cup (draft[h].updates \ memory[h].updates)
             /\ Goto(h, IF Opening(h) THEN "forward" ELSE "serve")
    <2>1. pc'[h] \in {"forward", "serve"} /\ \A k \in Hosts : k # h => pc'[k] = pc[k]
      BY <1>0, <1>3 DEF Goto
    <2>2. /\ memory' = [k \in Hosts |-> memory'[k]] /\ memory'[h] = draft[h]
          /\ \A k \in Hosts : k # h => memory'[k] = memory[k]
      BY <1>3 DEF DurableInv
    <2>3. acked' \subseteq draft[h].updates
      BY <1>1, <1>3
    <2>4. \A k \in Hosts : k # h => pc'[k] \notin {"check", "persist"} \cup Opened
      BY <1>2, <2>1
    <2>5. pc'[h] \notin Unopened /\ pc'[h] \notin {"check", "persist"}
      BY <2>1 DEF Unopened
    <2> QED
      BY <1>1, <1>3, <2>1, <2>2, <2>3, <2>4, <2>5 DEF DurableInv, Updating
  <1>4. CASE disk' \in {disk, draft[h]} /\ Refused(h) /\ UNCHANGED <<memory, acked>>
    <2>1. /\ pc'[h] = "leaving" \/ (pc'[h] = "serve" /\ Updating(h))
          /\ \A k \in Hosts : k # h => pc'[k] = pc[k]
      BY <1>0, <1>1, <1>4 DEF Refused, Opening, Goto, Leave, Updating
    <2>2. IsState(disk)' /\ acked \subseteq disk'.updates
      BY <1>1, <1>4 DEF DurableInv, IsState
    <2>3. \A k \in Hosts : pc'[k] \in Opened \/ Updating(k)' => pc[k] \in Opened \/ Updating(k)
      BY <1>4, <2>1 DEF Updating, Opened
    <2>4. \A k \in Hosts : /\ pc'[k] \in Unopened => pc[k] \in Unopened
                           /\ pc'[k] \in {"check", "persist"} => pc[k] \in {"check", "persist"}
      BY <2>1 DEF Unopened
    <2> QED
      BY <1>1, <1>4, <2>2, <2>3, <2>4 DEF DurableInv
  <1> QED
    BY <1>3, <1>4 DEF PersistLedger

\* Together: nothing that was acknowledged is overwritten.
LEMMA DurableSteps ==
  ASSUME LockInv, DurableInv, [HostNext]_hostVars PROVE DurableInv'
  <1>1. CASE UNCHANGED hostVars
    BY <1>1 DEF hostVars, DurableInv, Updating, IsState
  <1> QED
    BY <1>1, LedgerKept, DraftSteps, PersistSteps DEF HostNext

-----------------------------------------------------------------------------
(* The sockets and the endpoint file.                                          *)

Up(h) == pc[h] = "serve" \/ Updating(h)

\* A step of h that leaves the local socket and the endpoint file alone.
LEMMA ReachFrame ==
  ASSUME ReachInv, NEW h \in Hosts, UNCHANGED <<local, endpoint>>,
         \A k \in Hosts : k # h => pc'[k] = pc[k] /\ memory'[k] = memory[k],
         \A k \in Hosts : k # h => listening'[k] = listening[k],
         listening' \in [Hosts -> SUBSET {"local", "forward"}],
         "local" \in listening'[h] => "local" \in listening[h],
         Up(h)' => Up(h), pc'[h] = "publish" => pc[h] = "publish"
  PROVE  ReachInv'
  <1>1. \A k \in Hosts : Up(k)' => Up(k)
    BY DEF Up, Updating
  <1>2. \A k \in Hosts : pc'[k] = "publish" => pc[k] = "publish"
    OBVIOUS
  <1>3. \A k \in Hosts : "local" \in listening'[k] => "local" \in listening[k]
    OBVIOUS
  <1> QED
    BY <1>1, <1>2, <1>3 DEF ReachInv, Up

\* An owner may do what it likes with them: nobody else is reachable through them.
LEMMA OwnerReaches ==
  ASSUME LockInv, NEW h \in Hosts, Owns(h),
         \A k \in Hosts : k # h => pc'[k] = pc[k] /\ memory'[k] = memory[k],
         listening' \in [Hosts -> SUBSET {"local", "forward"}],
         pc'[h] = "publish" \/ Up(h)' => ("local" \in listening'[h] => local' = h),
         Up(h)' => endpoint' = h
  PROVE  ReachInv'
  <1>1. \A k \in Hosts : k # h => ~Owns(k)
    <2>1. lock.owner = h /\ pc[h] # "gone"
      BY DEF LockInv, Owns, Opened
    <2> QED
      BY <2>1, OneOwner
  <1>2. \A k \in Hosts : k # h => ~Up(k)' /\ pc'[k] # "publish"
    BY <1>1 DEF Owns, Up, Updating, Opened
  <1> QED
    BY <1>2 DEF ReachInv, Up

\* Steps that leave the local socket and the endpoint file alone.
LEMMA ReachKept ==
  ASSUME LockInv, DurableInv, ReachInv, NEW h \in Hosts,
         \/ StartHost(h) \/ DirectoryRefused(h) \/ CreateLock(h) \/ WriteLock(h)
         \/ ExamineLock(h) \/ RemoveLock(h) \/ LoadLedger(h) \/ LedgerUnreadable(h)
         \/ BeginUpdate(h) \/ EnsureOwner(h) \/ PersistLedger(h)
         \/ BindForward(h) \/ Handshake(h) \/ ShimConnects(h) \/ ShimEnds(h) \/ Supervise(h)
         \/ StopLocal(h) \/ StopForward(h) \/ RemoveForward(h)
         \/ DropLock(h) \/ ExitHost(h) \/ KillHost(h)
  PROVE  ReachInv'
  <1>0. pc \in [Hosts -> Places] /\ memory = [k \in Hosts |-> memory[k]]
        /\ listening \in [Hosts -> SUBSET {"local", "forward"}]
    BY DEF LockInv, HostType, DurableInv, ReachInv
  <1>1. /\ UNCHANGED <<local, endpoint>>
        /\ \A k \in Hosts : k # h => listening'[k] = listening[k]
        /\ listening' \in [Hosts -> SUBSET {"local", "forward"}]
        /\ "local" \in listening'[h] => "local" \in listening[h]
    <2>1. CASE UNCHANGED socketVars
      BY <1>0, <2>1 DEF socketVars
    <2>2. CASE StopLocal(h) \/ StopForward(h) \/ ExitHost(h) \/ KillHost(h)
      BY <1>0, <2>2 DEF StopLocal, StopForward, ExitHost, KillHost
    <2>3. CASE BindForward(h) \/ RemoveForward(h)
      BY <1>0, <2>1, <2>3 DEF BindForward, RemoveForward
    <2> QED
      BY <2>1, <2>2, <2>3
         DEF StartHost, DirectoryRefused, CreateLock, WriteLock, ExamineLock, RemoveLock,
             LoadLedger, LedgerUnreadable, BeginUpdate, EnsureOwner, PersistLedger, Handshake,
             ShimConnects, ShimEnds, Supervise, DropLock
  <1>2. ASSUME NEW p, pc' = [pc EXCEPT ![h] = p], UNCHANGED memory,
               p = "publish" => pc[h] = "publish",
               p = "serve" => Up(h),
               p \in {"check", "persist"} => Up(h) \/ memory[h] = NoState
        PROVE  ReachInv'
    <2>1. pc'[h] = p /\ \A k \in Hosts : k # h => pc'[k] = pc[k] /\ memory'[k] = memory[k]
      BY <1>0, <1>2
    <2>2. Up(h)' => Up(h)
      BY <1>2, <2>1 DEF Up, Updating
    <2> QED
      BY <1>1, <1>2, <2>1, <2>2, ReachFrame
  <1>3. CASE StartHost(h) \/ DirectoryRefused(h) \/ CreateLock(h) \/ WriteLock(h)
             \/ ExamineLock(h) \/ RemoveLock(h) \/ LedgerUnreadable(h) \/ BindForward(h)
             \/ Handshake(h) \/ ShimConnects(h) \/ ShimEnds(h) \/ Supervise(h)
             \/ ExitHost(h) \/ KillHost(h)
    <2>1. /\ \E p \in {"create", "gone", "write", "examine", "load", "remove", "shim", "leaving",
                       "handshake", "local", "proxy"} : pc' = [pc EXCEPT ![h] = p]
          /\ UNCHANGED memory
      BY <1>3 DEF StartHost, DirectoryRefused, CreateLock, WriteLock, ExamineLock, RemoveLock,
                  LedgerUnreadable, BindForward, Handshake, ShimConnects, ShimEnds, Supervise,
                  ExitHost, KillHost, Goto, Leave, ledgerVars
    <2> QED
      BY <1>2, <2>1
  <1>4. CASE LoadLedger(h) \/ BeginUpdate(h) \/ EnsureOwner(h)
    <2>1. /\ UNCHANGED memory
          /\ \/ pc' = [pc EXCEPT ![h] = "leaving"]
             \/ pc' = [pc EXCEPT ![h] = "check"] /\ (pc[h] = "load" \/ pc[h] = "serve")
             \/ pc' = [pc EXCEPT ![h] = "persist"] /\ pc[h] = "check"
             \/ pc' = [pc EXCEPT ![h] = "serve"] /\ pc[h] = "check" /\ memory[h] # NoState
      BY <1>4 DEF LoadLedger, BeginUpdate, EnsureOwner, Refused, Opening, Goto, Leave, ledgerVars
    <2>2. pc[h] = "load" => memory[h] = NoState
      BY DEF DurableInv, Unopened
    <2>3. pc[h] = "check" => Up(h) \/ memory[h] = NoState
      BY DEF Up, Updating
    <2>4. pc[h] = "serve" => Up(h)
      BY DEF Up
    <2> QED
      BY <1>2, <2>1, <2>2, <2>3, <2>4
  <1>5. CASE PersistLedger(h)
    <2>1. /\ pc'[h] \in {"forward", "leaving", "serve"}
          /\ pc'[h] = "serve" => Up(h)
          /\ \A k \in Hosts : k # h => pc'[k] = pc[k]
      BY <1>0, <1>5 DEF PersistLedger, Refused, Opening, Goto, Leave, Up, Updating
    <2>2. \A k \in Hosts : k # h => memory'[k] = memory[k]
      BY <1>0, <1>5 DEF PersistLedger
    <2>3. Up(h)' => Up(h)
      BY <2>1 DEF Up, Updating
    <2> QED
      BY <1>1, <2>1, <2>2, <2>3, ReachFrame
  <1>6. CASE StopLocal(h) \/ StopForward(h) \/ RemoveForward(h) \/ DropLock(h)
    <2>1. pc' = [pc EXCEPT ![h] = "leaving"] /\ UNCHANGED memory
      BY <1>0, <1>6 DEF StopLocal, StopForward, RemoveForward, DropLock, Dropping, Dropped, ledgerVars
    <2> QED
      BY <1>2, <2>1
  <1> QED
    BY <1>3, <1>4, <1>5, <1>6

\* Steps that bind, publish or remove: all of them are the owner's.
LEMMA ReachOwned ==
  ASSUME LockInv, DurableInv, ReachInv, NEW h \in Hosts,
         \/ BindLocal(h) \/ PublishEndpoint(h) \/ LocalAcceptFails(h)
         \/ RemoveLocal(h) \/ Unpublish(h)
  PROVE  ReachInv'
  <1>0. pc \in [Hosts -> Places] /\ UNCHANGED memory
        /\ listening \in [Hosts -> SUBSET {"local", "forward"}]
    BY DEF LockInv, HostType, ReachInv, BindLocal, PublishEndpoint, LocalAcceptFails,
           RemoveLocal, Unpublish, ledgerVars
  <1>1. Owns(h)
    <2>1. CASE BindLocal(h) \/ PublishEndpoint(h) \/ LocalAcceptFails(h)
      BY <2>1 DEF BindLocal, PublishEndpoint, LocalAcceptFails, Owns, Opened
    <2>2. CASE RemoveLocal(h) \/ Unpublish(h)
      <3>1. /\ pc[h] = "leaving" /\ cleanup[h] # <<>>
            /\ Head(cleanup[h]) \in {"localPath", "endpoint"}
        BY <2>2 DEF RemoveLocal, Unpublish, Dropping
      <3>2. cleanup[h] \in Seq(Things) /\ Orderly(cleanup[h])
        BY DEF LockInv, HostType
      <3>3. Keeps(cleanup[h])
        BY <3>1, <3>2, AfterDrop
      <3> QED
        BY <3>1, <3>3 DEF Owns
    <2> QED
      BY <2>1, <2>2
  <1>2. \A k \in Hosts : k # h => pc'[k] = pc[k] /\ memory'[k] = memory[k]
    BY <1>0 DEF BindLocal, PublishEndpoint, LocalAcceptFails, RemoveLocal, Unpublish, Goto, Leave,
                Dropped
  <1>3. listening' \in [Hosts -> SUBSET {"local", "forward"}]
    BY <1>0 DEF BindLocal, PublishEndpoint, LocalAcceptFails, RemoveLocal, Unpublish, socketVars
  <1>4. CASE BindLocal(h)
    <2>1. pc'[h] = "leaving" \/ (pc'[h] = "publish" /\ local' = h)
      BY <1>0, <1>4 DEF BindLocal, Goto, Leave
    <2>2. ~Up(h)'
      BY <2>1 DEF Up, Updating
    <2> QED
      BY <1>1, <1>2, <1>3, <2>1, <2>2, OwnerReaches
  <1>5. CASE PublishEndpoint(h)
    <2>1. /\ pc'[h] = "leaving" \/ (pc'[h] = "serve" /\ endpoint' = h)
          /\ pc[h] = "publish" /\ UNCHANGED <<local, listening>>
      BY <1>0, <1>5 DEF PublishEndpoint, Goto, Leave
    <2>2. "local" \in listening[h] => local = h
      BY <2>1 DEF ReachInv
    <2>3. Up(h)' => pc'[h] = "serve"
      BY <2>1 DEF Up, Updating
    <2> QED
      BY <1>1, <1>2, <1>3, <2>1, <2>2, <2>3, OwnerReaches
  <1>6. CASE LocalAcceptFails(h)
    <2>1. "local" \notin listening'[h] /\ pc[h] = "serve" /\ UNCHANGED endpoint
      BY <1>0, <1>6 DEF LocalAcceptFails
    <2>2. endpoint = h
      BY <2>1 DEF ReachInv
    <2> QED
      BY <1>1, <1>2, <1>3, <2>1, <2>2, OwnerReaches
  <1>7. CASE RemoveLocal(h) \/ Unpublish(h)
    <2>1. pc'[h] = "leaving"
      BY <1>0, <1>7 DEF RemoveLocal, Unpublish, Dropping, Dropped
    <2>2. ~Up(h)' /\ pc'[h] # "publish"
      BY <2>1 DEF Up, Updating
    <2> QED
      BY <1>1, <1>2, <1>3, <2>2, OwnerReaches
  <1> QED
    BY <1>4, <1>5, <1>6, <1>7

\* Together.
LEMMA ReachSteps ==
  ASSUME LockInv, DurableInv, ReachInv, [HostNext]_hostVars PROVE ReachInv'
  <1>1. CASE UNCHANGED hostVars
    BY <1>1 DEF hostVars, ReachInv, Updating
  <1> QED
    BY <1>1, ReachKept, ReachOwned DEF HostNext

\* The three invariants hold in every reachable state, if recoveries do not overlap.
THEOREM HostSafety ==
  ASSUME MaxRecovering = 1 PROVE HostSpec => [](LockInv /\ DurableInv /\ ReachInv)
  <1>1. HostInit => LockInv /\ DurableInv /\ ReachInv
    <2> SUFFICES ASSUME HostInit PROVE LockInv /\ DurableInv /\ ReachInv
      OBVIOUS
    <2>1. LockInv
      BY DEF HostInit, LockInv, HostType, Owns, Opened, Orderly, Places
    <2>2. DurableInv
      BY DEF HostInit, DurableInv, IsState, NoState, Updating
    <2>3. ReachInv
      BY DEF HostInit, ReachInv, Updating
    <2> QED
      BY <2>1, <2>2, <2>3
  <1>2. LockInv /\ DurableInv /\ ReachInv /\ [HostNext]_hostVars
        => (LockInv /\ DurableInv /\ ReachInv)'
    BY LockSteps, DurableSteps, ReachSteps
  <1> QED
    BY <1>1, <1>2, PTL DEF HostSpec

\* Any number of processes may be started, killed and recovered: what a caller was told
\* is done stays in the ledger file.  Overlapping recoveries are excluded, and have to be:
\* the lock_race run shows two of them removing the lock of a live owner.
THEOREM AcknowledgedUpdatesStay ==
  ASSUME MaxRecovering = 1 PROVE HostSpec => []AckedDurable
  <1>1. DurableInv => AckedDurable
    BY DEF DurableInv, AckedDurable
  <1> QED
    BY <1>1, HostSafety, PTL

\* Under the same condition a serving process is the one that its clients find.
THEOREM ServersAreReachable ==
  ASSUME MaxRecovering = 1 PROVE HostSpec => []ServingIsReachable
  <1>1. ReachInv => ServingIsReachable
    BY DEF ReachInv, ServingIsReachable
  <1> QED
    BY <1>1, HostSafety, PTL

\* And the recovery of a dead owner's lock never removes a live owner's.
THEOREM LiveOwnersKeepTheirLock ==
  ASSUME MaxRecovering = 1 PROVE HostSpec => []LiveOwnerKeepsLock
  <1>1. LockInv => LiveOwnerKeepsLock
    BY DEF LockInv, LiveOwnerKeepsLock, Owns, Opened
  <1> QED
    BY <1>1, HostSafety, PTL

-----------------------------------------------------------------------------
(* What snapshot.read answers.                                                 *)

\* Each key has at most one operation of a delta, and which one.
LEMMA OperationOfKey ==
    ASSUME NEW b, NEW d, NEW o \in Operations(b, d)
    PROVE  \/ o.op = "remove" /\ o.key \in Keys(b) \ Keys(d)
           \/ o.op = "upsert" /\ o.key \in Keys(d) \ Keys(b) /\ o.element = d[o.key]
           \/ /\ o.key \in Keys(b) \cap Keys(d) /\ b[o.key] # d[o.key]
              /\ o = OperationFor(b, d, o.key)
              /\ \/ o.op = "move" /\ [b[o.key] EXCEPT !.order = o.order] = d[o.key]
                 \/ o.op = "replace" /\ o.element = d[o.key]
  <1>1. CASE \E k \in Keys(b) \ Keys(d) : o = [op |-> "remove", key |-> k]
    BY <1>1
  <1>2. CASE \E k \in Keys(d) \ Keys(b) : o = [op |-> "upsert", key |-> k, element |-> d[k]]
    BY <1>2
  <1>3. CASE \E k \in {j \in Keys(b) \cap Keys(d) : b[j] # d[j]} : o = OperationFor(b, d, k)
    <2>1. PICK k \in Keys(b) \cap Keys(d) : b[k] # d[k] /\ o = OperationFor(b, d, k)
      BY <1>3
    <2>2. CASE [b[k] EXCEPT !.order = d[k].order] = d[k]
      <3>1. o = [op |-> "move", key |-> k, order |-> d[k].order]
        BY <2>1, <2>2 DEF OperationFor
      <3>2. o.key = k /\ o.op = "move" /\ o.order = d[k].order
        BY <3>1
      <3> QED
        BY <2>1, <2>2, <3>2
    <2>3. CASE [b[k] EXCEPT !.order = d[k].order] # d[k]
      <3>1. o = [op |-> "replace", key |-> k, element |-> d[k]]
        BY <2>1, <2>3 DEF OperationFor
      <3>2. o.key = k /\ o.op = "replace" /\ o.element = d[k]
        BY <3>1
      <3> QED
        BY <2>1, <3>2
    <2> QED
      BY <2>2, <2>3
  <1> QED
    BY <1>1, <1>2, <1>3 DEF Operations

\* A key that the documents do not agree on has an operation.
LEMMA KeyHasOperation ==
    ASSUME NEW b, NEW d, NEW k
    PROVE  /\ k \in Keys(b) \ Keys(d) => \E o \in Operations(b, d) : o.key = k
           /\ k \in Keys(d) \ Keys(b) => \E o \in Operations(b, d) : o.key = k
           /\ k \in Keys(b) \cap Keys(d) /\ b[k] # d[k] => \E o \in Operations(b, d) : o.key = k
  <1>1. ASSUME k \in Keys(b) \ Keys(d) PROVE \E o \in Operations(b, d) : o.key = k
    <2>1. [op |-> "remove", key |-> k] \in Operations(b, d)
      BY <1>1 DEF Operations
    <2> QED
      BY <2>1
  <1>2. ASSUME k \in Keys(d) \ Keys(b) PROVE \E o \in Operations(b, d) : o.key = k
    <2>1. [op |-> "upsert", key |-> k, element |-> d[k]] \in Operations(b, d)
      BY <1>2 DEF Operations
    <2> QED
      BY <2>1
  <1>3. ASSUME k \in Keys(b) \cap Keys(d), b[k] # d[k] PROVE \E o \in Operations(b, d) : o.key = k
    <2>1. OperationFor(b, d, k) \in Operations(b, d)
      BY <1>3 DEF Operations
    <2>2. OperationFor(b, d, k).key = k
      BY DEF OperationFor
    <2> QED
      BY <2>1, <2>2
  <1> QED
    BY <1>1, <1>2, <1>3

\* A delta between two documents turns the one into the other, whatever they are.
LEMMA DeltaIsExact ==
    ASSUME NEW b, NEW d, d = [k \in Keys(d) |-> d[k]]
    PROVE  Applied(Operations(b, d), b) = d
  <1> DEFINE ops == Operations(b, d)
             keys(names) == {o.key : o \in {p \in ops : p.op \in names}}
             of(k) == CHOOSE o \in ops : o.key = k
             value(k) == IF k \in keys({"upsert", "replace"}) THEN of(k).element
                         ELSE IF k \in keys({"move"}) THEN [b[k] EXCEPT !.order = of(k).order]
                         ELSE b[k]
             domain == (Keys(b) \ keys({"remove"})) \cup keys({"upsert"})
  <1>1. Applied(ops, b) = [k \in domain |-> value(k)]
    BY Zenon DEF Applied
  <1>2. \A o \in ops :
           \/ o.op = "remove" /\ o.key \in Keys(b) \ Keys(d)
           \/ o.op = "upsert" /\ o.key \in Keys(d) \ Keys(b) /\ o.element = d[o.key]
           \/ /\ o.key \in Keys(b) \cap Keys(d) /\ b[o.key] # d[o.key]
              /\ o = OperationFor(b, d, o.key)
              /\ \/ o.op = "move" /\ [b[o.key] EXCEPT !.order = o.order] = d[o.key]
                 \/ o.op = "replace" /\ o.element = d[o.key]
    BY OperationOfKey
  <1>3. \A k : /\ k \in Keys(b) \ Keys(d) => \E o \in ops : o.key = k
               /\ k \in Keys(d) \ Keys(b) => \E o \in ops : o.key = k
               /\ k \in Keys(b) \cap Keys(d) /\ b[k] # d[k] => \E o \in ops : o.key = k
    BY KeyHasOperation
  <1> HIDE DEF ops
  <1>4. \A k, names : k \in keys(names) <=> \E o \in ops : o.key = k /\ o.op \in names
    OBVIOUS
  <1> HIDE DEF keys
  <1>5. domain = Keys(d)
    <2>1. ASSUME NEW k PROVE k \in keys({"remove"}) <=> k \in Keys(b) /\ k \notin Keys(d)
      <3>1. ASSUME k \in Keys(b), k \notin Keys(d) PROVE k \in keys({"remove"})
        <4>1. PICK o \in ops : o.key = k
          BY <1>3, <3>1
        <4>2. o.op = "remove"
          BY <1>2, <3>1, <4>1
        <4> QED
          BY <1>4, <4>1, <4>2
      <3>2. ASSUME k \in keys({"remove"}) PROVE k \in Keys(b) /\ k \notin Keys(d)
        <4>1. PICK o \in ops : o.key = k /\ o.op = "remove"
          BY <1>4, <3>2
        <4> QED
          BY <1>2, <4>1
      <3> QED
        BY <3>1, <3>2
    <2>2. ASSUME NEW k PROVE k \in keys({"upsert"}) <=> k \in Keys(d) /\ k \notin Keys(b)
      <3>1. ASSUME k \in Keys(d), k \notin Keys(b) PROVE k \in keys({"upsert"})
        <4>1. PICK o \in ops : o.key = k
          BY <1>3, <3>1
        <4>2. o.op = "upsert"
          BY <1>2, <3>1, <4>1
        <4> QED
          BY <1>4, <4>1, <4>2
      <3>2. ASSUME k \in keys({"upsert"}) PROVE k \in Keys(d) /\ k \notin Keys(b)
        <4>1. PICK o \in ops : o.key = k /\ o.op = "upsert"
          BY <1>4, <3>2
        <4> QED
          BY <1>2, <4>1
      <3> QED
        BY <3>1, <3>2
    <2> QED
      BY <2>1, <2>2
  <1>6. \A k \in Keys(d) : value(k) = d[k]
    <2> SUFFICES ASSUME NEW k \in Keys(d) PROVE value(k) = d[k]
      OBVIOUS
    <2>1. CASE \E o \in ops : o.key = k
      <3>1. PICK o \in ops : o = of(k) /\ o.key = k
        BY <2>1
      <3> HIDE DEF of
      <3>2. CASE o.op \in {"upsert", "replace"}
        <4>1. k \in keys({"upsert", "replace"})
          BY <1>4, <3>1, <3>2
        <4>2. o.element = d[k]
          BY <1>2, <3>1, <3>2
        <4> QED
          BY <3>1, <4>1, <4>2
      <3>3. CASE o.op \notin {"upsert", "replace"}
        <4>1. o.op = "move" /\ [b[k] EXCEPT !.order = o.order] = d[k] /\ b[k] # d[k] /\ k \in Keys(b)
          BY <1>2, <3>1, <3>3
        <4>2. k \in keys({"move"})
          BY <1>4, <3>1, <4>1
        <4>3. CASE k \in keys({"upsert", "replace"})
          <5>1. PICK p \in ops : p.key = k /\ p.op \in {"upsert", "replace"}
            BY <1>4, <4>3
          <5>2. p = OperationFor(b, d, k) /\ o = OperationFor(b, d, k)
            BY <1>2, <3>1, <4>1, <5>1
          <5> QED
            BY <3>3, <5>1, <5>2
        <4>4. CASE k \notin keys({"upsert", "replace"})
          BY <3>1, <4>1, <4>2, <4>4
        <4> QED
          BY <4>3, <4>4
      <3> QED
        BY <3>2, <3>3
    <2>2. CASE ~\E o \in ops : o.key = k
      <3>1. k \in Keys(b) /\ b[k] = d[k]
        BY <1>3, <2>2
      <3>2. k \notin keys({"upsert", "replace"}) /\ k \notin keys({"move"})
        BY <1>4, <2>2
      <3> QED
        BY <3>1, <3>2
    <2> QED
      BY <2>1, <2>2
  <1> HIDE DEF value, domain
  <1>7. [k \in domain |-> value(k)] = [k \in Keys(d) |-> d[k]]
    BY <1>5, <1>6
  <1> QED
    BY <1>1, <1>7 DEF ops

\* The answers of build_envelope_with_tokenizer: a body is given only after a
\* representation was selected.
LEMMA AnswerIs ==
    \/ Answer = Error \/ Answer = Resync \/ Answer = MetadataOnly
    \/ /\ Selected # {} /\ Answer = BodyAnswer
       /\ FocusRequested => Focusable(Document, ask.focus)
  BY DEF Answer

\* What is selected is a representation that is available.
LEMMA SelectedIsAvailable ==
    /\ Selected # {} => BodySafe
    /\ Selected = {"delta"} => DeltaAvailable
  <1>1. Selected \subseteq Representations
    BY DEF Selected
  <1>2. Representations # {} => BodySafe
    BY DEF Representations
  <1>3. "delta" \in Representations => DeltaAvailable
    BY DEF Representations
  <1> QED
    BY <1>1, <1>2, <1>3

\* Answers without a body.
LEMMA NoBody == {Error.kind, Resync.kind, MetadataOnly.kind} \subseteq {"error", "resync", "metadata"}
  BY DEF Error, Resync, MetadataOnly, Marked

\* A document is a function, redacted or not.
LEMMA DocumentIsFunction == Document = [k \in Keys(Document) |-> Document[k]]
  BY DEF Document, Redacted, Keys

\* Whoever applies a delta gets the document: for any two documents and any request.
THEOREM DeltasReproduceTheDocument == ContextSpec => []DeltaReproduces
  <1>1. ContextInit(ask) => DeltaReproduces
    BY DEF ContextInit, NoAnswer, DeltaReproduces
  <1>2. ContextNext => DeltaReproduces'
    <2> SUFFICES ASSUME ContextNext, answer'.kind = "delta"
                 PROVE  Applied(answer'.operations, ask'.base.doc) = Document'
      BY DEF DeltaReproduces
    <2>1. answer' = Answer /\ ask' = ask
      BY DEF ContextNext
    <2>2. \A doc : ElementsAnswer(doc).kind \in {"elements", "error", "resync"}
      BY DEF ElementsAnswer, Elements, Resync, Error, Marked
    <2>3. Selected = {"delta"} /\ Answer = DeltaAnswer
      BY <2>1, <2>2, AnswerIs, NoBody DEF BodyAnswer
    <2>4. Answer.operations = TheDelta.operations
      <3>1. Fits(DeltaCost(TheDelta.operations))
        BY <2>1, <2>3, NoBody DEF DeltaAnswer
      <3> QED
        BY <2>3, <3>1 DEF DeltaAnswer
    <2>5. ask.base.doc = Redacted(ask.base.doc)
      BY <2>3, SelectedIsAvailable DEF DeltaAvailable, BaseMatches
    <2>6. TheDelta.operations = Operations(ask.base.doc, Document)
      BY <2>5 DEF TheDelta
    <2>7. Applied(Operations(ask.base.doc, Document), ask.base.doc) = Document
      BY DeltaIsExact, DocumentIsFunction
    <2>8. Document' = Document
      BY <2>1 DEF Document
    <2> QED
      BY <2>1, <2>4, <2>6, <2>7, <2>8
  <1>3. DeltaReproduces /\ UNCHANGED contextVars => DeltaReproduces'
    BY DEF contextVars, DeltaReproduces, Document
  <1> QED
    BY <1>1, <1>2, <1>3, PTL DEF ContextSpec

FiniteDocument == IsFiniteSet(Keys(ask.doc))

\* truncate_elements keeps some of the elements, as they are.
LEMMA TruncatedKeys == ASSUME NEW doc PROVE Keys(Truncated(doc)) \subseteq Keys(doc)
  <1>1. \E n : Truncated(doc) = Restricted(doc, {k \in Keys(doc) :
                   Cardinality({j \in Keys(doc) : doc[j].order < doc[k].order}) < n})
    BY Zenon DEF Truncated
  <1> QED
    BY <1>1 DEF Restricted, Keys

\* An elements body lacks nothing or says so.
LEMMA ElementsAnswerIs ==
    ASSUME NEW doc, IsFiniteSet(Keys(doc)), ElementsAnswer(doc).kind = "elements"
    PROVE  /\ \/ Keys(ElementsAnswer(doc).doc) = Keys(doc)
              \/ /\ ElementsAnswer(doc).coverage = "partial"
                 /\ ElementsAnswer(doc).truncated /\ ElementsAnswer(doc).resync
           /\ ElementsAnswer(doc).coverage \in {"partial", ask.coverage}
  <1> DEFINE body == IF ~Fits(CostOf(doc)) THEN Truncated(doc) ELSE doc
             less == Cardinality(Keys(body)) < Cardinality(Keys(doc))
  <1>1. Keys(body) \subseteq Keys(doc)
    BY TruncatedKeys
  <1>2. less \/ Keys(body) = Keys(doc)
    BY <1>1, FS_Subset, FS_CardinalityType
  <1>3. ElementsAnswer(doc) =
            IF Fits(CostOf(body)) THEN Elements(body, IF less THEN "partial" ELSE ask.coverage, less)
            ELSE Resync
    BY Zenon DEF ElementsAnswer
  <1> HIDE DEF body, less
  <1>4. Resync.kind # "elements"
    BY NoBody
  <1>5. ElementsAnswer(doc) = Elements(body, IF less THEN "partial" ELSE ask.coverage, less)
    BY <1>3, <1>4
  <1>6. CASE less
    BY <1>5, <1>6 DEF Elements
  <1>7. CASE ~less
    BY <1>2, <1>5, <1>7 DEF Elements
  <1> QED
    BY <1>6, <1>7

\* No omission goes unmarked, and no incomplete snapshot is called complete, for every
\* finite document, budget, focus and mode.
THEOREM OmissionsAreMarked == ContextSpec /\ FiniteDocument => []OmissionsMarked
  <1>1. ContextInit(ask) => OmissionsMarked
    BY DEF ContextInit, NoAnswer, OmissionsMarked
  <1>2. FiniteDocument /\ ContextNext => OmissionsMarked'
    <2> SUFFICES ASSUME FiniteDocument, ContextNext, answer'.kind = "elements"
                 PROVE  /\ \/ Keys(answer'.doc) = Keys(Wanted')
                           \/ answer'.coverage = "partial" /\ answer'.truncated /\ answer'.resync
                        /\ answer'.coverage = "complete" => Complete'
      BY DEF OmissionsMarked
    <2>1. answer' = Answer /\ ask' = ask
      BY DEF ContextNext
    <2>2. Wanted' = Wanted /\ Complete' = Complete
      BY <2>1 DEF Wanted, Complete, BodySafe, FocusRequested, Document
    <2>3. DeltaAnswer.kind \in {"delta", "error", "resync"}
      BY NoBody DEF DeltaAnswer, Resync, Error, Marked
    <2>4. PICK doc \in {Wanted, Compacted(Wanted)} :
              /\ Selected # {} /\ Answer = ElementsAnswer(doc)
              /\ FocusRequested => Focusable(Document, ask.focus)
      BY <2>1, <2>3, AnswerIs, NoBody DEF BodyAnswer
    <2>5. Keys(doc) = Keys(Wanted)
      BY <2>4 DEF Compacted, Keys
    <2>6. IsFiniteSet(Keys(Wanted))
      <3>1. Keys(Document) = Keys(ask.doc)
        BY DEF Document, Redacted, Keys
      <3>2. FocusRequested => FocusKeys(Document, ask.focus) \subseteq Keys(Document)
        BY <2>4 DEF Focusable, FocusKeys, Rooted
      <3>3. Keys(Wanted) = IF FocusRequested THEN FocusKeys(Document, ask.focus) ELSE Keys(Document)
        BY DEF Wanted, Restricted, Keys
      <3> QED
        BY <3>1, <3>2, <3>3, FS_Subset DEF FiniteDocument
    <2>7. BodySafe
      BY <2>4, SelectedIsAvailable
    <2> QED
      BY <2>1, <2>2, <2>4, <2>5, <2>6, <2>7, ElementsAnswerIs DEF Complete
  <1>3. OmissionsMarked /\ UNCHANGED contextVars => OmissionsMarked'
    BY DEF contextVars, OmissionsMarked, Wanted, Complete, BodySafe, FocusRequested, Document
  <1>4. FiniteDocument /\ [ContextNext]_contextVars => FiniteDocument'
    BY DEF FiniteDocument, ContextNext, contextVars
  <1> QED
    BY <1>1, <1>2, <1>3, <1>4, PTL DEF ContextSpec
=============================================================================
