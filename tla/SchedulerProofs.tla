-------------------------- MODULE SchedulerProofs --------------------------
(***************************************************************************)
(* The scheduler's safety, for every number of threads and spaces and      *)
(* every limit.                                                            *)
(***************************************************************************)
EXTENDS Scheduler, SequenceTheorems, FiniteSetTheorems, TLAPS

-----------------------------------------------------------------------------
(* Queues without duplicates.                                              *)

\* Nothing is queued in an empty queue.
LEMMA EmptyQueue ==
    ASSUME NEW x
    PROVE  Distinct(<<>>) /\ ~Queued(x, <<>>)
  BY DEF Distinct, Queued

\* Appending a token that is not yet queued keeps the queue free of duplicates.
LEMMA AppendToken ==
    ASSUME NEW S, NEW q \in Seq(S), NEW e \in S, Distinct(q), ~Queued(e, q)
    PROVE  /\ Append(q, e) \in Seq(S)
           /\ Append(q, e) # <<>>
           /\ Distinct(Append(q, e))
           /\ \A x : Queued(x, Append(q, e)) <=> Queued(x, q) \/ x = e
  <1>1. Append(q, e) \in Seq(S) /\ Append(q, e) # <<>>
    BY AppendProperties
  <1>2. Distinct(Append(q, e))
    BY DEF Distinct, Queued
  <1>3. ASSUME NEW x
        PROVE  Queued(x, Append(q, e)) <=> Queued(x, q) \/ x = e
    <2>1. DOMAIN Append(q, e) = 1..(Len(q) + 1)
      OBVIOUS
    <2>2. Append(q, e)[Len(q) + 1] = e
      OBVIOUS
    <2>3. \A i \in 1..Len(q) : Append(q, e)[i] = q[i]
      OBVIOUS
    <2>4. Len(q) \in Nat /\ DOMAIN q = 1..Len(q)
      OBVIOUS
    <2> QED
      BY <2>1, <2>2, <2>3, <2>4 DEF Queued
  <1> QED
    BY <1>1, <1>2, <1>3

\* Taking the front token leaves exactly the others.
LEMMA TailToken ==
    ASSUME NEW S, NEW q \in Seq(S), q # <<>>, Distinct(q)
    PROVE  /\ Tail(q) \in Seq(S)
           /\ Distinct(Tail(q))
           /\ Queued(Head(q), q)
           /\ \A x : Queued(x, Tail(q)) <=> Queued(x, q) /\ x # Head(q)
  <1>1. Tail(q) \in Seq(S)
    OBVIOUS
  <1>2. Len(q) \in Nat \ {0} /\ DOMAIN q = 1..Len(q) /\ DOMAIN Tail(q) = 1..(Len(q) - 1)
    OBVIOUS
  <1>3. Head(q) = q[1] /\ \A i \in 1..(Len(q) - 1) : Tail(q)[i] = q[i + 1]
    OBVIOUS
  <1>4. Distinct(Tail(q))
    BY <1>2, <1>3 DEF Distinct
  <1>5. Queued(Head(q), q)
    BY <1>2, <1>3 DEF Queued
  <1>6. ASSUME NEW x
        PROVE  Queued(x, Tail(q)) <=> Queued(x, q) /\ x # Head(q)
    <2>1. ASSUME Queued(x, Tail(q))
          PROVE  Queued(x, q) /\ x # Head(q)
      <3>1. PICK i \in 1..(Len(q) - 1) : Tail(q)[i] = x
        BY <1>2, <2>1 DEF Queued
      <3>2. i + 1 \in 1..Len(q) /\ i + 1 # 1 /\ q[i + 1] = x
        BY <1>2, <1>3, <3>1
      <3>3. 1 \in 1..Len(q)
        BY <1>2
      <3> QED
        BY <1>2, <1>3, <3>2, <3>3 DEF Queued, Distinct
    <2>2. ASSUME Queued(x, q), x # Head(q)
          PROVE  Queued(x, Tail(q))
      <3>1. PICK i \in 1..Len(q) : q[i] = x
        BY <1>2, <2>2 DEF Queued
      <3>2. i - 1 \in 1..(Len(q) - 1)
        BY <1>2, <1>3, <2>2, <3>1
      <3>3. Tail(q)[i - 1] = x
        BY <1>2, <1>3, <3>1, <3>2
      <3> QED
        BY <1>2, <3>2, <3>3 DEF Queued
    <2> QED
      BY <2>1, <2>2
  <1> QED
    BY <1>1, <1>4, <1>5, <1>6

\* What is left of a queue when one position is taken out.
LEMMA RemoveIndex ==
    ASSUME NEW S, NEW q \in Seq(S), NEW k \in DOMAIN q
    PROVE  /\ RemoveAt(q, k) \in Seq(S)
           /\ Len(RemoveAt(q, k)) = Len(q) - 1
           /\ \A i \in 1..(Len(q) - 1) :
                 RemoveAt(q, k)[i] = IF i < k THEN q[i] ELSE q[i + 1]
  <1> DEFINE r == RemoveAt(q, k)
             n == Len(q)
  <1>1. n \in Nat /\ k \in 1..n /\ DOMAIN q = 1..n
    OBVIOUS
  <1> DEFINE u == SubSeq(q, 1, k - 1)
             v == SubSeq(q, k + 1, n)
  <1>a. u \in Seq(S) /\ Len(u) = k - 1 /\ \A i \in 1..(k - 1) : u[i] = q[i]
    <2>1. \A i \in 1..(k - 1) : q[i] \in S
      BY <1>1
    <2> QED
      BY <1>1, <2>1, SubSeqProperties
  <1>b. v \in Seq(S) /\ Len(v) = n - k /\ \A i \in 1..(n - k) : v[i] = q[k + i]
    <2>1. \A i \in (k + 1)..n : q[i] \in S
      BY <1>1
    <2>2. /\ v \in Seq(S)
          /\ Len(v) = IF k + 1 <= n THEN n - (k + 1) + 1 ELSE 0
          /\ \A i \in 1..(n - (k + 1) + 1) : v[i] = q[(k + 1) + i - 1]
      BY <1>1, <2>1, SubSeqProperties
    <2>3. n - (k + 1) + 1 = n - k /\ \A i \in 1..(n - k) : (k + 1) + i - 1 = k + i
      BY <1>1
    <2> QED
      BY <1>1, <2>2, <2>3
  <1>c. r = u \o v
    BY DEF RemoveAt
  <1> HIDE DEF r, n, u, v
  <1>2. r \in Seq(S) /\ Len(r) = n - 1 /\ DOMAIN r = 1..(n - 1)
    <2>1. r \in Seq(S) /\ Len(r) = Len(u) + Len(v)
      BY <1>a, <1>b, <1>c, ConcatProperties
    <2> QED
      BY <1>1, <1>a, <1>b, <2>1, LenProperties
  <1>3. \A i \in 1..(n - 1) : r[i] = IF i < k THEN q[i] ELSE q[i + 1]
    <2>1. \A i \in 1..(Len(u) + Len(v)) :
             r[i] = IF i <= Len(u) THEN u[i] ELSE v[i - Len(u)]
      BY <1>a, <1>b, <1>c, ConcatProperties
    <2>2. Len(u) + Len(v) = n - 1
      BY <1>1, <1>a, <1>b
    <2>3. SUFFICES ASSUME NEW i \in 1..(n - 1)
                   PROVE  r[i] = IF i < k THEN q[i] ELSE q[i + 1]
      OBVIOUS
    <2>4. CASE i < k
      BY <1>1, <1>a, <2>1, <2>2, <2>4
    <2>5. CASE ~(i < k)
      <3>1. i - (k - 1) \in 1..(n - k) /\ k + (i - (k - 1)) = i + 1 /\ ~(i <= k - 1)
        BY <1>1, <2>5
      <3>2. r[i] = v[i - (k - 1)]
        BY <1>a, <2>1, <2>2, <3>1
      <3> QED
        BY <1>b, <2>5, <3>1, <3>2
    <2> QED
      BY <2>4, <2>5
  <1> QED
    BY <1>2, <1>3 DEF r, n

\* Taking out a token from anywhere leaves exactly the others.
LEMMA RemoveToken ==
    ASSUME NEW S, NEW q \in Seq(S), Distinct(q), NEW k \in DOMAIN q
    PROVE  /\ RemoveAt(q, k) \in Seq(S)
           /\ Distinct(RemoveAt(q, k))
           /\ \A x : Queued(x, RemoveAt(q, k)) <=> Queued(x, q) /\ x # q[k]
  <1> DEFINE r == RemoveAt(q, k)
             n == Len(q)
  <1>1. n \in Nat /\ k \in 1..n /\ DOMAIN q = 1..n
    OBVIOUS
  <1>0. /\ r \in Seq(S) /\ Len(r) = n - 1
        /\ \A i \in 1..(n - 1) : r[i] = IF i < k THEN q[i] ELSE q[i + 1]
    BY RemoveIndex
  <1> HIDE DEF r, n
  <1>2. r \in Seq(S) /\ DOMAIN r = 1..(n - 1)
    BY <1>0, LenProperties
  <1>3. \A i \in 1..(n - 1) : r[i] = IF i < k THEN q[i] ELSE q[i + 1]
    BY <1>0
  <1>4. Distinct(r)
    <2> DEFINE f(i) == IF i < k THEN i ELSE i + 1
    <2>1. \A i \in 1..(n - 1) : f(i) \in 1..n /\ r[i] = q[f(i)]
      BY <1>1, <1>3
    <2>2. \A i, j \in 1..(n - 1) : f(i) = f(j) => i = j
      BY <1>1
    <2> HIDE DEF f
    <2> QED
      BY <1>1, <1>2, <2>1, <2>2 DEF Distinct
  <1>5. ASSUME NEW x
        PROVE  Queued(x, r) <=> Queued(x, q) /\ x # q[k]
    <2>1. ASSUME Queued(x, r)
          PROVE  Queued(x, q) /\ x # q[k]
      <3>1. PICK i \in 1..(n - 1) : r[i] = x
        BY <1>2, <2>1 DEF Queued
      <3>2. \E j \in 1..n : j # k /\ q[j] = x
        <4>1. CASE i < k
          BY <1>1, <1>3, <3>1, <4>1
        <4>2. CASE ~(i < k)
          <5>1. i + 1 \in 1..n /\ i + 1 # k /\ q[i + 1] = x
            BY <1>1, <1>3, <3>1, <4>2
          <5> QED
            BY <5>1
        <4> QED
          BY <4>1, <4>2
      <3> QED
        BY <1>1, <3>2 DEF Queued, Distinct
    <2>2. ASSUME Queued(x, q), x # q[k]
          PROVE  Queued(x, r)
      <3>1. PICK i \in 1..n : q[i] = x /\ i # k
        BY <1>1, <2>2 DEF Queued
      <3>2. CASE i < k
        BY <1>1, <1>2, <1>3, <3>1, <3>2 DEF Queued
      <3>3. CASE i > k
        <4>1. i - 1 \in 1..(n - 1) /\ r[i - 1] = x
          BY <1>1, <1>3, <3>1, <3>3
        <4> QED
          BY <1>2, <4>1 DEF Queued
      <3> QED
        BY <1>1, <3>1, <3>2, <3>3
    <2> QED
      BY <2>1, <2>2
  <1> QED
    BY <1>2, <1>4, <1>5 DEF r

-----------------------------------------------------------------------------
(* Mutation permits.  OnePermitPerSpace is not inductive by itself: that a *)
(* granted waiter does not hold another permit, and that its space is in   *)
(* the map, comes from WaitersRegistered.                                  *)

\* The part of the type invariant that mutation permits need.
MutationTypeOK ==
    /\ pc \in [Threads -> PCs]
    /\ space \in [Threads -> Spaces]
    /\ signal \in [Threads -> BOOLEAN]
    /\ mutations \subseteq Spaces
    /\ active \in [Spaces -> BOOLEAN]
    /\ waiting \in [Spaces -> Seq(Threads)]

MutationInv == MutationTypeOK /\ OnePermitPerSpace /\ WaitersRegistered

\* Init establishes the invariant.
LEMMA MutationInit == Init => MutationInv
  <1> SUFFICES ASSUME Init PROVE MutationInv
    OBVIOUS
  <1>1. MutationTypeOK
    BY DEF Init, MutationTypeOK, PCs
  <1>2. OnePermitPerSpace
    BY DEF Init, OnePermitPerSpace
  <1>3. WaitersRegistered
    BY EmptyQueue DEF Init, WaitersRegistered
  <1> QED
    BY <1>1, <1>2, <1>3 DEF MutationInv

\* A step that changes neither the mutation queues nor which threads wait for or
\* hold a mutation permit preserves the invariant: every read step is one.
LEMMA MutationUntouched ==
    ASSUME MutationInv, MutationTypeOK', UNCHANGED mutationVars,
           \A t \in Threads : /\ pc'[t] = "mutationHeld" <=> pc[t] = "mutationHeld"
                              /\ pc'[t] = "mutationWait" <=> pc[t] = "mutationWait"
    PROVE  MutationInv'
  <1>1. OnePermitPerSpace'
    BY DEF MutationInv, OnePermitPerSpace, mutationVars
  <1>2. WaitersRegistered'
    BY DEF MutationInv, WaitersRegistered, mutationVars
  <1> QED
    BY <1>1, <1>2 DEF MutationInv

\* Every step of a thread that waits for or holds a mutation permit, or asks for
\* one, preserves the invariant.
LEMMA MutationSteps ==
    ASSUME MutationInv, NEW t \in Threads, MutationStep(t)
    PROVE  MutationInv'
  <1> USE DEF MutationInv, MutationTypeOK, PCs
  <1>1. ASSUME NEW s \in Spaces, AcquireMutationAtOnce(t, s)
        PROVE  MutationInv'
    <2>1. MutationTypeOK'
      BY <1>1 DEF AcquireMutationAtOnce, Returns
    <2>2. OnePermitPerSpace'
      BY <1>1 DEF AcquireMutationAtOnce, Returns, OnePermitPerSpace, Uncontended
    <2>3. WaitersRegistered'
      BY <1>1 DEF AcquireMutationAtOnce, Returns, WaitersRegistered
    <2> QED
      BY <2>1, <2>2, <2>3
  <1>2. ASSUME NEW s \in Spaces, RefuseMutation(t, s)
        PROVE  MutationInv'
    BY <1>2, MutationUntouched DEF RefuseMutation, Returns, mutationVars
  <1>3. ASSUME NEW s \in Spaces, EnqueueMutation(t, s)
        PROVE  MutationInv'
    <2>1. ~Queued(t, waiting[s]) /\ Distinct(waiting[s])
      BY <1>3 DEF EnqueueMutation, WaitersRegistered
    <2>2. /\ Append(waiting[s], t) \in Seq(Threads)
          /\ Distinct(Append(waiting[s], t))
          /\ \A x : Queued(x, Append(waiting[s], t)) <=> Queued(x, waiting[s]) \/ x = t
      BY <2>1, AppendToken
    <2>3. MutationTypeOK'
      BY <1>3, <2>2 DEF EnqueueMutation
    <2>4. OnePermitPerSpace'
      BY <1>3 DEF EnqueueMutation, OnePermitPerSpace
    <2>5. s \in mutations
      <3>1. CASE active[s]
        BY <3>1 DEF OnePermitPerSpace, WaitersRegistered
      <3>2. CASE waiting[s] # <<>>
        <4>1. Queued(Head(waiting[s]), waiting[s]) /\ Head(waiting[s]) \in Threads
          BY <2>1, <3>2, TailToken, HeadTailProperties
        <4> QED
          BY <4>1 DEF WaitersRegistered
      <3> QED
        BY <1>3, <3>1, <3>2 DEF EnqueueMutation, Uncontended
    <2>6. WaitersRegistered'
      BY <1>3, <2>1, <2>2, <2>5 DEF EnqueueMutation, WaitersRegistered
    <2> QED
      BY <2>3, <2>4, <2>6
  <1>4. ASSUME GrantMutation(t)
        PROVE  MutationInv'
    <2> DEFINE s == space[t]
    <2>0. s \in Spaces /\ waiting[s] \in Seq(Threads) /\ Distinct(waiting[s])
      BY DEF WaitersRegistered
    <2>1. /\ Tail(waiting[s]) \in Seq(Threads)
          /\ Distinct(Tail(waiting[s]))
          /\ \A x : Queued(x, Tail(waiting[s])) <=> Queued(x, waiting[s]) /\ x # t
      BY <1>4, <2>0, TailToken DEF GrantMutation
    <2>2. MutationTypeOK'
      BY <1>4, <2>1 DEF GrantMutation, Returns
    <2>3. OnePermitPerSpace'
      BY <1>4 DEF GrantMutation, Returns, OnePermitPerSpace
    <2>4. WaitersRegistered'
      BY <1>4, <2>0, <2>1 DEF GrantMutation, Returns, WaitersRegistered
    <2> QED
      BY <2>2, <2>3, <2>4
  <1>5. ASSUME GiveUpMutation(t)
        PROVE  MutationInv'
    <2> DEFINE s == space[t]
    <2>0. s \in Spaces /\ waiting[s] \in Seq(Threads) /\ Distinct(waiting[s])
      BY DEF WaitersRegistered
    <2>1. PICK i \in DOMAIN waiting[s] :
             waiting[s][i] = t /\ waiting' = [waiting EXCEPT ![s] = RemoveAt(@, i)]
      BY <1>5 DEF GiveUpMutation
    <2>2. /\ waiting'[s] \in Seq(Threads)
          /\ Distinct(waiting'[s])
          /\ \A x : Queued(x, waiting'[s]) <=> Queued(x, waiting[s]) /\ x # t
          /\ \A r \in Spaces \ {s} : waiting'[r] = waiting[r]
      BY <2>0, <2>1, RemoveToken
    <2>3. MutationTypeOK'
      BY <1>5, <2>0, <2>1, <2>2 DEF GiveUpMutation, Returns
    <2>4. OnePermitPerSpace'
      BY <1>5 DEF GiveUpMutation, Returns, OnePermitPerSpace
    <2>5. ASSUME NEW u \in Threads, pc'[u] \in {"mutationWait", "mutationHeld"}
          PROVE  space'[u] \in mutations'
      <3>1. u # t /\ pc'[u] = pc[u] /\ space'[u] = space[u] /\ space[u] \in mutations
        BY <1>5, <2>5 DEF GiveUpMutation, Returns, WaitersRegistered
      <3>2. CASE space[u] = s
        <4>1. CASE pc[u] = "mutationWait"
          <5>1. Queued(u, waiting'[s])
            BY <2>0, <2>2, <3>1, <3>2, <4>1 DEF WaitersRegistered
          <5>2. waiting'[s] # <<>>
            BY <5>1, EmptyQueue
          <5> QED
            BY <1>5, <3>1, <3>2, <5>2 DEF GiveUpMutation
        <4>2. CASE pc[u] = "mutationHeld"
          <5>1. active[s]
            BY <2>0, <3>1, <3>2, <4>2 DEF OnePermitPerSpace
          <5> QED
            BY <1>5, <3>1, <3>2, <5>1 DEF GiveUpMutation
        <4> QED
          BY <2>5, <3>1, <4>1, <4>2
      <3>3. CASE space[u] # s
        BY <1>5, <3>1, <3>3 DEF GiveUpMutation
      <3> QED
        BY <3>2, <3>3
    <2>6. WaitersRegistered'
      <3>1. \A r \in Spaces : Distinct(waiting'[r])
        BY <2>2 DEF WaitersRegistered
      <3>2. ASSUME NEW u \in Threads, NEW r \in Spaces
            PROVE  Queued(u, waiting'[r]) <=> (pc'[u] = "mutationWait" /\ space'[u] = r)
        <4>1. space' = space /\ pc'[t] # "mutationWait" /\ (u # t => pc'[u] = pc[u])
          BY <1>5 DEF GiveUpMutation, Returns
        <4>2. Queued(u, waiting[r]) <=> (pc[u] = "mutationWait" /\ space[u] = r)
          BY DEF WaitersRegistered
        <4>3. CASE r = s
          BY <2>2, <4>1, <4>2, <4>3
        <4>4. CASE r # s
          BY <2>2, <4>1, <4>2, <4>4
        <4> QED
          BY <4>3, <4>4
      <3> QED
        BY <2>5, <3>1, <3>2 DEF WaitersRegistered
    <2> QED
      BY <2>3, <2>4, <2>6
  <1>6. ASSUME DropMutationPermit(t)
        PROVE  MutationInv'
    <2> DEFINE s == space[t]
    <2>0. s \in Spaces
      OBVIOUS
    <2>1. MutationTypeOK'
      BY <1>6 DEF DropMutationPermit
    <2>2. OnePermitPerSpace'
      BY <1>6 DEF DropMutationPermit, OnePermitPerSpace
    <2>3. ASSUME NEW u \in Threads, pc'[u] \in {"mutationWait", "mutationHeld"}
          PROVE  space'[u] \in mutations'
      <3>1. u # t /\ pc'[u] = pc[u] /\ space'[u] = space[u] /\ space[u] \in mutations
        BY <1>6, <2>3 DEF DropMutationPermit, WaitersRegistered
      <3>2. CASE space[u] = s
        <4>1. pc[u] = "mutationWait"
          BY <1>6, <2>3, <3>1, <3>2 DEF DropMutationPermit, OnePermitPerSpace
        <4>2. Queued(u, waiting[s])
          BY <2>0, <3>2, <4>1 DEF WaitersRegistered
        <4>3. waiting[s] # <<>>
          BY <4>2, EmptyQueue
        <4> QED
          BY <1>6, <3>1, <3>2, <4>3 DEF DropMutationPermit
      <3>3. CASE space[u] # s
        BY <1>6, <3>1, <3>3 DEF DropMutationPermit
      <3> QED
        BY <3>2, <3>3
    <2>4. WaitersRegistered'
      BY <1>6, <2>3 DEF DropMutationPermit, WaitersRegistered
    <2> QED
      BY <2>1, <2>2, <2>4
  <1> QED
    BY <1>1, <1>2, <1>3, <1>4, <1>5, <1>6 DEF MutationStep

\* Reading and being cancelled do not touch mutation permits.
LEMMA OtherStepsKeepMutations ==
    ASSUME MutationInv, NEW t \in Threads, Signal(t) \/ ReadStep(t)
    PROVE  MutationInv'
  <1> USE DEF MutationInv, MutationTypeOK, PCs
  <1>1. CASE Signal(t)
    BY <1>1, MutationUntouched DEF Signal, mutationVars
  <1>2. CASE AcquireReadAtOnce(t)
    BY <1>2, MutationUntouched DEF AcquireReadAtOnce, Returns, mutationVars
  <1>3. CASE RefuseRead(t)
    BY <1>3, MutationUntouched DEF RefuseRead, Returns, mutationVars
  <1>4. CASE EnqueueRead(t)
    BY <1>4, MutationUntouched DEF EnqueueRead, mutationVars
  <1>5. CASE GrantRead(t)
    BY <1>5, MutationUntouched DEF GrantRead, Returns, mutationVars
  <1>6. CASE GiveUpRead(t)
    BY <1>6, MutationUntouched DEF GiveUpRead, Returns, mutationVars
  <1>7. CASE DropReadPermit(t)
    BY <1>7, MutationUntouched DEF DropReadPermit, mutationVars
  <1> QED
    BY <1>1, <1>2, <1>3, <1>4, <1>5, <1>6, <1>7 DEF ReadStep

\* The invariant holds in every reachable state.
THEOREM MutationSafety == Spec => []MutationInv
  <1>1. Init => MutationInv
    BY MutationInit
  <1>2. MutationInv /\ [Next]_vars => MutationInv'
    <2> SUFFICES ASSUME MutationInv, [Next]_vars PROVE MutationInv'
      OBVIOUS
    <2>1. CASE Next
      BY <2>1, MutationSteps, OtherStepsKeepMutations DEF Next
    <2>2. CASE UNCHANGED vars
      BY <2>2 DEF vars, MutationInv, MutationTypeOK, OnePermitPerSpace, WaitersRegistered
    <2> QED
      BY <2>1, <2>2
  <1> QED
    BY <1>1, <1>2, PTL DEF Spec

\* For every number of threads and spaces: one mutation permit per space, no
\* matter how arrivals, cancellations, deadlines and drops interleave.
THEOREM PermitExclusive == Spec => []OnePermitPerSpace
  <1>1. MutationInv => OnePermitPerSpace
    BY DEF MutationInv
  <1> QED
    BY <1>1, MutationSafety, PTL

\* And every waiter keeps exactly one token, in a queue that exists.
THEOREM WaitersKeepToken == Spec => []WaitersRegistered
  <1>1. MutationInv => WaitersRegistered
    BY DEF MutationInv
  <1> QED
    BY <1>1, MutationSafety, PTL

-----------------------------------------------------------------------------
(* Read permits: active_reads is a count kept apart from the threads it    *)
(* counts, so the invariant ties it to them.                               *)

ReadTypeOK ==
    /\ pc \in [Threads -> PCs]
    /\ activeReads \in Nat
    /\ readQueue \in Seq(Threads)

Readers == {t \in Threads : pc[t] = "readHeld"}

ReadInv == ReadTypeOK /\ ReadersRegistered /\ ReadPermitsBounded

\* Init establishes the invariant.
LEMMA ReadInit == Init => ReadInv
  <1> SUFFICES ASSUME Init PROVE ReadInv
    OBVIOUS
  <1>1. ReadTypeOK
    BY DEF Init, ReadTypeOK, PCs
  <1>2. ReadersRegistered
    <2>1. Len(readQueue) <= MaxQueuedReads
      BY SchedulerAssumption DEF Init
    <2> QED
      BY <2>1, EmptyQueue DEF Init, ReadersRegistered
  <1>3. ReadPermitsBounded
    <2>1. {t \in Threads : pc[t] = "readHeld"} = {}
      BY DEF Init
    <2>2. Cardinality({t \in Threads : pc[t] = "readHeld"}) = 0
      BY <2>1, FS_EmptySet, Zenon
    <2>3. activeReads = 0 /\ 0 <= MaxConcurrentReads
      BY SchedulerAssumption DEF Init
    <2> QED
      BY <2>2, <2>3 DEF ReadPermitsBounded
  <1> QED
    BY <1>1, <1>2, <1>3 DEF ReadInv

\* A step that leaves the read queue, the count and the readers alone.
LEMMA ReadUntouched ==
    ASSUME ReadInv, pc' \in [Threads -> PCs], UNCHANGED readVars,
           \A t \in Threads : /\ pc'[t] = "readHeld" <=> pc[t] = "readHeld"
                              /\ pc'[t] = "readWait" <=> pc[t] = "readWait"
    PROVE  ReadInv'
  <1>1. ReadersRegistered'
    BY DEF ReadInv, ReadersRegistered, readVars
  <1>2. {t \in Threads : pc[t] = "readHeld"} = {t \in Threads : pc'[t] = "readHeld"}
    OBVIOUS
  <1>3. ReadPermitsBounded'
    BY <1>2 DEF ReadInv, ReadPermitsBounded, readVars
  <1> QED
    BY <1>1, <1>3 DEF ReadInv, ReadTypeOK, readVars

\* One thread becomes a reader: the count of readers grows by one.
LEMMA ReaderAdded ==
    ASSUME ReadInv, NEW t \in Threads, pc[t] # "readHeld", pc' = [pc EXCEPT ![t] = "readHeld"]
    PROVE  Cardinality(Readers') = activeReads + 1
  <1>1. Readers' = Readers \cup {t} /\ t \notin Readers
    BY DEF Readers, ReadInv, ReadTypeOK
  <1>2. IsFiniteSet(Readers)
    BY SchedulerAssumption, FS_Subset DEF Readers
  <1>3. Cardinality(Readers) = activeReads
    BY DEF Readers, ReadInv, ReadPermitsBounded
  <1> QED
    BY <1>1, <1>2, <1>3, FS_AddElement

\* One reader stops: the count shrinks by one, and was positive.
LEMMA ReaderRemoved ==
    ASSUME ReadInv, NEW t \in Threads, pc[t] = "readHeld", pc' = [pc EXCEPT ![t] = "idle"]
    PROVE  Cardinality(Readers') = activeReads - 1 /\ activeReads - 1 \in Nat
  <1>1. Readers' = Readers \ {t} /\ t \in Readers
    BY DEF Readers, ReadInv, ReadTypeOK
  <1>2. IsFiniteSet(Readers)
    BY SchedulerAssumption, FS_Subset DEF Readers
  <1>3. Cardinality(Readers) = activeReads
    BY DEF Readers, ReadInv, ReadPermitsBounded
  <1>4. Cardinality(Readers') = Cardinality(Readers) - 1
    BY <1>1, <1>2, FS_RemoveElement
  <1>5. Cardinality(Readers') \in Nat
    BY <1>1, <1>2, FS_Subset, FS_CardinalityType
  <1> QED
    BY <1>3, <1>4, <1>5

\* Every read step preserves the invariant.
LEMMA ReadSteps ==
    ASSUME ReadInv, NEW t \in Threads, ReadStep(t)
    PROVE  ReadInv'
  <1> USE DEF ReadInv, ReadTypeOK, PCs
  <1>1. CASE AcquireReadAtOnce(t)
    <2>1. Cardinality(Readers') = activeReads + 1
      BY <1>1, ReaderAdded DEF AcquireReadAtOnce, Returns
    <2>2. ReadPermitsBounded'
      BY <1>1, <2>1, SchedulerAssumption
         DEF AcquireReadAtOnce, ReadUncontended, ReadPermitsBounded, Readers
    <2>3. ReadersRegistered'
      BY <1>1 DEF AcquireReadAtOnce, Returns, ReadersRegistered
    <2> QED
      BY <1>1, <2>2, <2>3 DEF AcquireReadAtOnce, Returns
  <1>2. CASE RefuseRead(t)
    BY <1>2, ReadUntouched DEF RefuseRead, Returns, readVars
  <1>3. CASE EnqueueRead(t)
    <2>1. ~Queued(t, readQueue) /\ Distinct(readQueue)
      BY <1>3 DEF EnqueueRead, ReadersRegistered
    <2>2. /\ Append(readQueue, t) \in Seq(Threads)
          /\ Distinct(Append(readQueue, t))
          /\ \A x : Queued(x, Append(readQueue, t)) <=> Queued(x, readQueue) \/ x = t
      BY <2>1, AppendToken
    <2>3. Len(readQueue') <= MaxQueuedReads
      BY <1>3, SchedulerAssumption DEF EnqueueRead
    <2>4. ReadersRegistered'
      BY <1>3, <2>1, <2>2, <2>3 DEF EnqueueRead, ReadersRegistered
    <2>5. {u \in Threads : pc[u] = "readHeld"} = {u \in Threads : pc'[u] = "readHeld"}
      BY <1>3 DEF EnqueueRead
    <2>6. ReadPermitsBounded'
      BY <1>3, <2>5 DEF EnqueueRead, ReadPermitsBounded
    <2> QED
      BY <1>3, <2>2, <2>4, <2>6 DEF EnqueueRead
  <1>4. CASE GrantRead(t)
    <2>1. Cardinality(Readers') = activeReads + 1
      BY <1>4, ReaderAdded DEF GrantRead, Returns
    <2>2. ReadPermitsBounded'
      BY <1>4, <2>1, SchedulerAssumption DEF GrantRead, ReadPermitsBounded, Readers
    <2>3. /\ Tail(readQueue) \in Seq(Threads)
          /\ Distinct(Tail(readQueue))
          /\ \A x : Queued(x, Tail(readQueue)) <=> Queued(x, readQueue) /\ x # t
      BY <1>4, TailToken DEF GrantRead, ReadersRegistered
    <2>4. Len(readQueue') <= MaxQueuedReads
      BY <1>4, SchedulerAssumption DEF GrantRead, ReadersRegistered
    <2>5. ReadersRegistered'
      BY <1>4, <2>3, <2>4 DEF GrantRead, Returns, ReadersRegistered
    <2> QED
      BY <1>4, <2>2, <2>3, <2>5 DEF GrantRead, Returns
  <1>5. CASE GiveUpRead(t)
    <2>1. PICK i \in DOMAIN readQueue : readQueue[i] = t /\ readQueue' = RemoveAt(readQueue, i)
      BY <1>5 DEF GiveUpRead
    <2>2. /\ readQueue' \in Seq(Threads)
          /\ Distinct(readQueue')
          /\ \A x : Queued(x, readQueue') <=> Queued(x, readQueue) /\ x # t
      BY <2>1, RemoveToken DEF ReadersRegistered
    <2>3. Len(readQueue') <= Len(readQueue)
      BY <2>1, RemoveIndex
    <2>4. ReadersRegistered'
      BY <1>5, <2>2, <2>3, SchedulerAssumption DEF GiveUpRead, Returns, ReadersRegistered
    <2>5. {u \in Threads : pc[u] = "readHeld"} = {u \in Threads : pc'[u] = "readHeld"}
      BY <1>5 DEF GiveUpRead, Returns
    <2>6. ReadPermitsBounded'
      BY <1>5, <2>5 DEF GiveUpRead, ReadPermitsBounded
    <2> QED
      BY <1>5, <2>2, <2>4, <2>6 DEF GiveUpRead, Returns
  <1>6. CASE DropReadPermit(t)
    <2>1. Cardinality(Readers') = activeReads - 1 /\ activeReads - 1 \in Nat
      BY <1>6, ReaderRemoved DEF DropReadPermit
    <2>2. ReadPermitsBounded'
      BY <1>6, <2>1, SchedulerAssumption DEF DropReadPermit, ReadPermitsBounded, Readers
    <2>3. ReadersRegistered'
      BY <1>6 DEF DropReadPermit, ReadersRegistered
    <2> QED
      BY <1>6, <2>1, <2>2, <2>3 DEF DropReadPermit
  <1> QED
    BY <1>1, <1>2, <1>3, <1>4, <1>5, <1>6 DEF ReadStep

\* Mutating and being cancelled do not touch read permits.
LEMMA OtherStepsKeepReads ==
    ASSUME ReadInv, NEW t \in Threads, Signal(t) \/ MutationStep(t)
    PROVE  ReadInv'
  <1> USE DEF ReadInv, ReadTypeOK, PCs
  <1>1. CASE Signal(t)
    BY <1>1, ReadUntouched DEF Signal, readVars
  <1>2. ASSUME NEW s \in Spaces,
               AcquireMutationAtOnce(t, s) \/ RefuseMutation(t, s) \/ EnqueueMutation(t, s)
        PROVE  ReadInv'
    BY <1>2, ReadUntouched
       DEF AcquireMutationAtOnce, RefuseMutation, EnqueueMutation, Returns, readVars
  <1>3. CASE GrantMutation(t)
    BY <1>3, ReadUntouched DEF GrantMutation, Returns, readVars
  <1>4. CASE GiveUpMutation(t)
    BY <1>4, ReadUntouched DEF GiveUpMutation, Returns, readVars
  <1>5. CASE DropMutationPermit(t)
    BY <1>5, ReadUntouched DEF DropMutationPermit, readVars
  <1> QED
    BY <1>1, <1>2, <1>3, <1>4, <1>5 DEF MutationStep

\* The read invariant holds in every reachable state.
THEOREM ReadSafety == Spec => []ReadInv
  <1>1. Init => ReadInv
    BY ReadInit
  <1>2. ReadInv /\ [Next]_vars => ReadInv'
    <2> SUFFICES ASSUME ReadInv, [Next]_vars PROVE ReadInv'
      OBVIOUS
    <2>1. CASE Next
      BY <2>1, ReadSteps, OtherStepsKeepReads DEF Next
    <2>2. CASE UNCHANGED vars
      BY <2>2 DEF vars, ReadInv, ReadTypeOK, ReadersRegistered, ReadPermitsBounded
    <2> QED
      BY <2>1, <2>2
  <1> QED
    BY <1>1, <1>2, PTL DEF Spec

\* The scheduler's state keeps its types; in particular active_reads never
\* underflows when a read permit is dropped.
THEOREM TypeCorrect == Spec => []TypeOK
  <1>1. MutationInv /\ ReadInv => TypeOK
    BY DEF MutationInv, MutationTypeOK, ReadInv, ReadTypeOK, TypeOK
  <1> QED
    BY <1>1, MutationSafety, ReadSafety, PTL

\* For every number of threads: read permits are counted exactly and never
\* exceed max_concurrent_reads.
THEOREM ReadsBounded == Spec => []ReadPermitsBounded
  <1>1. ReadInv => ReadPermitsBounded
    BY DEF ReadInv
  <1> QED
    BY <1>1, ReadSafety, PTL

-----------------------------------------------------------------------------
(* Entries of the map.                                                     *)

\* Every step leaves an entry only for a space that is held or waited for.
LEMMA EntrySteps ==
    ASSUME MutationInv, NoEntryLeak, [Next]_vars
    PROVE  NoEntryLeak'
  <1> USE DEF MutationInv, MutationTypeOK, PCs, NoEntryLeak
  <1>1. ASSUME NEW t \in Threads, NEW s \in Spaces, AcquireMutationAtOnce(t, s)
        PROVE  NoEntryLeak'
    BY <1>1 DEF AcquireMutationAtOnce
  <1>2. ASSUME NEW t \in Threads, NEW s \in Spaces, EnqueueMutation(t, s)
        PROVE  NoEntryLeak'
    <2>1. Append(waiting[s], t) # <<>>
      BY AppendProperties
    <2> QED
      BY <1>2, <2>1 DEF EnqueueMutation
  <1>3. ASSUME NEW t \in Threads, GrantMutation(t)
        PROVE  NoEntryLeak'
    BY <1>3 DEF GrantMutation
  <1>4. ASSUME NEW t \in Threads, GiveUpMutation(t)
        PROVE  NoEntryLeak'
    BY <1>4 DEF GiveUpMutation
  <1>5. ASSUME NEW t \in Threads, DropMutationPermit(t)
        PROVE  NoEntryLeak'
    BY <1>5 DEF DropMutationPermit
  <1>6. ASSUME NEW t \in Threads, ReadStep(t) \/ Signal(t) \/ \E s \in Spaces : RefuseMutation(t, s)
        PROVE  NoEntryLeak'
    BY <1>6 DEF ReadStep, AcquireReadAtOnce, RefuseRead, EnqueueRead, GrantRead, GiveUpRead,
                DropReadPermit, Signal, RefuseMutation, mutationVars
  <1>7. CASE UNCHANGED vars
    BY <1>7 DEF vars
  <1> QED
    BY <1>1, <1>2, <1>3, <1>4, <1>5, <1>6, <1>7 DEF Next, MutationStep

\* The map never holds the entry of an idle space, whoever gave up, was refused
\* or dropped its permit last.
THEOREM NoEntryLeaks == Spec => []NoEntryLeak
  <1>1. Init => NoEntryLeak
    BY DEF Init, NoEntryLeak
  <1>2. MutationInv /\ NoEntryLeak /\ [Next]_vars => NoEntryLeak'
    BY EntrySteps
  <1> QED
    BY <1>1, <1>2, MutationSafety, PTL DEF Spec

-----------------------------------------------------------------------------
(* The scheduler implements FifoLock.                                      *)

\* What a line looks like behind its head.
LEMMA BehindHead ==
    ASSUME NEW S, NEW q \in Seq(S), NEW t \in S
    PROVE  /\ <<t>> \o q \in Seq(S)
           /\ Len(<<t>> \o q) = Len(q) + 1
           /\ (<<t>> \o q)[1] = t
           /\ \A i \in 1..Len(q) : (<<t>> \o q)[i + 1] = q[i]
           /\ <<t>> \o q # <<>>
           /\ Head(<<t>> \o q) = t
  <1>1. <<t>> \in Seq(S) /\ Len(<<t>>) = 1 /\ <<t>>[1] = t
    OBVIOUS
  <1> DEFINE h == <<t>>
  <1> HIDE DEF h
  <1>2. /\ h \o q \in Seq(S)
        /\ Len(h \o q) = 1 + Len(q)
        /\ \A i \in 1..(1 + Len(q)) : (h \o q)[i] = IF i <= 1 THEN h[i] ELSE q[i - 1]
    BY <1>1, ConcatProperties DEF h
  <1>3. Len(q) \in Nat
    OBVIOUS
  <1>4. (h \o q)[1] = t /\ \A i \in 1..Len(q) : (h \o q)[i + 1] = q[i]
    BY <1>1, <1>2, <1>3 DEF h
  <1>5. h \o q # <<>> /\ Head(h \o q) = (h \o q)[1]
    BY <1>2, <1>3
  <1> QED
    BY <1>2, <1>3, <1>4, <1>5 DEF h

\* Joining and leaving a line behind its head.
LEMMA LineSteps ==
    ASSUME NEW S, NEW q \in Seq(S), NEW t \in S
    PROVE  /\ \A e \in S : Append(<<t>> \o q, e) = <<t>> \o Append(q, e)
           /\ RemoveAt(<<t>> \o q, 1) = q
           /\ \A k \in DOMAIN q : /\ k + 1 \in DOMAIN (<<t>> \o q)
                                  /\ RemoveAt(<<t>> \o q, k + 1) = <<t>> \o RemoveAt(q, k)
           /\ q # <<>> => <<Head(q)>> \o Tail(q) = q
  <1> DEFINE l == <<t>> \o q
  <1>1. /\ l \in Seq(S) /\ Len(l) = Len(q) + 1 /\ l[1] = t
        /\ \A i \in 1..Len(q) : l[i + 1] = q[i]
    BY BehindHead
  <1>n. Len(q) \in Nat /\ DOMAIN q = 1..Len(q) /\ DOMAIN l = 1..(Len(q) + 1)
    BY <1>1
  <1>2. ASSUME NEW e \in S
        PROVE  Append(l, e) = <<t>> \o Append(q, e)
    BY AppendIsConcat, ConcatAssociative, <1>1
  <1> HIDE DEF l
  <1>3. RemoveAt(l, 1) = q
    <2> DEFINE a == RemoveAt(l, 1)
    <2>0. /\ a \in Seq(S) /\ Len(a) = Len(l) - 1
          /\ \A i \in 1..(Len(l) - 1) : a[i] = IF i < 1 THEN l[i] ELSE l[i + 1]
      <3>1. 1 \in DOMAIN l
        BY <1>n
      <3> QED
        BY <1>1, <3>1, RemoveIndex
    <2> HIDE DEF a
    <2>1. Len(a) = Len(q) /\ \A i \in 1..Len(q) : a[i] = q[i]
      BY <1>1, <1>n, <2>0
    <2> QED
      BY <1>1, <2>0, <2>1, SeqEqual DEF a
  <1>4. ASSUME NEW k \in DOMAIN q
        PROVE  RemoveAt(l, k + 1) = <<t>> \o RemoveAt(q, k) /\ k + 1 \in DOMAIN l
    <2> DEFINE a == RemoveAt(l, k + 1)
               r == RemoveAt(q, k)
               b == <<t>> \o r
    <2>0. k \in 1..Len(q) /\ k + 1 \in DOMAIN l
      BY <1>n
    <2>1. /\ r \in Seq(S) /\ Len(r) = Len(q) - 1
          /\ \A i \in 1..(Len(q) - 1) : r[i] = IF i < k THEN q[i] ELSE q[i + 1]
      BY RemoveIndex
    <2>2. /\ a \in Seq(S) /\ Len(a) = Len(q)
          /\ \A i \in 1..Len(q) : a[i] = IF i < k + 1 THEN l[i] ELSE l[i + 1]
      <3>1. /\ a \in Seq(S) /\ Len(a) = Len(l) - 1
            /\ \A i \in 1..(Len(l) - 1) : a[i] = IF i < k + 1 THEN l[i] ELSE l[i + 1]
        BY <1>1, <2>0, RemoveIndex
      <3>2. Len(l) - 1 = Len(q)
        BY <1>1, <1>n
      <3> QED
        BY <3>1, <3>2
    <2> HIDE DEF r
    <2>3. /\ b \in Seq(S) /\ Len(b) = Len(r) + 1 /\ b[1] = t
          /\ \A i \in 1..Len(r) : b[i + 1] = r[i]
      BY <2>1, BehindHead
    <2> HIDE DEF a, b
    <2>4. ASSUME NEW i \in 1..Len(q)
          PROVE  a[i] = b[i]
      <3>1. CASE i = 1
        BY <1>1, <1>n, <2>0, <2>2, <2>3, <3>1
      <3>2. CASE i # 1
        <4>1. i - 1 \in 1..Len(r) /\ (i - 1) + 1 = i /\ i - 1 \in 1..Len(q)
          BY <1>n, <2>0, <2>1, <3>2
        <4>2. b[i] = r[i - 1]
          BY <2>3, <4>1
        <4>3. l[i] = q[i - 1] /\ (i < Len(q) + 1 => l[i + 1] = q[i])
          BY <1>1, <4>1
        <4>4. r[i - 1] = IF i - 1 < k THEN q[i - 1] ELSE q[i]
          BY <2>1, <4>1
        <4> QED
          BY <1>n, <2>0, <2>2, <4>2, <4>3, <4>4
      <3> QED
        BY <3>1, <3>2
    <2> QED
      <3>1. Len(a) = Len(b)
        BY <1>n, <2>1, <2>2, <2>3
      <3>2. a = b
        BY <2>2, <2>3, <2>4, <3>1, SeqEqual
      <3> QED
        BY <2>0, <3>2 DEF a, b, r
  <1>5. ASSUME q # <<>>
        PROVE  <<Head(q)>> \o Tail(q) = q
    <2>1. /\ Head(q) \in S /\ Tail(q) \in Seq(S) /\ Len(Tail(q)) = Len(q) - 1 /\ Head(q) = q[1]
          /\ \A i \in 1..Len(Tail(q)) : Tail(q)[i] = q[i + 1]
      BY <1>5, HeadTailProperties
    <2> DEFINE b == <<Head(q)>> \o Tail(q)
    <2>2. /\ b \in Seq(S) /\ Len(b) = Len(Tail(q)) + 1 /\ b[1] = Head(q)
          /\ \A i \in 1..Len(Tail(q)) : b[i + 1] = Tail(q)[i]
      BY <2>1, BehindHead
    <2> HIDE DEF b
    <2>3. ASSUME NEW i \in 1..Len(q)
          PROVE  b[i] = q[i]
      <3>1. CASE i = 1
        BY <2>1, <2>2, <3>1
      <3>2. CASE i # 1
        <4>1. i - 1 \in 1..Len(Tail(q)) /\ (i - 1) + 1 = i
          BY <1>n, <2>1, <3>2
        <4> QED
          BY <2>1, <2>2, <4>1
      <3> QED
        BY <3>1, <3>2
    <2> QED
      <3>1. Len(b) = Len(q)
        BY <1>n, <2>1, <2>2
      <3> QED
        BY <2>2, <2>3, <3>1, SeqEqual DEF b
  <1> QED
    BY <1>2, <1>3, <1>4, <1>5 DEF l

Lines == [s \in Spaces |-> LineOf(s)]
Granted == {t \in Threads : pc[t] = "mutationHeld"}


\* Removing from the line behind its head.
LEMMA LineRemoved ==
    ASSUME NEW S, NEW q \in Seq(S), NEW t \in S, NEW k \in DOMAIN q
    PROVE  /\ k + 1 \in DOMAIN (<<t>> \o q)
           /\ RemoveAt(<<t>> \o q, k + 1) = <<t>> \o RemoveAt(q, k)
  BY LineSteps, ZenonT(60)

\* A line without a holder is the queue of waiters, and one with a holder is the
\* holder followed by them.
LineFacts ==
    \A s \in Spaces :
        /\ waiting[s] \in Seq(Threads)
        /\ ~active[s] => LineOf(s) = waiting[s]
        /\ active[s] => \E t \in Threads : pc[t] = "mutationHeld" /\ space[t] = s
        /\ \A t \in Threads : pc[t] = "mutationHeld" /\ space[t] = s
                             => active[s] /\ LineOf(s) = <<t>> \o waiting[s]

\* The invariant gives lines that shape.
LEMMA LineShape == MutationInv => LineFacts
  <1> SUFFICES ASSUME MutationInv, NEW s \in Spaces
               PROVE  /\ waiting[s] \in Seq(Threads)
                      /\ ~active[s] => LineOf(s) = waiting[s]
                      /\ active[s] => \E t \in Threads : pc[t] = "mutationHeld" /\ space[t] = s
                      /\ \A t \in Threads : pc[t] = "mutationHeld" /\ space[t] = s
                            => active[s] /\ LineOf(s) = <<t>> \o waiting[s]
    BY DEF LineFacts
  <1> USE DEF MutationInv, MutationTypeOK
  <1>1. ASSUME NEW t \in Threads, pc[t] = "mutationHeld", space[t] = s
        PROVE  active[s] /\ LineOf(s) = <<t>> \o waiting[s]
    <2>1. active[s] /\ HoldersOf(s) = {t}
      BY <1>1 DEF HoldersOf, OnePermitPerSpace
    <2>2. (CHOOSE u \in HoldersOf(s) : TRUE) = t
      BY <2>1
    <2> QED
      BY <2>1, <2>2 DEF LineOf
  <1> QED
    BY <1>1 DEF LineOf, OnePermitPerSpace

\* And so in the next state.
LEMMA LineShapeNext == MutationInv' => LineFacts'
  BY LineShape, PTL

\* A line keeps its order as long as its queue and its holder stay.
LEMMA LineFrame ==
    ASSUME MutationInv, MutationInv', NEW s \in Spaces,
           active'[s] = active[s], waiting'[s] = waiting[s],
           \A t \in Threads : (pc[t] = "mutationHeld" /\ space[t] = s)
                                <=> (pc'[t] = "mutationHeld" /\ space'[t] = s)
    PROVE  LineOf(s)' = LineOf(s)
  <1>0. LineFacts /\ LineFacts'
    BY LineShape, LineShapeNext
  <1>1. CASE ~active[s]
    BY <1>1 DEF LineOf
  <1>2. CASE active[s]
    <2>1. PICK t \in Threads : pc[t] = "mutationHeld" /\ space[t] = s
      BY <1>0, <1>2 DEF LineFacts
    <2>2. LineOf(s) = <<t>> \o waiting[s] /\ LineOf(s)' = <<t>> \o waiting'[s]
      BY <1>0, <2>1 DEF LineFacts
    <2> QED
      BY <2>2
  <1> QED
    BY <1>1, <1>2

\* A thread that neither waits nor holds stands in no line.
LEMMA NotInLine ==
    ASSUME MutationInv, NEW t \in Threads, pc[t] \notin {"mutationWait", "mutationHeld"}
    PROVE  \A r \in Spaces : ~Lock!InLine(t, r)
  <1> SUFFICES ASSUME NEW r \in Spaces, NEW i \in DOMAIN LineOf(r), LineOf(r)[i] = t
               PROVE  FALSE
    BY DEF Lock!InLine
  <1>0. LineFacts /\ ~Queued(t, waiting[r]) /\ waiting[r] \in Seq(Threads)
    BY LineShape DEF MutationInv, MutationTypeOK, WaitersRegistered
  <1>1. CASE ~active[r]
    BY <1>0, <1>1 DEF LineFacts, Queued
  <1>2. CASE active[r]
    <2>1. PICK u \in Threads : pc[u] = "mutationHeld" /\ space[u] = r
      BY <1>0, <1>2 DEF LineFacts
    <2>2. LineOf(r) = <<u>> \o waiting[r]
      BY <1>0, <2>1 DEF LineFacts
    <2>3. i \in 1..(Len(waiting[r]) + 1) /\ Len(waiting[r]) \in Nat
      BY <1>0, <2>2, BehindHead, LenProperties
    <2>4. CASE i = 1
      BY <1>0, <2>1, <2>2, <2>4, BehindHead
    <2>5. CASE i # 1
      <3>1. i - 1 \in 1..Len(waiting[r]) /\ (i - 1) + 1 = i
        BY <2>3, <2>5
      <3>2. waiting[r][i - 1] = t
        BY <1>0, <2>2, <3>1, BehindHead
      <3> QED
        BY <1>0, <3>1, <3>2 DEF Queued
    <2> QED
      BY <2>4, <2>5
  <1> QED
    BY <1>1, <1>2

\* Every step of a thread asking for, waiting for or holding a mutation permit is a
\* step of the lock, or changes nothing the lock sees.
LEMMA LockSteps ==
    ASSUME MutationInv, MutationInv', NEW t \in Threads, MutationStep(t)
    PROVE  Lock!Next \/ (Lines' = Lines /\ Granted' = Granted)
  <1>t. /\ pc \in [Threads -> PCs] /\ space \in [Threads -> Spaces]
        /\ active \in [Spaces -> BOOLEAN] /\ waiting \in [Spaces -> Seq(Threads)]
    BY DEF MutationInv, MutationTypeOK
  <1>0. LineFacts /\ LineFacts'
    BY LineShape, LineShapeNext
  <1>1. ASSUME NEW s \in Spaces, AcquireMutationAtOnce(t, s)
        PROVE  Lock!JoinAndGrant(t, s)
    <2>1. \A r \in Spaces : ~Lock!InLine(t, r)
      BY <1>t, <1>1, NotInLine DEF AcquireMutationAtOnce
    <2>2. LineOf(s) = <<>> /\ waiting[s] = <<>>
      BY <1>t, <1>0, <1>1 DEF AcquireMutationAtOnce, Uncontended, LineFacts
    <2>3. pc'[t] = "mutationHeld" /\ space'[t] = s /\ waiting'[s] = <<>>
      BY <1>t, <1>1, <2>2 DEF AcquireMutationAtOnce, Returns
    <2>4. LineOf(s)' = <<t>>
      <3>1. LineOf(s)' = <<t>> \o waiting'[s]
        BY <1>0, <2>3, Zenon DEF LineFacts
      <3>2. <<t>> \o <<>> = <<t>>
        OBVIOUS
      <3> QED
        BY <2>3, <3>1, <3>2, Zenon
    <2>5. \A r \in Spaces \ {s} : LineOf(r)' = LineOf(r)
      BY <1>t, <1>1, LineFrame DEF AcquireMutationAtOnce, Returns
    <2>6. Granted' = Granted \cup {t}
      BY <1>t, <1>1 DEF AcquireMutationAtOnce, Returns, Granted
    <2>7. Lines' = [Lines EXCEPT ![s] = <<t>>]
      BY <2>4, <2>5 DEF Lines
    <2> QED
      BY <2>1, <2>2, <2>6, <2>7 DEF Lock!JoinAndGrant, Lines, Granted
  <1>2. ASSUME NEW s \in Spaces, RefuseMutation(t, s)
        PROVE  Lines' = Lines /\ Granted' = Granted
    <2>1. \A r \in Spaces : LineOf(r)' = LineOf(r)
      BY <1>t, <1>2, LineFrame DEF RefuseMutation, Returns, mutationVars
    <2> QED
      BY <1>t, <1>2, <2>1 DEF RefuseMutation, Returns, Lines, Granted
  <1>3. ASSUME NEW s \in Spaces, EnqueueMutation(t, s)
        PROVE  Lock!Join(t, s)
    <2>1. \A r \in Spaces : ~Lock!InLine(t, r)
      BY <1>t, <1>3, NotInLine DEF EnqueueMutation
    <2>2. /\ waiting'[s] = Append(waiting[s], t) /\ active' = active
          /\ \A r \in Spaces \ {s} : waiting'[r] = waiting[r]
          /\ \A u \in Threads, r \in Spaces : (pc[u] = "mutationHeld" /\ space[u] = r)
                                          <=> (pc'[u] = "mutationHeld" /\ space'[u] = r)
      BY <1>t, <1>3 DEF EnqueueMutation
    <2>3. LineOf(s)' = Append(LineOf(s), t)
      <3>1. CASE ~active[s]
        BY <1>0, <2>2, <3>1 DEF LineFacts
      <3>2. CASE active[s]
        <4>1. PICK u \in Threads : pc[u] = "mutationHeld" /\ space[u] = s
          BY <1>0, <3>2 DEF LineFacts
        <4>1a. pc'[u] = "mutationHeld" /\ space'[u] = s
          BY <2>2, <4>1
        <4>2. LineOf(s) = <<u>> \o waiting[s] /\ LineOf(s)' = <<u>> \o waiting'[s]
          BY <1>0, <4>1, <4>1a, Zenon DEF LineFacts
        <4>3. Append(<<u>> \o waiting[s], t) = <<u>> \o Append(waiting[s], t)
          <5>1. waiting[s] \in Seq(Threads)
            BY <1>t
          <5> QED
            BY <5>1, LineSteps
        <4> QED
          BY <2>2, <4>2, <4>3, Zenon
      <3> QED
        BY <3>1, <3>2
    <2>4. \A r \in Spaces \ {s} : LineOf(r)' = LineOf(r)
      BY <2>2, LineFrame
    <2>5. Lines' = [Lines EXCEPT ![s] = Append(@, t)]
      BY <2>3, <2>4 DEF Lines
    <2>6. Granted' = Granted
      BY <1>t, <1>3 DEF EnqueueMutation, Granted
    <2> QED
      BY <2>1, <2>5, <2>6 DEF Lock!Join, Lines, Granted
  <1>4. ASSUME GrantMutation(t)
        PROVE  \E s \in Spaces : Lock!Grant(t, s)
    <2>0. PICK s \in Spaces : s = space[t]
      BY <1>t
    <2>1. /\ s \in Spaces /\ waiting[s] # <<>> /\ Head(waiting[s]) = t /\ ~active[s]
          /\ waiting'[s] = Tail(waiting[s]) /\ pc'[t] = "mutationHeld" /\ space'[t] = s
          /\ waiting[s] \in Seq(Threads)
      BY <1>t, <1>4, <2>0 DEF GrantMutation, Returns
    <2>2. LineOf(s) = waiting[s] /\ LineOf(s)' = <<t>> \o waiting'[s]
      BY <1>0, <2>1, Zenon DEF LineFacts
    <2>3. LineOf(s)' = LineOf(s)
      <3>1. <<Head(waiting[s])>> \o Tail(waiting[s]) = waiting[s]
        BY <2>1, LineSteps, Zenon
      <3> QED
        BY <2>1, <2>2, <3>1, Zenon
    <2>4. \A r \in Spaces \ {s} : LineOf(r)' = LineOf(r)
      BY <1>t, <1>4, <2>0, LineFrame DEF GrantMutation, Returns
    <2>5. Lines' = Lines
      BY <2>3, <2>4 DEF Lines
    <2>6. Granted' = Granted \cup {t}
      BY <1>t, <1>4 DEF GrantMutation, Returns, Granted
    <2>7. Lines[s] # <<>> /\ t = Head(Lines[s])
      BY <2>1, <2>2 DEF Lines
    <2> QED
      BY <2>0, <2>5, <2>6, <2>7 DEF Lock!Grant, Lines, Granted
  <1>5. ASSUME GiveUpMutation(t)
        PROVE  \E s \in Spaces : Lock!Leave(t, s)
    <2>0. PICK s \in Spaces : s = space[t]
      BY <1>t
    <2>1. PICK i \in DOMAIN waiting[s] :
             waiting[s][i] = t /\ waiting' = [waiting EXCEPT ![s] = RemoveAt(@, i)]
      BY <1>t, <1>5, <2>0 DEF GiveUpMutation
    <2>2. /\ s \in Spaces /\ active' = active /\ waiting[s] \in Seq(Threads)
          /\ waiting'[s] = RemoveAt(waiting[s], i)
          /\ \A r \in Spaces \ {s} : waiting'[r] = waiting[r]
          /\ \A u \in Threads, r \in Spaces : (pc[u] = "mutationHeld" /\ space[u] = r)
                                          <=> (pc'[u] = "mutationHeld" /\ space'[u] = r)
      BY <1>t, <1>5, <2>0, <2>1 DEF GiveUpMutation, Returns
    <2>3. \E k \in DOMAIN LineOf(s) : LineOf(s)[k] = t /\ LineOf(s)' = RemoveAt(LineOf(s), k)
      <3>1. CASE ~active[s]
        <4>1. LineOf(s) = waiting[s] /\ LineOf(s)' = waiting'[s]
          BY <1>0, <2>2, <3>1, Zenon DEF LineFacts
        <4> QED
          BY <2>1, <2>2, <4>1, Zenon
      <3>2. CASE active[s]
        <4>1. PICK u \in Threads : pc[u] = "mutationHeld" /\ space[u] = s
          BY <1>0, <2>2, <3>2 DEF LineFacts
        <4>1a. pc'[u] = "mutationHeld" /\ space'[u] = s
          BY <2>2, <4>1
        <4>2. LineOf(s) = <<u>> \o waiting[s] /\ LineOf(s)' = <<u>> \o waiting'[s]
          BY <1>0, <4>1, <4>1a, Zenon DEF LineFacts
        <4>3. i + 1 \in DOMAIN LineOf(s) /\ LineOf(s)' = RemoveAt(LineOf(s), i + 1)
          <5>0. waiting[s] \in Seq(Threads)
            BY <2>2
          <5>1. /\ i + 1 \in DOMAIN (<<u>> \o waiting[s])
                /\ RemoveAt(<<u>> \o waiting[s], i + 1) = <<u>> \o RemoveAt(waiting[s], i)
            <6>1. i \in DOMAIN waiting[s]
              BY <2>2
            <6> QED
              BY <4>1, <5>0, <6>1, LineRemoved
          <5> QED
            BY <2>2, <4>2, <5>1, Zenon
        <4>4. LineOf(s)[i + 1] = t
          <5>0. waiting[s] \in Seq(Threads)
            BY <2>2
          <5>1. i \in 1..Len(waiting[s])
            BY <2>1, <2>2
          <5>2. (<<u>> \o waiting[s])[i + 1] = waiting[s][i]
            BY <5>0, <5>1, BehindHead
          <5> QED
            BY <2>1, <4>2, <5>2, Zenon
        <4> QED
          BY <4>3, <4>4
      <3> QED
        BY <3>1, <3>2
    <2>4. \A r \in Spaces \ {s} : LineOf(r)' = LineOf(r)
      BY <2>2, LineFrame
    <2>5. PICK k \in DOMAIN Lines[s] :
             Lines[s][k] = t /\ Lines' = [Lines EXCEPT ![s] = RemoveAt(@, k)]
      <3>1. PICK k \in DOMAIN LineOf(s) : LineOf(s)[k] = t /\ LineOf(s)' = RemoveAt(LineOf(s), k)
        BY <2>3
      <3>2. Lines' = [Lines EXCEPT ![s] = RemoveAt(@, k)] /\ Lines[s] = LineOf(s)
        BY <2>4, <3>1 DEF Lines
      <3> QED
        BY <3>1, <3>2, Zenon
    <2>6. Granted' = Granted \ {t}
      BY <1>t, <1>5 DEF GiveUpMutation, Returns, Granted
    <2> QED
      BY <2>0, <2>5, <2>6 DEF Lock!Leave, Lines, Granted, RemoveAt
  <1>6. ASSUME DropMutationPermit(t)
        PROVE  \E s \in Spaces : Lock!Leave(t, s)
    <2>0. PICK s \in Spaces : s = space[t]
      BY <1>t
    <2>1. /\ s \in Spaces /\ pc[t] = "mutationHeld" /\ ~active'[s] /\ waiting' = waiting
          /\ waiting[s] \in Seq(Threads)
      BY <1>t, <1>6, <2>0 DEF DropMutationPermit
    <2>2. LineOf(s) = <<t>> \o waiting[s] /\ LineOf(s)' = waiting'[s]
      BY <1>0, <2>0, <2>1, Zenon DEF LineFacts
    <2>3. LineOf(s)' = RemoveAt(LineOf(s), 1)
      <3>1. RemoveAt(<<t>> \o waiting[s], 1) = waiting[s]
        BY <2>1, LineSteps, Zenon
      <3> QED
        BY <2>1, <2>2, <3>1, Zenon
    <2>3a. 1 \in DOMAIN LineOf(s) /\ LineOf(s)[1] = t
      <3>1. Len(LineOf(s)) = Len(waiting[s]) + 1 /\ LineOf(s) \in Seq(Threads) /\ LineOf(s)[1] = t
        BY <2>1, <2>2, BehindHead
      <3>2. Len(waiting[s]) \in Nat
        BY <2>1
      <3> QED
        BY <3>1, <3>2
    <2>4. \A r \in Spaces \ {s} : LineOf(r)' = LineOf(r)
      BY <1>t, <1>6, <2>0, LineFrame DEF DropMutationPermit
    <2>5. Lines' = [Lines EXCEPT ![s] = RemoveAt(@, 1)] /\ 1 \in DOMAIN Lines[s] /\ Lines[s][1] = t
      BY <2>1, <2>3, <2>3a, <2>4 DEF Lines
    <2>6. Granted' = Granted \ {t}
      BY <1>t, <1>6 DEF DropMutationPermit, Granted
    <2> QED
      BY <2>0, <2>5, <2>6 DEF Lock!Leave, Lines, Granted, RemoveAt
  <1>8. ASSUME NEW s \in Spaces,
               Lock!Join(t, s) \/ Lock!Grant(t, s) \/ Lock!JoinAndGrant(t, s) \/ Lock!Leave(t, s)
        PROVE  Lock!Next
    BY <1>8, Zenon DEF Lock!Next
  <1>9. CASE GrantMutation(t) \/ GiveUpMutation(t) \/ DropMutationPermit(t)
    BY <1>4, <1>5, <1>6, <1>8, <1>9, Zenon
  <1>10. ASSUME NEW s \in Spaces,
                AcquireMutationAtOnce(t, s) \/ RefuseMutation(t, s) \/ EnqueueMutation(t, s)
         PROVE  Lock!Next \/ (Lines' = Lines /\ Granted' = Granted)
    BY <1>1, <1>2, <1>3, <1>8, <1>10, Zenon
  <1> QED
    BY <1>9, <1>10, Zenon DEF MutationStep

\* Reading and being cancelled change nothing the lock sees.
LEMMA LockStutters ==
    ASSUME MutationInv, MutationInv', NEW t \in Threads, Signal(t) \/ ReadStep(t)
    PROVE  Lines' = Lines /\ Granted' = Granted
  <1>1. /\ active' = active /\ waiting' = waiting
        /\ \A u \in Threads : space'[u] = space[u] /\ (pc'[u] = "mutationHeld" <=> pc[u] = "mutationHeld")
    BY DEF MutationInv, MutationTypeOK, PCs, Signal, ReadStep, AcquireReadAtOnce, RefuseRead,
           EnqueueRead, GrantRead, GiveUpRead, DropReadPermit, Returns, mutationVars
  <1>2. \A s \in Spaces : LineOf(s)' = LineOf(s)
    BY <1>1, LineFrame
  <1> QED
    BY <1>1, <1>2 DEF Lines, Granted

\* For every number of threads and spaces, permits of a space are granted in order of
\* arrival and to the head of its line only, whoever gives up in between.
THEOREM GrantsInOrder == Spec => ImplementsFifoLock
  <1>1. Init => Lock!Init
    <2> SUFFICES ASSUME Init PROVE Lock!Init
      OBVIOUS
    <2>1. \A s \in Spaces : LineOf(s) = <<>>
      BY DEF Init, LineOf
    <2> QED
      BY <2>1 DEF Lock!Init, Init
  <1>2. MutationInv /\ MutationInv' /\ [Next]_vars => [Lock!Next]_(Lock!lockVars)
    <2> SUFFICES ASSUME MutationInv, MutationInv', [Next]_vars
                 PROVE  Lock!Next \/ (Lines' = Lines /\ Granted' = Granted)
      BY DEF Lock!lockVars, Lines, Granted
    <2>1. ASSUME NEW t \in Threads, MutationStep(t)
          PROVE  Lock!Next \/ (Lines' = Lines /\ Granted' = Granted)
      BY <2>1, LockSteps
    <2>2. ASSUME NEW t \in Threads, Signal(t) \/ ReadStep(t)
          PROVE  Lines' = Lines /\ Granted' = Granted
      BY <2>2, LockStutters
    <2>3. CASE UNCHANGED vars
      BY <2>3 DEF vars, Lines, Granted, LineOf, HoldersOf
    <2> QED
      BY <2>1, <2>2, <2>3 DEF Next
  <1> QED
    BY <1>1, <1>2, MutationSafety, PTL DEF Spec, Lock!Spec, ImplementsFifoLock
=============================================================================
