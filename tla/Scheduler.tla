----------------------------- MODULE Scheduler -----------------------------
(***************************************************************************)
(* Bounded admission of host operations (agentyc-host/src/scheduler.rs).   *)
(* A thread asks for the mutation permit of a space or for a read permit;  *)
(* it gets it at once, is refused because a wait queue is full, or waits   *)
(* in FIFO order, re-examining the shared state at most every 25 ms until  *)
(* it is granted, cancelled or past its deadline.  Each action below is    *)
(* one critical section of the scheduler's mutex.                          *)
(***************************************************************************)
EXTENDS Naturals, FiniteSets, Sequences, SequencesExt

CONSTANTS
    Threads,              \* threads of host operations
    Patient,              \* those that call the uncancellable entry points
    Spaces,
    MaxConcurrentReads,
    MaxQueuedReads,
    MaxQueuedMutations,
    MaxQueuedMutationsPerSpace

\* Scheduler::new refuses zero read slots.
ASSUME SchedulerAssumption ==
    /\ Patient \subseteq Threads
    /\ IsFiniteSet(Threads)
    /\ IsFiniteSet(Spaces)
    /\ MaxConcurrentReads \in Nat \ {0}
    /\ MaxQueuedReads \in Nat
    /\ MaxQueuedMutations \in Nat
    /\ MaxQueuedMutationsPerSpace \in Nat

VARIABLES
    pc,           \* where each thread is in its call
    space,        \* the space of a thread's mutation call
    signal,       \* the thread's token is cancelled or its deadline is past
    mutations,    \* the keys of State.mutations
    active,       \* MutationQueue.active, by space
    waiting,      \* MutationQueue.waiting, by space
    activeReads,
    readQueue

vars == <<pc, space, signal, mutations, active, waiting, activeReads, readQueue>>

mutationVars == <<space, mutations, active, waiting>>
readVars == <<activeReads, readQueue>>

PCs == {"idle", "mutationWait", "mutationHeld", "readWait", "readHeld"}

\* The thread returns from its call, at label `where`: its token is dropped.
Returns(t, where) ==
    /\ pc' = [pc EXCEPT ![t] = where]
    /\ signal' = [signal EXCEPT ![t] = FALSE]

Init ==
    /\ pc = [t \in Threads |-> "idle"]
    /\ space \in [Threads -> Spaces]
    /\ signal = [t \in Threads |-> FALSE]
    /\ mutations = {}
    /\ active = [s \in Spaces |-> FALSE]
    /\ waiting = [s \in Spaces |-> <<>>]
    /\ activeReads = 0
    /\ readQueue = <<>>

\* The caller cancels, or its deadline passes: before the call or during it.
Signal(t) ==
    /\ t \notin Patient
    /\ ~signal[t]
    /\ pc[t] \in {"idle", "mutationWait", "readWait"}
    /\ signal' = [signal EXCEPT ![t] = TRUE]
    /\ UNCHANGED <<pc, mutationVars, readVars>>

-----------------------------------------------------------------------------
(* Mutations: one permit per space.                                        *)

UncontendedIgnoringWaiters(s) == ~active[s]

Uncontended(s) == ~active[s] /\ waiting[s] = <<>>

QueuedMutations == MapThenSumSet(LAMBDA s : Len(waiting[s]), mutations)

QueueFull(s) ==
    \/ Len(waiting[s]) >= MaxQueuedMutationsPerSpace
    \/ QueuedMutations >= MaxQueuedMutations

AcquireMutationAtOnce(t, s) ==
    /\ pc[t] = "idle"
    /\ Uncontended(s)
    /\ space' = [space EXCEPT ![t] = s]
    /\ mutations' = mutations \cup {s}
    /\ active' = [active EXCEPT ![s] = TRUE]
    /\ Returns(t, "mutationHeld")
    /\ UNCHANGED <<waiting, readVars>>

\* Backpressure; or the first round of the wait loop finds the token signalled
\* and takes the entry out again.
RefuseMutation(t, s) ==
    /\ pc[t] = "idle"
    /\ ~Uncontended(s)
    /\ QueueFull(s) \/ signal[t]
    /\ Returns(t, "idle")
    /\ UNCHANGED <<mutationVars, readVars>>

EnqueueMutation(t, s) ==
    /\ pc[t] = "idle"
    /\ ~Uncontended(s)
    /\ ~QueueFull(s)
    /\ ~signal[t]
    /\ pc' = [pc EXCEPT ![t] = "mutationWait"]
    /\ space' = [space EXCEPT ![t] = s]
    /\ waiting' = [waiting EXCEPT ![s] = Append(@, t)]
    /\ UNCHANGED <<signal, mutations, active, readVars>>

GrantMutationWhileActive(t) ==
    LET s == space[t] IN
    /\ pc[t] = "mutationWait"
    /\ ~signal[t]
    /\ waiting[s] # <<>>
    /\ Head(waiting[s]) = t
    /\ waiting' = [waiting EXCEPT ![s] = Tail(@)]
    /\ active' = [active EXCEPT ![s] = TRUE]
    /\ Returns(t, "mutationHeld")
    /\ UNCHANGED <<space, mutations, readVars>>

\* A round of the wait loop that finds the token at the front of a free queue.
GrantMutation(t) ==
    LET s == space[t] IN
    /\ pc[t] = "mutationWait"
    /\ ~signal[t]
    /\ waiting[s] # <<>>
    /\ Head(waiting[s]) = t
    /\ ~active[s]
    /\ waiting' = [waiting EXCEPT ![s] = Tail(@)]
    /\ active' = [active EXCEPT ![s] = TRUE]
    /\ Returns(t, "mutationHeld")
    /\ UNCHANGED <<space, mutations, readVars>>

\* The waiter returns without taking its token out of the queue.
GiveUpMutationKeepingToken(t) ==
    /\ pc[t] = "mutationWait"
    /\ signal[t]
    /\ Returns(t, "idle")
    /\ UNCHANGED <<mutationVars, readVars>>

\* remove_mutation_waiter: the entry goes with its last waiter, unless a permit
\* of the space is out.
GiveUpMutation(t) ==
    LET s == space[t] IN
    /\ pc[t] = "mutationWait"
    /\ signal[t]
    /\ \E i \in DOMAIN waiting[s] :
          /\ waiting[s][i] = t
          /\ waiting' = [waiting EXCEPT ![s] = RemoveAt(@, i)]
    /\ mutations' = IF ~active[s] /\ waiting'[s] = <<>>
                    THEN mutations \ {s} ELSE mutations
    /\ Returns(t, "idle")
    /\ UNCHANGED <<space, active, readVars>>

\* The entry is dropped with the permit whoever still waits.
DropMutationPermitAndQueue(t) ==
    LET s == space[t] IN
    /\ pc[t] = "mutationHeld"
    /\ active' = [active EXCEPT ![s] = FALSE]
    /\ mutations' = mutations \ {s}
    /\ pc' = [pc EXCEPT ![t] = "idle"]
    /\ UNCHANGED <<space, signal, waiting, readVars>>

\* The entry stays behind when its last permit is dropped.
DropMutationPermitKeepingEntry(t) ==
    /\ pc[t] = "mutationHeld"
    /\ active' = [active EXCEPT ![space[t]] = FALSE]
    /\ pc' = [pc EXCEPT ![t] = "idle"]
    /\ UNCHANGED <<space, signal, mutations, waiting, readVars>>

\* MutationPermit::drop.
DropMutationPermit(t) ==
    LET s == space[t] IN
    /\ pc[t] = "mutationHeld"
    /\ active' = [active EXCEPT ![s] = FALSE]
    /\ mutations' = IF waiting[s] = <<>> THEN mutations \ {s} ELSE mutations
    /\ pc' = [pc EXCEPT ![t] = "idle"]
    /\ UNCHANGED <<space, signal, waiting, readVars>>

-----------------------------------------------------------------------------
(* Reads: MaxConcurrentReads permits for the whole host.                   *)

ReadUncontendedOffByOne == activeReads <= MaxConcurrentReads /\ readQueue = <<>>

ReadUncontended == activeReads < MaxConcurrentReads /\ readQueue = <<>>

AcquireReadAtOnce(t) ==
    /\ pc[t] = "idle"
    /\ ReadUncontended
    /\ activeReads' = activeReads + 1
    /\ Returns(t, "readHeld")
    /\ UNCHANGED <<mutationVars, readQueue>>

RefuseRead(t) ==
    /\ pc[t] = "idle"
    /\ ~ReadUncontended
    /\ Len(readQueue) >= MaxQueuedReads \/ signal[t]
    /\ Returns(t, "idle")
    /\ UNCHANGED <<mutationVars, readVars>>

EnqueueRead(t) ==
    /\ pc[t] = "idle"
    /\ ~ReadUncontended
    /\ Len(readQueue) < MaxQueuedReads
    /\ ~signal[t]
    /\ pc' = [pc EXCEPT ![t] = "readWait"]
    /\ readQueue' = Append(readQueue, t)
    /\ UNCHANGED <<signal, mutationVars, activeReads>>

GrantRead(t) ==
    /\ pc[t] = "readWait"
    /\ ~signal[t]
    /\ readQueue # <<>>
    /\ Head(readQueue) = t
    /\ activeReads < MaxConcurrentReads
    /\ readQueue' = Tail(readQueue)
    /\ activeReads' = activeReads + 1
    /\ Returns(t, "readHeld")
    /\ UNCHANGED mutationVars

\* remove_read_waiter.
GiveUpRead(t) ==
    /\ pc[t] = "readWait"
    /\ signal[t]
    /\ \E i \in DOMAIN readQueue :
          /\ readQueue[i] = t
          /\ readQueue' = RemoveAt(readQueue, i)
    /\ Returns(t, "idle")
    /\ UNCHANGED <<mutationVars, activeReads>>

\* ReadPermit::drop.
DropReadPermit(t) ==
    /\ pc[t] = "readHeld"
    /\ activeReads' = activeReads - 1
    /\ pc' = [pc EXCEPT ![t] = "idle"]
    /\ UNCHANGED <<signal, mutationVars, readQueue>>

-----------------------------------------------------------------------------
MutationStep(t) ==
    \/ \E s \in Spaces :
          AcquireMutationAtOnce(t, s) \/ RefuseMutation(t, s) \/ EnqueueMutation(t, s)
    \/ GrantMutation(t) \/ GiveUpMutation(t) \/ DropMutationPermit(t)

ReadStep(t) ==
    \/ AcquireReadAtOnce(t) \/ RefuseRead(t) \/ EnqueueRead(t)
    \/ GrantRead(t) \/ GiveUpRead(t) \/ DropReadPermit(t)

Next == \E t \in Threads : Signal(t) \/ MutationStep(t) \/ ReadStep(t)

\* A waiter re-examines the state at least every 25 ms (wait_for), and every
\* operation run under a permit ends, dropping it: its bridge calls have
\* deadlines.  Nothing makes a caller arrive, cancel or time out.
Fairness ==
    \A t \in Threads :
        /\ WF_vars(GrantMutation(t) \/ GiveUpMutation(t))
        /\ WF_vars(GrantRead(t) \/ GiveUpRead(t))
        /\ WF_vars(DropMutationPermit(t))
        /\ WF_vars(DropReadPermit(t))

Spec == Init /\ [][Next]_vars
FairSpec == Spec /\ Fairness

-----------------------------------------------------------------------------
(* Properties.                                                             *)

Distinct(q) == \A i, j \in DOMAIN q : q[i] = q[j] => i = j
Queued(t, q) == \E i \in DOMAIN q : q[i] = t

\* The scheduler's bookkeeping has the shape of State and MutationQueue.
TypeOK ==
    /\ pc \in [Threads -> PCs]
    /\ space \in [Threads -> Spaces]
    /\ signal \in [Threads -> BOOLEAN]
    /\ mutations \subseteq Spaces
    /\ active \in [Spaces -> BOOLEAN]
    /\ waiting \in [Spaces -> Seq(Threads)]
    /\ activeReads \in Nat
    /\ readQueue \in Seq(Threads)

\* At most one thread holds the mutation permit of a space, and `active` is
\* raised exactly while one does: no permit is leaked by a waiter that was
\* cancelled, timed out or overtaken.
OnePermitPerSpace ==
    /\ \A s \in Spaces :
          active[s] <=> \E t \in Threads : pc[t] = "mutationHeld" /\ space[t] = s
    /\ \A t, u \in Threads :
          pc[t] = "mutationHeld" /\ pc[u] = "mutationHeld" /\ space[t] = space[u] => t = u

\* Every waiter has exactly one token, in the queue of its own space, and the
\* entry of that space is present as long as somebody waits for it or holds it:
\* `expect("queued mutation space remains present")` in the wait loop never
\* panics, and no abandoned token blocks a queue.
WaitersRegistered ==
    /\ \A s \in Spaces : Distinct(waiting[s])
    /\ \A t \in Threads, s \in Spaces :
          Queued(t, waiting[s]) <=> (pc[t] = "mutationWait" /\ space[t] = s)
    /\ \A t \in Threads : pc[t] \in {"mutationWait", "mutationHeld"} => space[t] \in mutations

\* The map holds an entry exactly for the spaces in use: entries of idle
\* spaces do not accumulate.
NoEntryLeak == \A s \in mutations : active[s] \/ waiting[s] # <<>>

\* active_reads counts the read permits that are out, and never exceeds
\* max_concurrent_reads.
ReadPermitsBounded ==
    /\ activeReads = Cardinality({t \in Threads : pc[t] = "readHeld"})
    /\ activeReads <= MaxConcurrentReads

\* The read queue holds one token for each waiting reader and nothing else.
ReadersRegistered ==
    /\ Distinct(readQueue)
    /\ \A t \in Threads : Queued(t, readQueue) <=> pc[t] = "readWait"
    /\ Len(readQueue) <= MaxQueuedReads

\* Every waiter is eventually granted its permit or told that it gave up, and a patient
\* one, which never gives up, is granted it: no wakeup is lost and no abandoned token
\* blocks the queue behind it.
EveryWaiterReturns ==
    /\ \A t \in Threads : pc[t] = "mutationWait" ~> pc[t] # "mutationWait"
    /\ \A t \in Threads : pc[t] = "readWait" ~> pc[t] # "readWait"

\* The line of a space is the permit holder followed by the waiters.
HoldersOf(s) == {t \in Threads : pc[t] = "mutationHeld" /\ space[t] = s}

LineOf(s) ==
    IF active[s] THEN <<CHOOSE t \in HoldersOf(s) : TRUE>> \o waiting[s] ELSE waiting[s]

Lock == INSTANCE FifoLock WITH
            line    <- [s \in Spaces |-> LineOf(s)],
            granted <- {t \in Threads : pc[t] = "mutationHeld"}

\* Mutation permits are granted in order of arrival and to one thread at a time:
\* the scheduler implements FifoLock.
ImplementsFifoLock == Lock!Spec
=============================================================================
