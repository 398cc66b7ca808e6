------------------------------ MODULE FifoLock ------------------------------
(***************************************************************************)
(* What the scheduler promises the operations that mutate a space: one     *)
(* line of threads per space, in order of arrival, of which only the head  *)
(* may hold the space.  A thread may leave the line at any time.  Nothing  *)
(* is said of condition variables, map entries or limits.                  *)
(***************************************************************************)
EXTENDS Sequences, Naturals

CONSTANTS Threads, Spaces

VARIABLES line,     \* line[s]: the threads that hold or want s, by arrival
          granted   \* the threads that hold the space they lined up for

lockVars == <<line, granted>>

InLine(t, s) == \E i \in DOMAIN line[s] : line[s][i] = t

Init ==
    /\ line = [s \in Spaces |-> <<>>]
    /\ granted = {}

\* A thread stands in at most one line.
Join(t, s) ==
    /\ \A r \in Spaces : ~InLine(t, r)
    /\ line' = [line EXCEPT ![s] = Append(@, t)]
    /\ UNCHANGED granted

Grant(t, s) ==
    /\ line[s] # <<>>
    /\ t = Head(line[s])
    /\ granted' = granted \cup {t}
    /\ UNCHANGED line

\* An uncontended arrival is granted at once.
JoinAndGrant(t, s) ==
    /\ \A r \in Spaces : ~InLine(t, r)
    /\ line[s] = <<>>
    /\ line' = [line EXCEPT ![s] = <<t>>]
    /\ granted' = granted \cup {t}

Leave(t, s) ==
    \E i \in DOMAIN line[s] :
        /\ line[s][i] = t
        /\ line' = [line EXCEPT ![s] = SubSeq(@, 1, i - 1) \o SubSeq(@, i + 1, Len(@))]
        /\ granted' = granted \ {t}

Next == \E t \in Threads, s \in Spaces :
            Join(t, s) \/ Grant(t, s) \/ JoinAndGrant(t, s) \/ Leave(t, s)

Spec == Init /\ [][Next]_lockVars
=============================================================================
