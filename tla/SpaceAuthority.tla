--------------------------- MODULE SpaceAuthority ---------------------------
(***************************************************************************)
(* What the broker promises about who may act on a space.  A space is free,*)
(* held by one agent session, on its way from one holder to the next, or   *)
(* the user's.  The lease epoch numbers the holders: nobody becomes the    *)
(* holder without a new one.  A space the user has is given back only for  *)
(* the ticket issued when the user took it.                                *)
(***************************************************************************)
EXTENDS Naturals

CONSTANTS Sessions, Nobody

VARIABLES mode,      \* free, agent, fencing, user or gone
          session,   \* who holds or is about to hold the space
          epoch,     \* lease epoch of the last grant
          lapsed,    \* the holder's time is over
          ticket     \* epoch of the ticket that takes the space from the user, or 0

authority == <<mode, session, epoch, lapsed, ticket>>

Init ==
    /\ mode = "free"
    /\ session = Nobody
    /\ epoch = 0
    /\ lapsed = FALSE
    /\ ticket = 0

Lapse ==
    /\ mode \in {"agent", "fencing"}
    /\ lapsed' = TRUE
    /\ UNCHANGED <<mode, session, epoch, ticket>>

\* A free space, or one whose holder let its lease lapse.
Grant(s) ==
    /\ mode = "free" \/ (mode = "agent" /\ lapsed)
    /\ mode' = "agent"
    /\ session' = s
    /\ epoch' = epoch + 1
    /\ lapsed' = FALSE
    /\ UNCHANGED ticket

\* The holder gives the space up or renews its hold, or somebody resumes a free
\* space: from now on the old epoch is refused.
BeginFence(s) ==
    /\ mode = "free" \/ (mode = "agent" /\ session = s)
    /\ mode' = "fencing"
    /\ session' = s
    /\ epoch' = epoch + 1
    /\ lapsed' \in BOOLEAN
    /\ UNCHANGED ticket

\* Only the current ticket takes a space from the user.
Reclaim(s) ==
    /\ mode = "user"
    /\ ticket = epoch
    /\ mode' = "fencing"
    /\ session' = s
    /\ epoch' = epoch + 1
    /\ lapsed' = FALSE
    /\ ticket' = 0

\* The fence completes, for the session that began it.
Confirm ==
    /\ mode = "fencing"
    /\ mode' = "agent"
    /\ UNCHANGED <<session, epoch, lapsed, ticket>>

HandToUser ==
    /\ mode = "fencing"
    /\ mode' = "user"
    /\ session' = Nobody
    /\ ticket' = epoch
    /\ lapsed' \in BOOLEAN
    /\ UNCHANGED epoch

\* Retrying a fence may renew the holder's time.
Renew ==
    /\ mode = "fencing"
    /\ lapsed' = FALSE
    /\ UNCHANGED <<mode, session, epoch, ticket>>

\* The holder is done, or the host restarts.
SetFree ==
    /\ mode \in {"agent", "fencing", "free"}
    /\ mode' = "free"
    /\ session' \in {session, Nobody}
    /\ UNCHANGED <<epoch, lapsed, ticket>>

\* A released space is forgotten for good, with its epoch.
Forget ==
    /\ mode \in {"free", "gone"}
    /\ mode' = "gone"
    /\ session' \in {session, Nobody}
    /\ epoch' = 0
    /\ lapsed' = FALSE
    /\ UNCHANGED ticket

Next ==
    \/ Lapse \/ Confirm \/ HandToUser \/ Renew \/ SetFree \/ Forget
    \/ \E s \in Sessions : Grant(s) \/ BeginFence(s) \/ Reclaim(s)

Spec == Init /\ [][Next]_authority
=============================================================================
