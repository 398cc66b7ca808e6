---------------------------- MODULE HostProcess ----------------------------
(* The native host processes that Chrome starts over one state directory: the  *)
(* lock that makes one of them the owner of the ledger, the ledger file, the   *)
(* two sockets, the endpoint file, and the shims that the others become.       *)
(* (agentyc-host/src/bin/agentyc-native-host.rs, ledger.rs, host.rs,           *)
(* local_ipc.rs and the forwarding half of native_messaging.rs.)  Files are    *)
(* named by the process that made them: a process makes each of them once.     *)
EXTENDS Naturals, Sequences, FiniteSets

CONSTANTS
    Hosts,          \* processes
    NoHost,
    MaxUpdates,     \* bound: ledger updates of one process
    MaxRecovering   \* bound: processes at once that have judged a lock stale and not yet removed it

ASSUME HostAssumption ==
    /\ IsFiniteSet(Hosts) /\ NoHost \notin Hosts
    /\ MaxUpdates \in Nat /\ MaxRecovering \in Nat \ {0}

VARIABLES
    pc,         \* where each process is
    cleanup,    \* what it still drops, in order, on its way out
    lock,       \* broker.lock: who created it and whether its token is written
    disk,       \* ledger.json
    memory,     \* LedgerState of each process
    draft,      \* the state each process is about to persist
    acked,      \* history: the updates whose callers were told they are done
    forward,    \* native forward socket: who bound the path
    local,      \* local socket: who bound the path
    listening,  \* which accept loops of each process run
    endpoint    \* broker endpoint metadata: whose it is

hostVars == <<pc, cleanup, lock, disk, memory, draft, acked, forward, local, listening, endpoint>>
ledgerVars == <<disk, memory, draft, acked>>
socketVars == <<forward, local, listening, endpoint>>

NoLock == [owner |-> NoHost, written |-> FALSE]
NoState == [epoch |-> 0, updates |-> {}]

HostInit ==
    /\ pc = [h \in Hosts |-> "off"] /\ cleanup = [h \in Hosts |-> <<>>]
    /\ lock = NoLock
    /\ disk = NoState /\ memory = [h \in Hosts |-> NoState] /\ draft = [h \in Hosts |-> NoState]
    /\ acked = {}
    /\ forward = NoHost /\ local = NoHost /\ listening = [h \in Hosts |-> {}] /\ endpoint = NoHost

Alive(h) == h # NoHost /\ pc[h] \notin {"off", "gone"}

Goto(h, place) == pc' = [pc EXCEPT ![h] = place] /\ UNCHANGED cleanup

\* A return, normal or not: what the process holds is dropped in the given order.
Leave(h, holdings) ==
    /\ pc' = [pc EXCEPT ![h] = "leaving"]
    /\ cleanup' = [cleanup EXCEPT ![h] = holdings]

-----------------------------------------------------------------------------
(* LedgerLock::acquire                                                         *)

StartHost(h) ==
    /\ pc[h] = "off" /\ Goto(h, "create")
    /\ UNCHANGED <<lock, ledgerVars, socketVars>>

\* ensure_directory: the state directory is not a private directory.
DirectoryRefused(h) ==
    /\ pc[h] = "create" /\ Goto(h, "gone")
    /\ UNCHANGED <<lock, ledgerVars, socketVars>>

CreateLock(h) ==
    /\ pc[h] = "create"
    /\ IF lock = NoLock
       THEN lock' = [owner |-> h, written |-> FALSE] /\ Goto(h, "write")
       ELSE lock' = lock /\ Goto(h, "examine")
    /\ UNCHANGED <<ledgerVars, socketVars>>

\* The token goes into the file that was created, wherever its name points by now; if
\* that fails, whatever has the name is removed.
WriteLock(h) ==
    /\ pc[h] = "write"
    /\ \/ /\ lock' = IF lock.owner = h THEN [lock EXCEPT !.written = TRUE] ELSE lock
          /\ Goto(h, "load")
       \/ lock' = NoLock /\ Goto(h, "gone")
    /\ UNCHANGED <<ledgerVars, socketVars>>

\* Mutant: a lock that one did not take oneself is stale.
StaleUnlessOwn(h) == lock.written

\* stale_lock_owner: a token is there and no process has its pid.
StaleLockOwner(h) == lock.written /\ ~Alive(lock.owner)

ExamineLock(h) ==
    /\ pc[h] = "examine"
    /\ \/ lock = NoLock /\ Goto(h, "gone")       \* it cannot be read
       \/ /\ lock # NoLock /\ StaleLockOwner(h)
          /\ Cardinality({g \in Hosts : pc[g] = "remove"}) < MaxRecovering
          /\ Goto(h, "remove")
       \/ lock # NoLock /\ ~StaleLockOwner(h) /\ Goto(h, "shim")
    /\ UNCHANGED <<lock, ledgerVars, socketVars>>

\* The name is removed, whatever it points to now, and the acquisition starts again.
RemoveLock(h) ==
    /\ pc[h] = "remove"
    /\ IF lock = NoLock THEN Goto(h, "gone") ELSE Goto(h, "create")
    /\ lock' = NoLock
    /\ UNCHANGED <<ledgerVars, socketVars>>

-----------------------------------------------------------------------------
(* Ledger::open_with_limits and Ledger::update                                 *)

\* A new ledger is at epoch 1; an old one moves on to its next epoch.
LoadLedger(h) ==
    /\ pc[h] = "load" /\ Goto(h, "check")
    /\ draft' = [draft EXCEPT ![h] = [disk EXCEPT !.epoch = @ + 1]]
    /\ UNCHANGED <<lock, disk, memory, acked, socketVars>>

\* The file is not private, is too large or does not parse (a copy is set aside of one
\* that does not): the opening ends, which drops the lock.
LedgerUnreadable(h) ==
    /\ pc[h] = "load" /\ Leave(h, <<"lock">>)
    /\ UNCHANGED <<lock, ledgerVars, socketVars>>

BeginUpdate(h) ==
    /\ pc[h] = "serve" /\ Cardinality({u \in memory[h].updates : u[1] = h}) < MaxUpdates
    /\ draft' = [draft EXCEPT ![h] =
                    [memory[h] EXCEPT !.updates = @ \cup {<<h, Cardinality(@) + 1>>}]]
    /\ Goto(h, "check")
    /\ UNCHANGED <<lock, disk, memory, acked, socketVars>>

Opening(h) == memory[h] = NoState

\* An opening that fails ends the process, an update that fails only its caller.
Refused(h) == IF Opening(h) THEN Leave(h, <<"lock">>) ELSE Goto(h, "serve")

\* ensure_owner: the lock file is the one this process made, with its token.
EnsureOwner(h) ==
    /\ pc[h] = "check"
    /\ IF lock = [owner |-> h, written |-> TRUE] THEN Goto(h, "persist") ELSE Refused(h)
    /\ UNCHANGED <<lock, ledgerVars, socketVars>>

\* persist_current: a temporary file is renamed over the ledger and the directory is
\* synced; it may fail before the rename or after it.
PersistLedger(h) ==
    /\ pc[h] = "persist"
    /\ \/ /\ disk' = draft[h] /\ memory' = [memory EXCEPT ![h] = draft[h]]
          /\ acked' = acked \cup (draft[h].updates \ memory[h].updates)
          /\ Goto(h, IF Opening(h) THEN "forward" ELSE "serve")
       \/ /\ disk' \in {disk, draft[h]} /\ Refused(h)
          /\ UNCHANGED <<memory, acked>>
    /\ UNCHANGED <<lock, draft, socketVars>>

-----------------------------------------------------------------------------
(* run: sockets, handshake, endpoint                                           *)

Answers(socket, name) == socket # NoHost /\ name \in listening[socket]

\* NativeForwardServer::start: a socket that answers is left alone, another is replaced.
BindForward(h) ==
    /\ pc[h] = "forward"
    /\ IF Answers(forward, "forward")
       THEN Leave(h, <<"lock">>) /\ UNCHANGED socketVars
       ELSE /\ forward' = h /\ listening' = [listening EXCEPT ![h] = @ \cup {"forward"}]
            /\ Goto(h, "handshake") /\ UNCHANGED <<local, endpoint>>
    /\ UNCHANGED <<lock, ledgerVars>>

\* accept_stdio and the DevTools connection fail before the broker owns the ledger,
\* hello and complete_handshake after it: the order of the drops differs.
Handshake(h) ==
    /\ pc[h] = "handshake"
    /\ \/ Goto(h, "local")
       \/ Leave(h, <<"forward", "lock">>)
       \/ Leave(h, <<"lock", "forward">>)
    /\ UNCHANGED <<lock, ledgerVars, socketVars>>

\* LocalHostServer::start.
BindLocal(h) ==
    /\ pc[h] = "local"
    /\ IF Answers(local, "local")
       THEN Leave(h, <<"lock", "forward">>) /\ UNCHANGED socketVars
       ELSE /\ local' = h /\ listening' = [listening EXCEPT ![h] = @ \cup {"local"}]
            /\ Goto(h, "publish") /\ UNCHANGED <<forward, endpoint>>
    /\ UNCHANGED <<lock, ledgerVars>>

PublishEndpoint(h) ==
    /\ pc[h] = "publish"
    /\ \/ endpoint' = h /\ Goto(h, "serve")
       \/ endpoint' \in {endpoint, h} /\ Leave(h, <<"local", "lock", "forward">>)
    /\ UNCHANGED <<lock, ledgerVars, forward, local, listening>>

\* An accept loop ends at an error that is not WouldBlock; the process goes on.
LocalAcceptFails(h) ==
    /\ pc[h] = "serve" /\ "local" \in listening[h]
    /\ listening' = [listening EXCEPT ![h] = @ \ {"local"}] /\ local' = NoHost
    /\ UNCHANGED <<pc, cleanup, lock, ledgerVars, forward, endpoint>>

-----------------------------------------------------------------------------
(* The shims                                                                   *)

\* forward_stdio_to_owner: until the deadline, for an endpoint file and for its socket.
ShimConnects(h) ==
    /\ pc[h] = "shim" /\ endpoint # NoHost /\ Answers(forward, "forward")
    /\ Goto(h, "proxy") /\ UNCHANGED <<lock, ledgerVars, socketVars>>

ShimEnds(h) ==
    /\ pc[h] \in {"shim", "proxy"} /\ Goto(h, "gone")
    /\ UNCHANGED <<lock, ledgerVars, socketVars>>

\* Mutant: the broker is dropped before the servers are stopped.
SuperviseLockFirst(h) ==
    /\ pc[h] = "serve" /\ \E s \in Hosts : pc[s] = "proxy"
    /\ Leave(h, <<"lock", "forward", "local", "endpoint">>)
    /\ UNCHANGED <<lock, ledgerVars, socketVars>>

\* supervise_native_connection: a forwarded connection whose hello or handshake the broker
\* refuses ends the supervision, and with it the process.  (One that is accepted, or that
\* is not a native connection, leaves everything here as it was.)
Supervise(h) ==
    /\ pc[h] = "serve" /\ \E s \in Hosts : pc[s] = "proxy"
    /\ Leave(h, <<"local", "forward", "endpoint", "lock">>)
    /\ UNCHANGED <<lock, ledgerVars, socketVars>>

-----------------------------------------------------------------------------
(* The way out                                                                 *)

Dropping(h, thing) == pc[h] = "leaving" /\ cleanup[h] # <<>> /\ Head(cleanup[h]) = thing
Dropped(h) == cleanup' = [cleanup EXCEPT ![h] = Tail(@)] /\ UNCHANGED pc

\* The local server's thread drops its listener,
StopLocal(h) ==
    /\ Dropping(h, "local")
    /\ listening' = [listening EXCEPT ![h] = @ \ {"local"}]
    /\ cleanup' = [cleanup EXCEPT ![h] =
                      (IF "local" \in listening[h] THEN <<"localPath">> ELSE <<>>) \o Tail(@)]
    /\ UNCHANGED <<pc, lock, ledgerVars, forward, local, endpoint>>

\* and then removes any socket at its path (remove_socket_if_owned).
RemoveLocal(h) ==
    /\ Dropping(h, "localPath") /\ Dropped(h)
    /\ local' = NoHost
    /\ UNCHANGED <<lock, ledgerVars, forward, listening, endpoint>>

\* The forwarding server first finds that nobody answers at its path,
StopForward(h) ==
    /\ Dropping(h, "forward")
    /\ listening' = [listening EXCEPT ![h] = @ \ {"forward"}]
    /\ cleanup' = [cleanup EXCEPT ![h] =
                      (IF forward = h \/ ~Answers(forward, "forward") THEN <<"forwardPath">> ELSE <<>>)
                      \o Tail(@)]
    /\ UNCHANGED <<pc, lock, ledgerVars, forward, local, endpoint>>

\* and then removes what is there.
RemoveForward(h) ==
    /\ Dropping(h, "forwardPath") /\ Dropped(h)
    /\ forward' = NoHost
    /\ UNCHANGED <<lock, ledgerVars, local, listening, endpoint>>

\* remove_endpoint_metadata_if_owner.
Unpublish(h) ==
    /\ Dropping(h, "endpoint") /\ Dropped(h)
    /\ endpoint' = IF endpoint = h THEN NoHost ELSE endpoint
    /\ UNCHANGED <<lock, ledgerVars, forward, local, listening>>

\* LedgerLock::drop removes the process's own lock; a client thread that still holds the
\* broker when the process ends keeps it from running.
DropLock(h) ==
    /\ Dropping(h, "lock") /\ Dropped(h)
    /\ \/ lock' = IF lock = [owner |-> h, written |-> TRUE] THEN NoLock ELSE lock
       \/ memory[h] # NoState /\ lock' = lock
    /\ UNCHANGED <<ledgerVars, socketVars>>

ExitHost(h) ==
    /\ pc[h] = "leaving" /\ cleanup[h] = <<>> /\ Goto(h, "gone")
    /\ listening' = [listening EXCEPT ![h] = {}]
    /\ UNCHANGED <<lock, ledgerVars, forward, local, endpoint>>

\* The process is killed: its files stay, nobody answers at its sockets.
KillHost(h) ==
    /\ Alive(h)
    /\ pc' = [pc EXCEPT ![h] = "gone"] /\ cleanup' = [cleanup EXCEPT ![h] = <<>>]
    /\ listening' = [listening EXCEPT ![h] = {}]
    /\ UNCHANGED <<lock, ledgerVars, forward, local, endpoint>>

HostNext ==
    \E h \in Hosts :
        \/ StartHost(h) \/ DirectoryRefused(h) \/ CreateLock(h) \/ WriteLock(h) \/ ExamineLock(h) \/ RemoveLock(h)
        \/ LoadLedger(h) \/ LedgerUnreadable(h) \/ BeginUpdate(h) \/ EnsureOwner(h) \/ PersistLedger(h)
        \/ BindForward(h) \/ Handshake(h) \/ BindLocal(h) \/ PublishEndpoint(h)
        \/ LocalAcceptFails(h) \/ ShimConnects(h) \/ ShimEnds(h) \/ Supervise(h)
        \/ StopLocal(h) \/ RemoveLocal(h) \/ StopForward(h) \/ RemoveForward(h) \/ Unpublish(h) \/ DropLock(h)
        \/ ExitHost(h) \/ KillHost(h)

HostSpec == HostInit /\ [][HostNext]_hostVars

-----------------------------------------------------------------------------
\* An update whose caller was told that it is done stays in the ledger file, through kills,
\* restarts and failures of later updates, and whichever process owns the file.
AckedDurable == acked \subseteq disk.updates

\* A process that serves and whose accept loop runs is the one that clients find: the
\* local socket and the endpoint file are its own, whatever the processes before it still
\* do on their way out.
ServingIsReachable ==
    \A h \in Hosts : pc[h] = "serve" /\ "local" \in listening[h] => local = h /\ endpoint = h

\* The recovery of a dead owner's lock never removes a live owner's
\* (ledger.rs, dead_owner_lock_is_recovered_without_removing_a_live_owner).
LiveOwnerKeepsLock ==
    \A h \in Hosts : pc[h] = "serve" => lock = [owner |-> h, written |-> TRUE]
=============================================================================
