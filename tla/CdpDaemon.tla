------------------------------ MODULE CdpDaemon ------------------------------
(* The per-tab daemon of bin/cdp.mjs and the command-line calls that find,    *)
(* start, use and stop it. A daemon owns a socket path and a registry entry   *)
(* that every process of the machine may replace or remove; it belongs to the *)
(* session that used it last and ends with it.                                *)
(*                                                                            *)
(* One tab. A path that names a daemon which does not listen refuses a        *)
(* connection; one that listens may refuse it too (a full backlog).           *)
EXTENDS Naturals, FiniteSets

CONSTANTS
    Calls,      \* command-line calls for the tab
    Sessions,   \* pi hosts, whose pid a call passes on
    Asks,       \* [Calls -> {"use", "stop"}]
    OwnerOf,    \* [Calls -> Sessions]
    OneByOne,   \* TRUE: a call starts when no other call or start is under way
    None

VARIABLES
    call,       \* per call: "new", "look", "refused", "retry", "connected", "ended"
    conn,       \* per call: the daemon it is connected to
    daemon,     \* per call: the daemon it spawned: "none", "attach", "bound", "serving", "gone"
    owner,      \* per daemon: ownerPid
    path,       \* whose socket the path names, or None
    entry,      \* the registry entry [pid, owner], or None
    live        \* sessions that run

vars == <<call, conn, daemon, owner, path, entry, live>>

Listens(d) == d # None /\ daemon[d] \in {"bound", "serving"}

Init ==
    /\ call = [c \in Calls |-> "new"]
    /\ conn = [c \in Calls |-> None]
    /\ daemon = [c \in Calls |-> "none"]
    /\ owner = [c \in Calls |-> OwnerOf[c]]
    /\ path = None /\ entry = None
    /\ live = Sessions

Goto(c, pc) == call' = [call EXCEPT ![c] = pc]

Starting(d) == daemon[d] \in {"attach", "bound"}

-----------------------------------------------------------------------------
(* The command line.                                                         *)

\* listDaemonSockets(): the entry of a dead daemon or of a dead session goes.
Look(c) ==
    /\ call[c] = "new" /\ OwnerOf[c] \in live
    /\ OneByOne => \A k \in Calls : call[k] \in {"new", "ended"} /\ ~Starting(k)
    /\ entry' = IF entry # None /\ (daemon[entry.pid] = "gone" \/ entry.owner \notin live)
                THEN None ELSE entry
    /\ Goto(c, "look")
    /\ UNCHANGED <<conn, daemon, owner, path, live>>

\* The connection is made, at once or after the daemon was started.
Connect(c) ==
    /\ call[c] \in {"look", "retry"} /\ Listens(path)
    /\ conn' = [conn EXCEPT ![c] = path]
    /\ Goto(c, "connected")
    /\ UNCHANGED <<daemon, owner, path, entry, live>>

\* It is refused. A retry is refused too until the retries are used up.
Refused(c) ==
    /\ call[c] \in {"look", "retry"}
    /\ Goto(c, IF call[c] = "retry" THEN "ended" ELSE "refused")
    /\ UNCHANGED <<conn, daemon, owner, path, entry, live>>

\* getOrStartTabDaemon(): the path is unlinked and a daemon spawned. A `stop`
\* that cannot be delivered only unlinks the path.
Start(c) ==
    /\ call[c] = "refused"
    /\ path' = None
    /\ IF Asks[c] = "stop"
       THEN Goto(c, "ended") /\ UNCHANGED daemon
       ELSE Goto(c, "retry") /\ daemon' = [daemon EXCEPT ![c] = "attach"]
    /\ UNCHANGED <<conn, owner, entry, live>>

-----------------------------------------------------------------------------
(* The daemon.                                                               *)

\* It is attached to the tab: the path is unlinked and bound.
Bind(d) ==
    /\ daemon[d] = "attach"
    /\ daemon' = [daemon EXCEPT ![d] = "bound"]
    /\ path' = d
    /\ UNCHANGED <<call, conn, owner, entry, live>>

\* The listening callback writes the registry entry.
Register(d) ==
    /\ daemon[d] = "bound"
    /\ daemon' = [daemon EXCEPT ![d] = "serving"]
    /\ entry' = [pid |-> d, owner |-> owner[d]]
    /\ UNCHANGED <<call, conn, owner, path, live>>

\* Mutant: path and entry are removed by name, whoever they name.
Shutdown_ByName(d) ==
    /\ daemon' = [daemon EXCEPT ![d] = "gone"]
    /\ path' = None /\ entry' = None
    /\ call' = [c \in Calls |-> IF conn[c] = d THEN "ended" ELSE call[c]]
    /\ UNCHANGED <<conn, owner, live>>

\* shutdown(): path and entry are released only when the entry names this
\* daemon. Its connections end, and so do the calls on them.
Shutdown(d) ==
    /\ daemon' = [daemon EXCEPT ![d] = "gone"]
    /\ IF entry # None /\ entry.pid = d
       THEN path' = None /\ entry' = None
       ELSE UNCHANGED <<path, entry>>
    /\ call' = [c \in Calls |-> IF conn[c] = d THEN "ended" ELSE call[c]]
    /\ UNCHANGED <<conn, owner, live>>

\* handleCommand(): the session that asks becomes the owner, and the entry is
\* written again when that is a change. The reply ends the call.
Command(c) ==
    /\ call[c] = "connected" /\ Asks[c] = "use"
    /\ LET d == conn[c]
       IN  IF owner[d] = OwnerOf[c] THEN UNCHANGED <<owner, entry>>
           ELSE /\ owner' = [owner EXCEPT ![d] = OwnerOf[c]]
                /\ entry' = [pid |-> d, owner |-> OwnerOf[c]]
    /\ Goto(c, "ended")
    /\ UNCHANGED <<conn, daemon, path, live>>

StopCommand(c) ==
    /\ call[c] = "connected" /\ Asks[c] = "stop"
    /\ Shutdown(conn[c])

\* Mutant: the poll asks the registry, where another daemon may stand.
Orphaned_Entry(d) ==
    /\ daemon[d] = "serving" /\ entry # None /\ entry.pid = d /\ entry.owner \notin live
    /\ Shutdown(d)

\* The owner poll finds its session gone.
Orphaned(d) == daemon[d] = "serving" /\ owner[d] \notin live /\ Shutdown(d)

\* Idle for too long, the tab closed or detached, Chrome gone, a signal.
Leaves(d) == Listens(d) /\ Shutdown(d)

\* A start that cannot attach, or a daemon that is killed, releases nothing.
Crash(d) ==
    /\ daemon[d] \in {"attach", "bound", "serving"}
    /\ daemon' = [daemon EXCEPT ![d] = "gone"]
    /\ call' = [c \in Calls |-> IF conn[c] = d THEN "ended" ELSE call[c]]
    /\ UNCHANGED <<conn, owner, path, entry, live>>

SessionEnds(s) ==
    /\ s \in live
    /\ live' = live \ {s}
    /\ UNCHANGED <<call, conn, daemon, owner, path, entry>>

Next ==
    \/ \E c \in Calls :
         \/ Look(c) \/ Connect(c) \/ Refused(c) \/ Start(c) \/ Command(c)
         \/ StopCommand(c) \/ Bind(c) \/ Register(c) \/ Orphaned(c) \/ Leaves(c) \/ Crash(c)
    \/ \E s \in Sessions : SessionEnds(s)

\* The poll of the owner runs every few seconds.
Spec == Init /\ [][Next]_vars /\ \A d \in Calls : WF_vars(Register(d)) /\ WF_vars(Orphaned(d))

-----------------------------------------------------------------------------
\* A daemon that ends takes away neither the socket path nor the registry
\* entry of a successor that listens, although both are released by name.
SuccessorKept ==
    [][\A d, e \in Calls :
         d # e /\ daemon[d] # "gone" /\ daemon'[d] = "gone" /\ daemon[e] = "serving"
            => /\ path = e => path' = e
               /\ entry # None /\ entry.pid = e => entry' = entry]_vars

\* A daemon does not outlive every session: with all of them gone it ends,
\* reachable or not, whoever the registry names.
OrphansEnd == [](live = {} => <>(\A d \in Calls : ~Listens(d)))
=============================================================================
