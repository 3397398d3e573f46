------------------------------- MODULE MCHost -------------------------------
(* What the processes of one host share, checked part by part: on its disk    *)
(* the lock and the socket of a broker, the queue of a pull and the store of  *)
(* results; and what they do with Chrome and its children. The initial state  *)
(* picks the part, and only that part moves. The parts that HostProofs has    *)
(* are declared there; names without a prefix are those of ChildSlots.        *)
EXTENDS HostProofs, TLC

CONSTANTS
    Parts,
    a, b,                   \* workers, contenders
    c1, c2, c3, c4,         \* child runs, launcher runs, calls of cdp.mjs
    h1, h2, client,         \* abort signals or sessions, a process on the port
    r1, r2, r3              \* commands, searches

Spellings == <<"index.md", "index.md", "about.md">>
Direct == <<1, 2, 3>>

Four == {c1, c2, c3, c4}

Signals == c1 :> h1 @@ c2 :> h1 @@ c3 :> None @@ c4 :> h2
Kinds == c1 :> "headless" @@ c2 :> "status" @@ c3 :> "visible" @@ c4 :> "kill"
Asked == c1 :> "use" @@ c2 :> "use" @@ c3 :> "use" @@ c4 :> "stop"
Hosts == c1 :> h1 @@ c2 :> h2 @@ c3 :> h1 @@ c4 :> h2

VARIABLES part, client_socket, client_registered, client_closed, client_op,
    client_sock, client_search, client_on, client_tries, client_bounced,
    client_status, client_answer

StartupVars == <<startup_lock, startup_aside, startup_seen, startup_tries,
    startup_socket, startup_pc>>
QueueVars == <<queue_phase, queue_queue, queue_dirty, queue_resumed,
    queue_aborted, queue_pc, queue_job, queue_saves, queue_disk, queue_files,
    queue_got>>
StoreVars == <<store_pc, store_want, store_index, store_held, store_maps,
    store_born, store_snap, store_blobs, store_disk, store_expired,
    store_returned, store_dropped, store_restarts>>
SlotsVars == <<pc, slots, aborted, late, kids, launch, joined>>
LaunchVars == <<launch_run, launch_chrome, launch_client, launch_pidFile,
    launch_portFile, launch_modeFile, launch_reported>>
DaemonVars == <<daemon_call, daemon_conn, daemon_daemon, daemon_owner,
    daemon_path, daemon_entry, daemon_live>>
TransportVars == <<cdp_socket, cdp_connected, cdp_generation, cdp_pending,
    cdp_ws, cdp_trying, cdp_wire, cdp_status, cdp_answer>>
ClientVars == <<client_socket, client_registered, client_closed, client_op,
    client_sock, client_search, client_on, client_tries, client_bounced,
    client_status, client_answer>>

Client == INSTANCE BrokerClient WITH
    Searches <- {r1, r2, r3}, Sockets <- 1 .. 6, None <- None,
    socket <- client_socket, registered <- client_registered,
    closed <- client_closed, op <- client_op, sock <- client_sock,
    search <- client_search, on <- client_on, tries <- client_tries,
    bounced <- client_bounced, status <- client_status,
    answer <- client_answer

allVars == <<part, StartupVars, QueueVars, StoreVars, SlotsVars, LaunchVars,
    DaemonVars, TransportVars, ClientVars>>

AllInit ==
    /\ part \in Parts
    /\ Startup!Init
    /\ part # "startup" => startup_lock = None /\ startup_socket = None
    /\ Queue!Init
    /\ Store!Init
    /\ Init
    /\ Launch!Init
    /\ Daemon!Init
    /\ Transport!Init
    /\ Client!Init

StartupPart ==
    /\ part = "startup" /\ Startup!Next
    /\ UNCHANGED <<part, QueueVars, StoreVars, SlotsVars, LaunchVars,
        DaemonVars, TransportVars, ClientVars>>
QueuePart ==
    /\ part = "queue" /\ Queue!Next
    /\ UNCHANGED <<part, StartupVars, StoreVars, SlotsVars, LaunchVars,
        DaemonVars, TransportVars, ClientVars>>
StorePart ==
    /\ part = "store" /\ Store!Next
    /\ UNCHANGED <<part, StartupVars, QueueVars, SlotsVars, LaunchVars,
        DaemonVars, TransportVars, ClientVars>>
SlotsPart ==
    /\ part = "slots" /\ Next
    /\ UNCHANGED <<part, StartupVars, QueueVars, StoreVars, LaunchVars,
        DaemonVars, TransportVars, ClientVars>>
LaunchPart ==
    /\ part = "launch" /\ Launch!Next
    /\ UNCHANGED <<part, StartupVars, QueueVars, StoreVars, SlotsVars,
        DaemonVars, TransportVars, ClientVars>>
DaemonPart ==
    /\ part = "daemon" /\ Daemon!Next
    /\ UNCHANGED <<part, StartupVars, QueueVars, StoreVars, SlotsVars,
        LaunchVars, TransportVars, ClientVars>>
TransportPart ==
    /\ part = "cdp" /\ Transport!Next
    /\ UNCHANGED <<part, StartupVars, QueueVars, StoreVars, SlotsVars,
        LaunchVars, DaemonVars, ClientVars>>
ClientPart ==
    /\ part = "client" /\ Client!Next
    /\ UNCHANGED <<part, StartupVars, QueueVars, StoreVars, SlotsVars,
        LaunchVars, DaemonVars, TransportVars>>

AllNext ==
    \/ StartupPart
    \/ QueuePart
    \/ StorePart
    \/ SlotsPart
    \/ LaunchPart
    \/ DaemonPart
    \/ TransportPart
    \/ ClientPart

AllSpec ==
    /\ AllInit /\ [][AllNext]_allVars
    /\ \A p \in Brokers : WF_StartupVars(part = "startup" /\ (Startup!ClaimStep(p) \/ Startup!StartStep(p) \/ Startup!StopStep(p)))
    /\ WF_StartupVars(part = "startup" /\ Startup!Age)
    /\ WF_QueueVars(part = "queue" /\ Queue!Close)
    /\ WF_QueueVars(part = "queue" /\ Queue!CloseClean)
    /\ \A w \in {a, b} : WF_QueueVars(part = "queue" /\ Queue!Worker(w))
    /\ \A s \in Queue!Savers : WF_QueueVars(part = "queue" /\ Queue!Saver(s))
    /\ WF_QueueVars(part = "queue" /\ Queue!Save("close"))
    /\ WF_SlotsVars(part = "slots" /\ Resume)
    /\ \A c \in Four : WF_SlotsVars(part = "slots" /\ Expire(c))
    /\ \A c \in Four : WF_SlotsVars(part = "slots" /\ Timer(c))
    /\ \A d \in Four : WF_DaemonVars(part = "daemon" /\ Daemon!Register(d))
    /\ \A d \in Four : WF_DaemonVars(part = "daemon" /\ Daemon!Orphaned(d))
    /\ \A r \in {r1, r2} : WF_TransportVars(part = "cdp" /\ Transport!Abort(r))
    /\ WF_ClientVars(part = "client" /\ Client!Retry)
    /\ WF_ClientVars(part = "client" /\ Client!ConnectFails)
    /\ \A r \in {r1, r2, r3} : WF_ClientVars(part = "client" /\ Client!Fence(r))

-----------------------------------------------------------------------------
\* A profile has one broker at a time ("A broker already owns this Chrome
\* profile", claimStartupLock()).
OneOwner == Startup!OneOwner

\* Every claim of the lock and every pull ends.
HostEnds ==
    /\ part = "startup" => Startup!ClaimEnds
    /\ part = "queue" => Queue!PullEnds

\* A command on a connection that may be lost, and a search of a client whose
\* broker may die, are settled once, and they are settled.
SettledOnce == Transport!TransportSettles /\ Client!ClientSettles

\* Every call ends: one that waits for a slot, and a daemon whose owner is gone.
EveryCallEnds ==
    /\ part = "slots" => CallsEnd
    /\ part = "daemon" => Daemon!OrphansEnd
==============================================================================
