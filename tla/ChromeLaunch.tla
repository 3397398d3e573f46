---------------------------- MODULE ChromeLaunch ----------------------------
(* The launcher of the dedicated Chrome (bin/launch.mjs): short-lived         *)
(* processes that find a Chrome through a PID file and a fixed port, start    *)
(* one when none answers, and stop it on request. Nothing locks them out of   *)
(* each other, and Chrome itself lets one process at a time use the profile.  *)
EXTENDS Naturals, FiniteSets

CONSTANTS
    Launchers,      \* runs of the launcher; the Chrome a run spawns has its name
    Kind,           \* [Launchers -> {"headless", "visible", "kill", "status"}]
    Clients,        \* other processes that hold a connection to Chrome's port
    Lsof,           \* TRUE: lsof is installed and asked before ss
    Sequential,     \* TRUE: a run starts when the one before has ended
    Prompt,         \* TRUE: a Chrome that lives answers within the 5 s allowed
    None

VARIABLES
    run,        \* per run: "new", "cleaned", "answer?", "launch", "ready?", "ended"
    chrome,     \* per Chrome: "none", "up", "serving", "second", "dying", "dead"
    client,     \* clients that are connected
    pidFile, portFile, modeFile,
    reported    \* Chromes that some run reported as running

vars == <<run, chrome, client, pidFile, portFile, modeFile, reported>>

files == <<pidFile, portFile, modeFile>>

Plain(l) == Kind[l] \in {"headless", "visible"}

\* isRunning(): the PID file names a live process.
Alive(p) == p # None /\ chrome[p] \in {"up", "serving", "second", "dying"}

Serving == {p \in Launchers : chrome[p] = "serving"}
Listening == {p \in Launchers : chrome[p] \in {"serving", "dying"}}

\* getPortPid(): the listener; but lsof shows the clients of the port as well,
\* and its first line is taken.
PortPids == Listening \cup (IF Lsof /\ Listening # {} THEN client ELSE {})

Init ==
    /\ run = [l \in Launchers |-> "new"]
    /\ chrome = [l \in Launchers |-> "none"]
    /\ client = {}
    /\ pidFile = None /\ portFile = None /\ modeFile = None
    /\ reported = {}

Goto(l, pc) == run' = [run EXCEPT ![l] = pc]

\* killProcess(): SIGTERM, without waiting for the exit.
Kill(p) ==
    IF p \in Clients
    THEN client' = client \ {p} /\ UNCHANGED chrome
    ELSE /\ chrome' = [chrome EXCEPT ![p] = IF Alive(p) THEN "dying" ELSE @]
         /\ UNCHANGED client

\* Mutant: a process on the port is a ghost, tracked or not.
Cleanup_Any(l) ==
    /\ run[l] = "new"
    /\ Sequential => \A k \in Launchers : run[k] \in {"new", "ended"}
    /\ Goto(l, "cleaned")
    /\ IF PortPids = {} THEN UNCHANGED <<chrome, client, files>>
       ELSE \E p \in PortPids :
              Kill(p) /\ pidFile' = None /\ portFile' = None /\ modeFile' = None
    /\ UNCHANGED reported

\* cleanupGhostChrome(): whoever has the port and is not the tracked process
\* is killed, and the record goes.
Cleanup(l) ==
    /\ run[l] = "new"
    /\ Sequential => \A k \in Launchers : run[k] \in {"new", "ended"}
    /\ Goto(l, "cleaned")
    /\ IF PortPids = {}
       THEN UNCHANGED <<chrome, client, files>>
       ELSE \E p \in PortPids :
              IF p = pidFile /\ Alive(p)
              THEN UNCHANGED <<chrome, client, files>>
              ELSE /\ Kill(p)
                   /\ pidFile' = None /\ portFile' = None /\ modeFile' = None
    /\ UNCHANGED reported

\* --kill: the tracked process, or whoever has the port.
Stop(l) ==
    /\ run[l] = "cleaned" /\ Kind[l] = "kill"
    /\ IF Alive(pidFile) THEN Kill(pidFile)
       ELSE IF PortPids = {} THEN UNCHANGED <<chrome, client>>
       ELSE \E p \in PortPids : Kill(p)
    /\ pidFile' = None /\ portFile' = None /\ modeFile' = None
    /\ Goto(l, "ended")
    /\ UNCHANGED reported

Status(l) ==
    /\ run[l] = "cleaned" /\ Kind[l] = "status"
    /\ Goto(l, "ended")
    /\ UNCHANGED <<chrome, client, files, reported>>

\* A tracked Chrome is asked whether it answers, or is replaced because a
\* visible one is wanted; with none the run goes on to launch.
Decide(l) ==
    /\ run[l] = "cleaned" /\ Plain(l)
    /\ IF ~Alive(pidFile)
       THEN Goto(l, "launch") /\ UNCHANGED <<chrome, client, files>>
       ELSE IF Kind[l] = "visible" /\ modeFile # "visible"
       THEN /\ Kill(pidFile)
            /\ pidFile' = None /\ modeFile' = None
            /\ Goto(l, "launch")
            /\ UNCHANGED portFile
       ELSE Goto(l, "answer?") /\ UNCHANGED <<chrome, client, files>>
    /\ UNCHANGED reported

\* writePortFile(5000): somebody answers on the port.
AlreadyRunning(l) ==
    /\ run[l] = "answer?"
    /\ \E p \in Listening : portFile' = p /\ reported' = reported \cup {p}
    /\ Goto(l, "ended")
    /\ UNCHANGED <<chrome, client, pidFile, modeFile>>

\* Nobody did in five seconds: the record is dropped, its process is not stopped.
StalePid(l) ==
    /\ run[l] = "answer?"
    /\ Prompt => Serving = {} /\ ~\E p \in Launchers : chrome[p] = "up"
    /\ pidFile' = None
    /\ Goto(l, "launch")
    /\ UNCHANGED <<chrome, client, portFile, modeFile, reported>>

\* Chrome is spawned and recorded. One that finds the profile in use hands
\* over to its owner and exits.
Spawn(l) ==
    /\ run[l] = "launch"
    /\ chrome' = [chrome EXCEPT ![l] =
                    IF \E p \in Launchers : chrome[p] \in {"up", "serving", "dying"}
                    THEN "second" ELSE "up"]
    /\ pidFile' = l /\ modeFile' = Kind[l]
    /\ Goto(l, "ready?")
    /\ UNCHANGED <<client, portFile, reported>>

\* writePortFile(): somebody answers in time.
Ready(l) ==
    /\ run[l] = "ready?"
    /\ \E p \in Listening : portFile' = p /\ reported' = reported \cup {p}
    /\ Goto(l, "ended")
    /\ UNCHANGED <<chrome, client, pidFile, modeFile>>

\* The time runs out, or the run is killed by its own caller's deadline.
GivesUp(l) ==
    /\ run[l] \in {"answer?", "ready?"}
    /\ Goto(l, "ended")
    /\ UNCHANGED <<chrome, client, files, reported>>

\* Chrome itself: it starts to listen, ends as a second instance or on SIGTERM,
\* or crashes, and clients come and go.
ChromeStep(p) ==
    /\ \E to \in CASE chrome[p] = "up" -> {"serving", "dead"}
                   [] chrome[p] \in {"serving", "second", "dying"} -> {"dead"}
                   [] OTHER -> {} :
         chrome' = [chrome EXCEPT ![p] = to]
    /\ client' = IF chrome[p] \in {"serving", "dying"} THEN {} ELSE client
    /\ UNCHANGED <<run, files, reported>>

Connect(c) ==
    /\ c \notin client /\ Serving # {}
    /\ client' = client \cup {c}
    /\ UNCHANGED <<run, chrome, files, reported>>

Next ==
    \/ \E l \in Launchers :
         \/ Cleanup(l) \/ Stop(l) \/ Status(l) \/ Decide(l) \/ AlreadyRunning(l)
         \/ StalePid(l) \/ Spawn(l) \/ Ready(l) \/ GivesUp(l) \/ ChromeStep(l)
    \/ \E c \in Clients : Connect(c)

Spec == Init /\ [][Next]_vars

-----------------------------------------------------------------------------
\* A Chrome that was reported as running is stopped only by a run that was
\* asked to: --kill, or a visible one that replaces a headless one. A plain run
\* or --status never kills it, whatever the files say of the runs before.
ReportedSpared ==
    [][\A p \in Launchers :
         p \in reported /\ chrome[p] = "serving" /\ chrome'[p] = "dying"
            => \E l \in Launchers : run'[l] # run[l] /\ run[l] = "cleaned"]_vars
=============================================================================
