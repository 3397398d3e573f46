---------------------------- MODULE CdpTransport ----------------------------
(* The broker's connection to Chrome (bin/cdp-browser-transport.mjs): one     *)
(* WebSocket at a time, commands matched to answers by id, a generation that  *)
(* grows with every disconnection. The ids of a transport are never reused.   *)
EXTENDS Naturals, FiniteSets

CONSTANTS
    Commands,   \* calls of send()
    Sockets,    \* WebSockets, 1..n in the order connect() makes them
    None

VARIABLES
    socket,     \* this.socket
    connected, generation,
    pending,    \* this.pending: per command the generation it was sent in, or None
    ws,         \* per WebSocket: "none", "connecting", "open", "closing", "closed"
    trying,     \* the WebSockets whose connect() has not settled
    wire,       \* commands on their way to Chrome and back: <<WebSocket, command>>
    status, answer

vars == <<socket, connected, generation, pending, ws, trying, wire, status, answer>>

Init ==
    /\ socket = None /\ connected = FALSE /\ generation = 1
    /\ pending = [c \in Commands |-> None]
    /\ ws = [s \in Sockets |-> "none"]
    /\ trying = {} /\ wire = {}
    /\ status = [c \in Commands |-> "new"]
    /\ answer = [c \in Commands |-> c]

\* settle() of the commands C.
Settle(C, how) ==
    /\ pending' = [c \in Commands |-> IF c \in C THEN None ELSE pending[c]]
    /\ status' = [c \in Commands |-> IF c \in C THEN how ELSE status[c]]

\* Mutant: the table is cleared, the promises are forgotten.
MarkClosed_Forgets ==
    /\ connected' = FALSE /\ socket' = None
    /\ generation' = generation + 1
    /\ pending' = [c \in Commands |-> None]
    /\ UNCHANGED status

\* markClosed(): every command fails with the socket, whichever socket it was.
MarkClosed ==
    LET P == {c \in Commands : pending[c] # None}
    IN  IF ~connected /\ P = {}
        THEN UNCHANGED <<socket, connected, generation, pending, status>>
        ELSE /\ connected' = FALSE /\ socket' = None
             /\ generation' = generation + 1
             /\ Settle(P, "failed")

\* connect(): a second call made before the first has settled replaces its socket.
Connect(s) ==
    /\ ~connected /\ ws[s] = "none" /\ \A t \in Sockets : t < s => ws[t] # "none"
    /\ socket' = s
    /\ ws' = [ws EXCEPT ![s] = "connecting"]
    /\ trying' = trying \cup {s}
    /\ UNCHANGED <<connected, generation, pending, wire, status, answer>>

Open(s) ==
    /\ ws[s] = "connecting"
    /\ ws' = [ws EXCEPT ![s] = "open"]
    /\ trying' = trying \ {s}
    /\ connected' = TRUE
    /\ UNCHANGED <<socket, generation, pending, wire, status, answer>>

\* The connection fails, or its caller's signal or deadline closes the socket.
\* The close listener is not attached yet, and this.socket keeps it.
ConnectFails(s) ==
    /\ ws[s] = "connecting"
    /\ ws' = [ws EXCEPT ![s] = "closed"]
    /\ trying' = trying \ {s}
    /\ UNCHANGED <<socket, connected, generation, pending, wire, status, answer>>

\* send(): refused without a connection; a socket that still connects throws,
\* one that is closing swallows the message.
Send(c) ==
    /\ status[c] = "new"
    /\ IF ~connected \/ socket = None \/ ws[socket] = "connecting"
       THEN /\ status' = [status EXCEPT ![c] = "failed"]
            /\ UNCHANGED <<pending, wire>>
       ELSE /\ status' = [status EXCEPT ![c] = "pending"]
            /\ pending' = [pending EXCEPT ![c] = generation]
            /\ wire' = IF ws[socket] = "open" THEN wire \cup {<<socket, c>>} ELSE wire
    /\ UNCHANGED <<socket, connected, generation, ws, trying, answer>>

\* handleMessage(): the answer of Chrome to command c, result or error.
HandleMessage(s, c) ==
    /\ <<s, c>> \in wire /\ ws[s] \in {"open", "closing"}
    /\ wire' = wire \ {<<s, c>>}
    /\ IF pending[c] = generation
       THEN /\ \E how \in {"answered", "failed"} : Settle({c}, how)
            /\ answer' = [answer EXCEPT ![c] = c]
       ELSE UNCHANGED <<pending, status, answer>>
    /\ UNCHANGED <<socket, connected, generation, ws, trying>>

\* The signal of a command fires, or its time is over.
Abort(c) ==
    /\ pending[c] # None
    /\ Settle({c}, "failed")
    /\ UNCHANGED <<socket, connected, generation, ws, trying, wire, answer>>

\* The peer or the network begins to close a socket, and its close event.
Drops(s) ==
    /\ ws[s] = "open"
    /\ ws' = [ws EXCEPT ![s] = "closing"]
    /\ UNCHANGED <<socket, connected, generation, pending, trying, wire, status, answer>>

Closed(s) ==
    /\ ws[s] = "closing"
    /\ ws' = [ws EXCEPT ![s] = "closed"]
    /\ wire' = {m \in wire : m[1] # s}
    /\ MarkClosed
    /\ UNCHANGED <<trying, answer>>

\* close(): the socket's own close event comes later and is handled again. A
\* socket that still connects fails its connect().
Close ==
    /\ \E s \in Sockets : ws[s] # "none"
    /\ ws' = IF socket = None THEN ws
             ELSE [ws EXCEPT ![socket] = CASE @ = "open" -> "closing"
                                           [] @ = "connecting" -> "closed"
                                           [] OTHER -> @]
    /\ trying' = trying \ {socket}
    /\ MarkClosed
    /\ UNCHANGED <<wire, answer>>

Next ==
    \/ \E s \in Sockets :
         \/ Connect(s) \/ Open(s) \/ ConnectFails(s) \/ Drops(s) \/ Closed(s)
         \/ \E c \in Commands : HandleMessage(s, c)
    \/ \E c \in Commands : Send(c) \/ Abort(c)
    \/ Close

\* Every command has a deadline of its own.
Spec == Init /\ [][Next]_vars /\ \A c \in Commands : WF_vars(Abort(c))

-----------------------------------------------------------------------------
Ledger == INSTANCE RequestLedger WITH
    Requests <- Commands, status <- status, answer <- answer

\* A command is settled once, by its own answer or by an error, and settled it
\* is, whatever sockets open, overlap, close late or swallow it.
TransportSettles == Ledger!Spec

\* A transport that is connected is on the socket it says: a late close of an
\* old socket has not taken its replacement away. It fails: the listener does
\* not ask which socket closed.
CloseIsOwn ==
    [][\A s \in Sockets : (connected /\ socket = s /\ ws[s] = "open" /\ ws'[s] = "open")
                            => connected']_vars
=============================================================================
