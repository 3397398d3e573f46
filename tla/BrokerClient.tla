---------------------------- MODULE BrokerClient ----------------------------
(* The client of the Google broker (extractors/google-cdp-broker-client.mjs): *)
(* searches share one registered connection, a lost connection fails what is  *)
(* pending on it, and a search whose registration the broker has forgotten    *)
(* reconnects and is sent once more.                                          *)
(*                                                                            *)
(* One JavaScript thread: the answers of one chunk of data are all handled    *)
(* before a search that one of them rejected goes on (bounced).               *)
EXTENDS Naturals, Sequences, TLAPS

CONSTANTS
    Searches,   \* calls of search()
    Sockets,    \* connections, 1..n in the order they are made
    None

VARIABLES
    socket,     \* this.socket
    registered, closed,
    op,         \* connectPromise: its socket and "waiting" or "registering", or None
    sock,       \* per connection: "none", "connecting", "open", "dead"
    search,     \* per search: "new", "connecting", "sent", "bounced", "over"
    on,         \* per search that is sent: the socket, whose frame is pending
    tries,      \* per search: how often it has been sent
    bounced,    \* searches answered not_registered whose catch has not run
    status, answer

vars == <<socket, registered, closed, op, sock, search, on, tries, bounced, status, answer>>

conn == <<socket, registered, op, sock>>

Init ==
    /\ socket = None /\ registered = FALSE /\ closed = FALSE
    /\ op = None
    /\ sock = [s \in Sockets |-> "none"]
    /\ search = [r \in Searches |-> "new"]
    /\ on = [r \in Searches |-> None]
    /\ tries = [r \in Searches |-> 0]
    /\ bounced = <<>>
    /\ status = [r \in Searches |-> "new"]
    /\ answer = [r \in Searches |-> r]

Idle == bounced = <<>>

Fresh == {s \in Sockets : sock[s] = "none" /\ \A t \in Sockets : t < s => sock[t] # "none"}

In(pc) == {r \in Searches : search[r] = pc}

\* Searches R are over; `more` are sent on s.
Move(R, more, s) ==
    /\ search' = [r \in Searches |-> IF r \in R THEN "over"
                                     ELSE IF r \in more THEN "sent" ELSE search[r]]
    /\ on' = [r \in Searches |-> IF r \in R THEN None ELSE IF r \in more THEN s ELSE on[r]]
    /\ tries' = [r \in Searches |-> tries[r] + IF r \in more THEN 1 ELSE 0]

Fail(R) == status' = [r \in Searches |-> IF r \in R THEN "failed" ELSE status[r]]

\* search(): it is sent on the registered connection, or it makes the
\* connection, or waits for the one that is being made.
Search(r) ==
    /\ Idle /\ search[r] = "new"
    /\ IF registered
       THEN /\ Move({}, {r}, socket)
            /\ status' = [status EXCEPT ![r] = "pending"]
            /\ UNCHANGED conn
       ELSE IF op = None /\ closed
       THEN /\ Move({r}, {}, None)
            /\ Fail({r})
            /\ UNCHANGED conn
       ELSE /\ search' = [search EXCEPT ![r] = "connecting"]
            /\ status' = [status EXCEPT ![r] = "pending"]
            /\ UNCHANGED <<on, tries, registered>>
            /\ IF op # None THEN UNCHANGED <<socket, op, sock>>
               ELSE \E s \in Fresh :
                      /\ socket' = s /\ sock' = [sock EXCEPT ![s] = "connecting"]
                      /\ op' = [socket |-> s, phase |-> "waiting"]
    /\ UNCHANGED <<closed, bounced, answer>>

\* The socket connects and the registration is sent, on this.socket.
Connected ==
    /\ Idle /\ op # None /\ op.phase = "waiting" /\ sock[op.socket] = "connecting"
    /\ sock' = [sock EXCEPT ![op.socket] = "open"]
    /\ op' = [op EXCEPT !.phase = "registering"]
    /\ UNCHANGED <<socket, registered, closed, search, on, tries, bounced, status, answer>>

\* The broker's capability arrives: everybody who waited sends its search, or
\* finds its deadline passed.
Registered ==
    /\ Idle /\ op # None /\ op.phase = "registering"
    /\ socket = op.socket /\ sock[socket] = "open"
    /\ registered' = TRUE /\ op' = None
    /\ \E late \in SUBSET In("connecting") :
         /\ Move(late, In("connecting") \ late, socket)
         /\ Fail(late)
    /\ UNCHANGED <<socket, closed, sock, bounced, answer>>

\* failPending() of a socket: everything pending fails, unless another socket
\* has become this.socket; in that case nothing does.
Failing(s) == IF socket = s THEN In("sent") ELSE {}

\* The connection cannot be made: its deadline, its caller's signal, an error,
\* or the registration fails. Everybody who waited fails with it.
ConnectFails ==
    /\ Idle /\ op # None
    /\ LET s == op.socket
           R == In("connecting") \cup Failing(s)
       IN  /\ Move(R, {}, None) /\ Fail(R)
           /\ sock' = [sock EXCEPT ![s] = "dead"]
           /\ socket' = IF socket = s THEN None ELSE socket
           /\ registered' = IF socket = s THEN FALSE ELSE registered
    /\ op' = None
    /\ UNCHANGED <<closed, bounced, answer>>

\* receive(): the answer to a search, a result or an error.
Receive(r) ==
    /\ search[r] = "sent" /\ on[r] = socket /\ sock[socket] = "open" /\ ~closed
    /\ Move({r}, {}, None)
    /\ \E how \in {"answered", "failed"} : status' = [status EXCEPT ![r] = how]
    /\ answer' = [answer EXCEPT ![r] = r]
    /\ UNCHANGED <<conn, closed, bounced>>

\* The answer says that the broker does not know the registration.
Bounce(r) ==
    /\ search[r] = "sent" /\ on[r] = socket /\ sock[socket] = "open" /\ ~closed
    /\ IF tries[r] = 1
       THEN /\ search' = [search EXCEPT ![r] = "bounced"]
            /\ on' = [on EXCEPT ![r] = None]
            /\ bounced' = Append(bounced, r)
            /\ UNCHANGED <<tries, status>>
       ELSE Move({r}, {}, None) /\ Fail({r}) /\ UNCHANGED bounced
    /\ UNCHANGED <<conn, closed, answer>>

\* The catch of search(): this.socket, whichever it is by now, is given up
\* without failing what is pending on it, and a connection is made or awaited.
Retry ==
    /\ ~Idle /\ bounced' = Tail(bounced)
    /\ LET r == Head(bounced)
           given == IF socket = None THEN sock ELSE [sock EXCEPT ![socket] = "dead"]
       IN  IF closed
           THEN /\ search' = [search EXCEPT ![r] = "over"] /\ Fail({r})
                /\ UNCHANGED conn
           ELSE /\ registered' = FALSE /\ UNCHANGED status
                /\ search' = [search EXCEPT ![r] = "connecting"]
                /\ IF op # None
                   THEN socket' = None /\ sock' = given /\ UNCHANGED op
                   ELSE \E s \in Fresh :
                          /\ socket' = s /\ sock' = [given EXCEPT ![s] = "connecting"]
                          /\ op' = [socket |-> s, phase |-> "waiting"]
    /\ UNCHANGED <<closed, on, tries, answer>>

\* A socket ends: error, end or close. (Of one being connected: ConnectFails.)
SocketEnds(s) ==
    /\ Idle /\ sock[s] = "open" /\ (op # None => op.socket # s)
    /\ sock' = [sock EXCEPT ![s] = "dead"]
    /\ Move(Failing(s), {}, None) /\ Fail(Failing(s))
    /\ registered' = IF socket = s THEN FALSE ELSE registered
    /\ UNCHANGED <<socket, closed, op, bounced, answer>>

\* The signal or the deadline of a search that is sent: it leaves the table,
\* and the broker is told as far as possible.
Fence(r) ==
    /\ Idle /\ search[r] = "sent"
    /\ Move({r}, {}, None) /\ Fail({r})
    /\ UNCHANGED <<conn, closed, bounced, answer>>

\* Mutant: the table is cleared, the promises are forgotten.
Close_Silent ==
    /\ ~closed
    /\ closed' = TRUE
    /\ Move(In("sent"), {}, None) /\ UNCHANGED status
    /\ sock' = IF socket = None THEN sock ELSE [sock EXCEPT ![socket] = "dead"]
    /\ socket' = None /\ registered' = FALSE
    /\ UNCHANGED <<op, bounced, answer>>

\* close(), by the owner of the client or after a malformed or too long frame.
Close ==
    /\ ~closed
    /\ closed' = TRUE
    /\ Move(In("sent"), {}, None) /\ Fail(In("sent"))
    /\ sock' = IF socket = None THEN sock ELSE [sock EXCEPT ![socket] = "dead"]
    /\ socket' = None /\ registered' = FALSE
    /\ UNCHANGED <<op, bounced, answer>>

Next ==
    \/ \E r \in Searches : Search(r) \/ Receive(r) \/ Bounce(r) \/ Fence(r)
    \/ Connected \/ Registered \/ ConnectFails \/ Retry \/ Close
    \/ \E s \in Sockets : SocketEnds(s)

\* Every search and every connection attempt has a deadline.
Spec ==
    /\ Init /\ [][Next]_vars
    /\ WF_vars(Retry) /\ WF_vars(ConnectFails) /\ \A r \in Searches : WF_vars(Fence(r))

-----------------------------------------------------------------------------
Ledger == INSTANCE RequestLedger WITH
    Requests <- Searches, status <- status, answer <- answer

\* A search is settled once, by its own answer or by an error, and settled it
\* is: joined connections, sockets given up under pending searches, second
\* attempts and the close of the client included.
ClientSettles == Ledger!Spec

\* Searches wait only for a connection that can still be made. It fails: of two
\* searches bounced by one chunk the second destroys the socket the first one
\* is connecting, and both wait until the deadline.
ConnectingCanSucceed == (Idle /\ op # None /\ ~closed) => sock[op.socket] # "dead"

\* A search is pending only on the connection whose answers are read. It fails:
\* the search that reconnects leaves the others pending on the old socket.
PendingIsRead == Idle => \A r \in In("sent") : on[r] = socket

-----------------------------------------------------------------------------
(* ClientSettles without its liveness, for any number of searches and         *)
(* connections. A search is pending from its call until it is over; those     *)
(* that wait for their catch are in bounced, each of them once.               *)

Places == {"new", "connecting", "sent", "bounced", "over"}

StatusAt ==
    \A r \in Searches :
        /\ search[r] = "new" <=> status[r] = "new"
        /\ search[r] = "over" <=> status[r] \in {"answered", "failed"}

BouncedOnce ==
    /\ \A i \in 1 .. Len(bounced) : search[bounced[i]] = "bounced"
    /\ \A i, j \in 1 .. Len(bounced) : bounced[i] = bounced[j] => i = j

IInv ==
    /\ bounced \in Seq(Searches)
    /\ search \in [Searches -> Places]
    /\ status \in [Searches -> {"new", "pending", "answered", "failed"}]
    /\ answer = [r \in Searches |-> r]
    /\ StatusAt
    /\ BouncedOnce

Steps == IInv' /\ (Ledger!Next \/ UNCHANGED Ledger!lvars)

\* Pending searches that are over settle in one step of the ledger; others may be
\* sent with the same step.
LEMMA OverSettles ==
    ASSUME IInv, UNCHANGED bounced, answer' = answer,
           NEW R \in SUBSET (In("connecting") \cup In("sent")),
           NEW more \in SUBSET In("connecting"), NEW s, Move(R, more, s),
           NEW how \in {"answered", "failed"},
           status' = [r \in Searches |-> IF r \in R THEN how ELSE status[r]]
    PROVE  Steps
<1>1. search' = [r \in Searches |-> IF r \in R THEN "over"
                                    ELSE IF r \in more THEN "sent" ELSE search[r]]
  BY DEF Move
<1>2. \A r \in R \cup more : r \in Searches /\ search[r] \in {"connecting", "sent"}
  BY DEF In
<1>3. \A r \in R \cup more : status[r] = "pending"
  BY <1>2 DEF IInv, StatusAt, Places
<1>4. /\ search' \in [Searches -> Places]
      /\ status' \in [Searches -> {"new", "pending", "answered", "failed"}]
  BY <1>1 DEF IInv, Places
<1>5. StatusAt'
  BY <1>1, <1>2, <1>3 DEF IInv, StatusAt
<1>6. BouncedOnce'
  <2>1. \A i \in 1 .. Len(bounced) : bounced[i] \in Searches /\ search[bounced[i]] = "bounced"
    BY DEF IInv, BouncedOnce
  <2>2. \A i \in 1 .. Len(bounced) : search'[bounced[i]] = "bounced"
    BY <1>1, <1>2, <2>1
  <2> QED
    BY <2>2 DEF BouncedOnce, IInv
<1>7. IInv'
  BY <1>4, <1>5, <1>6 DEF IInv
<1>8. CASE R = {}
  <2>1. status' = status
    BY <1>8 DEF IInv
  <2> QED
    BY <1>7, <2>1 DEF Steps, Ledger!lvars
<1>9. CASE R # {}
  <2>1. [r \in R |-> how] \in [R -> {"answered", "failed"}]
    OBVIOUS
  <2>2. status' = [r \in Searches |-> IF r \in R THEN [q \in R |-> how][r] ELSE status[r]]
    OBVIOUS
  <2>3. Ledger!Settle(R)
    BY <1>3, <1>9, <2>1, <2>2 DEF Ledger!Settle
  <2>4. R \in SUBSET Searches
    BY <1>2
  <2> QED
    BY <1>7, <2>3, <2>4 DEF Steps, Ledger!Next
<1> QED
  BY <1>8, <1>9

LEMMA SearchSteps ==
    ASSUME IInv, NEW r \in Searches, Search(r)
    PROVE  Steps
<1>1. /\ search[r] = "new" /\ bounced' = bounced /\ answer' = answer
      /\ \/ /\ search' = [search EXCEPT ![r] = "over"]
            /\ status' = [status EXCEPT ![r] = "failed"]
         \/ \E at \in {"sent", "connecting"} :
              /\ search' = [search EXCEPT ![r] = at]
              /\ status' = [status EXCEPT ![r] = "pending"]
  <2>1. search[r] = "new" /\ bounced' = bounced /\ answer' = answer
    BY DEF Search
  <2>2. CASE Move({}, {r}, socket) /\ status' = [status EXCEPT ![r] = "pending"]
    <3>1. search' = [search EXCEPT ![r] = "sent"]
      BY <2>2 DEF Move, IInv
    <3> QED
      BY <2>1, <2>2, <3>1
  <2>3. CASE Move({r}, {}, None) /\ Fail({r})
    <3>1. /\ search' = [search EXCEPT ![r] = "over"]
          /\ status' = [status EXCEPT ![r] = "failed"]
      BY <2>3 DEF Move, Fail, IInv
    <3> QED
      BY <2>1, <3>1
  <2>4. CASE /\ search' = [search EXCEPT ![r] = "connecting"]
             /\ status' = [status EXCEPT ![r] = "pending"]
    BY <2>1, <2>4
  <2> QED
    BY <2>2, <2>3, <2>4 DEF Search
<1>2. status[r] = "new"
  BY <1>1 DEF IInv, StatusAt
<1>3. \A i \in 1 .. Len(bounced) : bounced[i] \in Searches /\ bounced[i] # r
  BY <1>1 DEF IInv, BouncedOnce
<1>4. IInv'
  BY <1>1, <1>3 DEF IInv, Places, StatusAt, BouncedOnce
<1>5. Ledger!Take(r)
  BY <1>1, <1>2 DEF Ledger!Take
<1> QED
  BY <1>4, <1>5 DEF Steps, Ledger!Next

LEMMA BounceSteps ==
    ASSUME IInv, NEW r \in Searches, Bounce(r)
    PROVE  Steps
<1>1. search[r] = "sent" /\ answer' = answer
  BY DEF Bounce
<1>2. CASE Move({r}, {}, None) /\ Fail({r}) /\ UNCHANGED bounced
  BY <1>1, <1>2, OverSettles DEF Fail, In
<1>3. CASE /\ search' = [search EXCEPT ![r] = "bounced"]
           /\ bounced' = Append(bounced, r) /\ UNCHANGED status
  <2>1. /\ \A i \in 1 .. Len(bounced) : bounced[i] \in Searches /\ bounced[i] # r
        /\ Len(bounced) \in Nat
    BY <1>1 DEF IInv, BouncedOnce
  <2>2. /\ Len(bounced') = Len(bounced) + 1 /\ bounced' \in Seq(Searches)
        /\ bounced'[Len(bounced) + 1] = r
        /\ \A i \in 1 .. Len(bounced) : bounced'[i] = bounced[i]
    BY <1>3 DEF IInv
  <2>3. \A i \in 1 .. Len(bounced') : i \in 1 .. Len(bounced) \/ i = Len(bounced) + 1
    BY <2>1, <2>2
  <2>4. BouncedOnce'
    BY <1>3, <2>1, <2>2, <2>3 DEF IInv, BouncedOnce
  <2>5. IInv'
    BY <1>1, <1>3, <2>2, <2>4 DEF IInv, Places, StatusAt
  <2> QED
    BY <1>1, <1>3, <2>5 DEF Steps, Ledger!lvars
<1> QED
  BY <1>2, <1>3 DEF Bounce

LEMMA RetrySteps ==
    ASSUME IInv, Retry
    PROVE  Steps
<1> DEFINE r == Head(bounced)
<1>1. bounced # <<>> /\ bounced' = Tail(bounced) /\ answer' = answer
  BY DEF Retry, Idle
<1>2. /\ Len(bounced) \in Nat \ {0} /\ r = bounced[1] /\ r \in Searches
      /\ search[r] = "bounced"
  BY <1>1 DEF IInv, BouncedOnce
<1>3. /\ bounced' \in Seq(Searches) /\ Len(bounced') = Len(bounced) - 1
      /\ \A i \in 1 .. Len(bounced') : bounced'[i] = bounced[i + 1]
  BY <1>1 DEF IInv
<1>4. \A i \in 1 .. Len(bounced') :
        i + 1 \in 1 .. Len(bounced) /\ bounced'[i] # r /\ bounced'[i] \in Searches
  BY <1>2, <1>3 DEF IInv, BouncedOnce
<1>5. status[r] = "pending"
  BY <1>2 DEF IInv, StatusAt
<1>6. \/ search' = [search EXCEPT ![r] = "over"] /\ Fail({r})
      \/ search' = [search EXCEPT ![r] = "connecting"] /\ status' = status
  BY DEF Retry
<1> HIDE DEF r
<1>7. BouncedOnce'
  <2>1. \A i \in 1 .. Len(bounced') : search'[bounced'[i]] = "bounced"
    BY <1>3, <1>4, <1>6 DEF IInv, BouncedOnce
  <2>2. \A i, j \in 1 .. Len(bounced') : bounced'[i] = bounced'[j] => i = j
    <3> TAKE i, j \in 1 .. Len(bounced')
    <3>1. i \in Nat /\ j \in Nat /\ i + 1 \in 1 .. Len(bounced) /\ j + 1 \in 1 .. Len(bounced)
      BY <1>4
    <3>2. bounced'[i] = bounced[i + 1] /\ bounced'[j] = bounced[j + 1]
      BY <1>3
    <3>3. bounced[i + 1] = bounced[j + 1] => i + 1 = j + 1
      BY <3>1 DEF IInv, BouncedOnce
    <3> QED
      BY <3>1, <3>2, <3>3
  <2> QED
    BY <2>1, <2>2 DEF BouncedOnce
<1>8. CASE search' = [search EXCEPT ![r] = "over"] /\ Fail({r})
  <2>1. IInv'
    BY <1>1, <1>2, <1>3, <1>7, <1>8 DEF IInv, Places, StatusAt, Fail
  <2>2. [q \in {r} |-> "failed"] \in [{r} -> {"answered", "failed"}]
    OBVIOUS
  <2>3. status' = [q \in Searches |-> IF q \in {r} THEN [p \in {r} |-> "failed"][q]
                                      ELSE status[q]]
    BY <1>8 DEF Fail
  <2>4. Ledger!Settle({r})
    BY <1>1, <1>5, <2>2, <2>3 DEF Ledger!Settle
  <2> QED
    BY <1>2, <2>1, <2>4 DEF Steps, Ledger!Next
<1>9. CASE search' = [search EXCEPT ![r] = "connecting"] /\ status' = status
  <2>1. IInv'
    BY <1>1, <1>2, <1>3, <1>5, <1>7, <1>9 DEF IInv, Places, StatusAt
  <2> QED
    BY <1>1, <1>9, <2>1 DEF Steps, Ledger!lvars
<1> QED
  BY <1>6, <1>8, <1>9

\* What a client does settles each search once: joined connections, sockets given up
\* under pending searches, second attempts and the close of the client included.
THEOREM ClientRefines == Spec => Ledger!Safe
<1>1. Init => IInv /\ Ledger!Init
  BY DEF Init, IInv, Places, StatusAt, BouncedOnce, Ledger!Init
<1>2. IInv /\ [Next]_vars => IInv' /\ [Ledger!Next]_(Ledger!lvars)
  <2> SUFFICES ASSUME IInv, [Next]_vars PROVE Steps
    BY DEF Steps
  <2>1. CASE UNCHANGED <<search, bounced, status, answer>>
    BY <2>1 DEF IInv, StatusAt, BouncedOnce, Steps, Ledger!lvars
  <2>2. ASSUME NEW r \in Searches, Search(r) PROVE Steps
    BY <2>2, SearchSteps
  <2>3. ASSUME NEW r \in Searches, Receive(r) PROVE Steps
    <3>1. /\ search[r] = "sent" /\ bounced' = bounced /\ Move({r}, {}, None)
          /\ answer' = answer
      BY <2>3 DEF Receive, IInv
    <3>2. PICK how \in {"answered", "failed"} : status' = [status EXCEPT ![r] = how]
      BY <2>3 DEF Receive
    <3>3. status' = [q \in Searches |-> IF q \in {r} THEN how ELSE status[q]]
      BY <3>2 DEF IInv
    <3> QED
      BY <3>1, <3>3, OverSettles DEF In
  <2>4. ASSUME NEW r \in Searches, Bounce(r) PROVE Steps
    BY <2>4, BounceSteps
  <2>5. ASSUME NEW r \in Searches, Fence(r) PROVE Steps
    BY <2>5, OverSettles DEF Fence, Fail, In
  <2>6. CASE Registered
    <3>1. PICK late \in SUBSET In("connecting") :
            Move(late, In("connecting") \ late, socket) /\ Fail(late)
      BY <2>6 DEF Registered
    <3> QED
      BY <2>6, <3>1, OverSettles DEF Registered, Fail
  <2>7. CASE ConnectFails
    BY <2>7, OverSettles DEF ConnectFails, Failing, Fail
  <2>8. CASE Retry
    BY <2>8, RetrySteps
  <2>9. CASE Close
    BY <2>9, OverSettles DEF Close, Fail
  <2>10. ASSUME NEW s \in Sockets, SocketEnds(s) PROVE Steps
    BY <2>10, OverSettles DEF SocketEnds, Failing, Fail
  <2> QED
    BY <2>1, <2>2, <2>3, <2>4, <2>5, <2>6, <2>7, <2>8, <2>9, <2>10 DEF Next, vars, Connected
<1> QED
  BY <1>1, <1>2, PTL DEF Spec, Ledger!Safe
=============================================================================
