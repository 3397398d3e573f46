------------------------------- MODULE BrokerStartup -------------------------------
(***********************************************************************************)
(* How broker processes of one Chrome profile compete to serve it: the startup     *)
(* lock (claimStartupLock and its release()), the endpoint socket, and the start   *)
(* and stop of a broker around them.  Each file system call is a step of its own.  *)
(*                                                                                 *)
(* The lock is a directory at a fixed path that holds a record, owner.json.  A     *)
(* contender moves a stale directory aside with rename() before deleting it.  An   *)
(* element of Brokers is one process, with its own pid and ownerNonce; Old is the  *)
(* process that left the lock and the socket of the initial state behind.          *)
(*                                                                                 *)
(* Assumed of the outside: pids are not reused, a record is written in one piece,  *)
(* and a live process needs less than staleAfterMs (two minutes) from mkdir to     *)
(* writeFile and from reading the record to lstat.                                 *)
(***********************************************************************************)
EXTENDS Naturals, FiniteSets

CONSTANTS Brokers,   \* broker processes
          Old,       \* a dead broker process
          MaxTries,  \* retries of a lost rename race, 32 in the code
          Nothing    \* no directory, no record, no socket

VARIABLES lock,    \* what lives at lockPath
          aside,   \* the directory each process has moved away
          seen,    \* the owner each contender has read
          tries,   \* recoveryAttempts
          socket,  \* the process that bound the file at socketPath
          pc

vars == <<lock, aside, seen, tries, socket, pc>>

Owner == Brokers \cup {Old, Nothing}
Directory == [owner : Owner, aged : BOOLEAN]
Claiming == {"mkdir", "write", "read", "inspect", "rename", "judge", "restore"}
Holding == {"connect", "lstat", "probe", "remove", "listen", "serving", "unlink", "release",
            "unlock"}
Ended == {"refused", "failed", "broken", "stopped", "crashed"}

TypeOK ==
  /\ lock \in Directory \cup {Nothing}
  /\ aside \in [Brokers -> Directory \cup {Nothing}]
  /\ seen \in [Brokers -> Owner]
  /\ tries \in [Brokers -> 0 .. MaxTries]
  /\ socket \in Owner
  /\ pc \in [Brokers -> Claiming \cup Holding \cup {"check"} \cup Ended]

\* The last broker of the profile left its lock, its socket, both or nothing behind.
Init ==
  /\ lock \in {Nothing, [owner |-> Old, aged |-> FALSE]}
  /\ socket \in {Old, Nothing}
  /\ aside = [p \in Brokers |-> Nothing]
  /\ seen = [p \in Brokers |-> Nothing]
  /\ tries = [p \in Brokers |-> 0]
  /\ pc = [p \in Brokers |-> "mkdir"]

Alive(p) == p \in Brokers /\ pc[p] \notin Ended
Goto(p, l) == pc' = [pc EXCEPT ![p] = l]
At(p, l) == pc[p] = l
OwnerOf(dir) == IF dir = Nothing THEN Nothing ELSE dir.owner

----------------------------------------------------------------------------
\* claimStartupLock()
Mkdir(p) ==
  /\ At(p, "mkdir")
  /\ IF lock = Nothing
     THEN lock' = [owner |-> Nothing, aged |-> FALSE] /\ Goto(p, "write")
     ELSE Goto(p, "read") /\ UNCHANGED lock
  /\ UNCHANGED <<aside, seen, tries, socket>>

\* The record goes into the directory that is at lockPath now.
Write(p) ==
  /\ At(p, "write")
  /\ IF lock # Nothing
     THEN lock' = [owner |-> p, aged |-> FALSE] /\ Goto(p, "connect")
     ELSE Goto(p, "failed") /\ UNCHANGED lock
  /\ UNCHANGED <<aside, seen, tries, socket>>

\* writeFile() fails and the directory at lockPath is deleted.
WriteFails(p) ==
  /\ At(p, "write")
  /\ lock' = Nothing
  /\ Goto(p, "broken")
  /\ UNCHANGED <<aside, seen, tries, socket>>

Read(p) ==
  /\ At(p, "read")
  /\ seen' = [seen EXCEPT ![p] = OwnerOf(lock)]
  /\ Goto(p, "inspect")
  /\ UNCHANGED <<lock, aside, tries, socket>>

\* Mutant: the owner's pid is not looked up.
InspectBlindly(p) ==
  /\ At(p, "inspect")
  /\ IF seen[p] = Nothing /\ lock # Nothing /\ ~lock.aged
     THEN Goto(p, "refused") ELSE Goto(p, "rename")
  /\ UNCHANGED <<lock, aside, seen, tries, socket>>

\* Mutant: a contender waits for the owner instead of giving up.
InspectRetrying(p) ==
  /\ At(p, "inspect")
  /\ IF Alive(seen[p]) \/ (seen[p] = Nothing /\ lock # Nothing /\ ~lock.aged)
     THEN Goto(p, "mkdir") ELSE Goto(p, "rename")
  /\ UNCHANGED <<lock, aside, seen, tries, socket>>

\* lstat() and processIsAlive(): a live owner, or a lock without an owner that is not old
\* enough, is left alone.
Inspect(p) ==
  /\ At(p, "inspect")
  /\ IF Alive(seen[p]) \/ (seen[p] = Nothing /\ lock # Nothing /\ ~lock.aged)
     THEN Goto(p, "refused") ELSE Goto(p, "rename")
  /\ UNCHANGED <<lock, aside, seen, tries, socket>>

\* Mutant: the retry bound is off by one.
RenameOnceMore(p) ==
  /\ At(p, "rename")
  /\ IF lock # Nothing
     THEN /\ aside' = [aside EXCEPT ![p] = lock]
          /\ lock' = Nothing
          /\ Goto(p, "judge")
          /\ UNCHANGED tries
     ELSE /\ IF tries[p] <= MaxTries
             THEN Goto(p, "mkdir") /\ tries' = [tries EXCEPT ![p] = @ + 1]
             ELSE Goto(p, "failed") /\ UNCHANGED tries
          /\ UNCHANGED <<lock, aside>>
  /\ UNCHANGED <<seen, socket>>

\* rename() of lockPath to a quarantine: when somebody else was faster, the claim starts
\* again.
Rename(p) ==
  /\ At(p, "rename")
  /\ IF lock # Nothing
     THEN /\ aside' = [aside EXCEPT ![p] = lock]
          /\ lock' = Nothing
          /\ Goto(p, "judge")
          /\ UNCHANGED tries
     ELSE /\ IF tries[p] < MaxTries
             THEN Goto(p, "mkdir") /\ tries' = [tries EXCEPT ![p] = @ + 1]
             ELSE Goto(p, "failed") /\ UNCHANGED tries
          /\ UNCHANGED <<lock, aside>>
  /\ UNCHANGED <<seen, socket>>

\* Mutant: the moved record is not read again.
JudgeBlindly(p) ==
  /\ At(p, "judge")
  /\ aside' = [aside EXCEPT ![p] = Nothing]
  /\ Goto(p, "mkdir")
  /\ UNCHANGED <<lock, seen, tries, socket>>

\* The moved record is read again: it is deleted when it is the stale one.
Judge(p) ==
  /\ At(p, "judge")
  /\ IF aside[p].owner = seen[p] /\ seen[p] # Nothing
     THEN aside' = [aside EXCEPT ![p] = Nothing] /\ Goto(p, "mkdir")
     ELSE Goto(p, "restore") /\ UNCHANGED aside
  /\ UNCHANGED <<lock, seen, tries, socket>>

\* rename() of a directory back to lockPath: it replaces an empty directory, and fails on
\* one that holds a record.
MoveBack(p) ==
  IF OwnerOf(lock) = Nothing
  THEN lock' = aside[p] /\ aside' = [aside EXCEPT ![p] = Nothing]
  ELSE UNCHANGED <<lock, aside>>

Restore(p) ==
  /\ At(p, "restore")
  /\ MoveBack(p)
  /\ Goto(p, "refused")
  /\ UNCHANGED <<seen, tries, socket>>

----------------------------------------------------------------------------
\* startInternal() of the owner of the lock.  A step that fails leads to stopInternal().

\* The DevTools port, the transport and the recovery of orphan tabs.
Connect(p) ==
  /\ At(p, "connect")
  /\ Goto(p, "lstat") \/ Goto(p, "release")
  /\ UNCHANGED <<lock, aside, seen, tries, socket>>

FindSocket(p) ==
  /\ At(p, "lstat")
  /\ Goto(p, IF socket # Nothing THEN "probe" ELSE "listen")
  /\ UNCHANGED <<lock, aside, seen, tries, socket>>

Listening(p) == p \in Brokers /\ pc[p] = "serving"

\* endpointIsAlive()
Probe(p) ==
  /\ At(p, "probe")
  /\ Goto(p, IF Listening(socket) THEN "release" ELSE "remove")
  /\ UNCHANGED <<lock, aside, seen, tries, socket>>

RemoveSocket(p) ==
  /\ At(p, "remove")
  /\ socket' = Nothing
  /\ Goto(p, "listen")
  /\ UNCHANGED <<lock, aside, seen, tries>>

Listen(p) ==
  /\ At(p, "listen")
  /\ IF socket = Nothing THEN socket' = p /\ Goto(p, "serving")
                         ELSE Goto(p, "release") /\ UNCHANGED socket
  /\ UNCHANGED <<lock, aside, seen, tries>>

\* Mutant: the lock is released before the endpoint is removed.
StopUnlocked(p) ==
  /\ At(p, "serving")
  /\ lock' = IF OwnerOf(lock) = p THEN Nothing ELSE lock
  /\ Goto(p, "unlink")
  /\ UNCHANGED <<aside, seen, tries, socket>>

\* stopInternal(): the server closes and takes its path with it; rm() follows.
Stop(p) ==
  /\ At(p, "serving")
  /\ socket' = Nothing
  /\ Goto(p, "unlink")
  /\ UNCHANGED <<lock, aside, seen, tries>>

Unlink(p) ==
  /\ At(p, "unlink")
  /\ socket' = Nothing
  /\ Goto(p, "release")
  /\ UNCHANGED <<lock, aside, seen, tries>>

\* release() of the lock.
Release(p) ==
  /\ At(p, "release")
  /\ Goto(p, IF OwnerOf(lock) = p THEN "unlock" ELSE "stopped")
  /\ UNCHANGED <<lock, aside, seen, tries, socket>>

Unlock(p) ==
  /\ At(p, "unlock")
  /\ IF lock # Nothing
     THEN /\ aside' = [aside EXCEPT ![p] = lock] /\ lock' = Nothing
          /\ Goto(p, "check")
     ELSE Goto(p, "stopped") /\ UNCHANGED <<lock, aside>>
  /\ UNCHANGED <<seen, tries, socket>>

Check(p) ==
  /\ At(p, "check")
  /\ IF aside[p].owner = p
     THEN aside' = [aside EXCEPT ![p] = Nothing] /\ UNCHANGED lock
     ELSE MoveBack(p)
  /\ Goto(p, "stopped")
  /\ UNCHANGED <<seen, tries, socket>>

Crash(p) ==
  /\ pc[p] \notin Ended
  /\ Goto(p, "crashed")
  /\ UNCHANGED <<lock, aside, seen, tries, socket>>

\* staleAfterMs has passed since the last change of the lock directory.
Age ==
  /\ lock # Nothing /\ ~lock.aged
  /\ \A p \in Brokers : pc[p] \notin {"write", "inspect"}
  /\ lock' = [lock EXCEPT !.aged = TRUE]
  /\ UNCHANGED <<aside, seen, tries, socket, pc>>

ClaimStep(p) ==
  Mkdir(p) \/ Write(p) \/ Read(p) \/ Inspect(p) \/ Rename(p) \/ Judge(p) \/ Restore(p)
StartStep(p) == Connect(p) \/ FindSocket(p) \/ Probe(p) \/ RemoveSocket(p) \/ Listen(p)
StopStep(p) == Unlink(p) \/ Release(p) \/ Unlock(p) \/ Check(p)

Next ==
  \/ \E p \in Brokers : \/ ClaimStep(p) \/ StartStep(p) \/ StopStep(p)
                        \/ WriteFails(p) \/ Stop(p) \/ Crash(p)
  \/ Age

Spec == Init /\ [][Next]_vars

\* A process that has not crashed takes its next step, and time passes.
FairSpec ==
  /\ Spec
  /\ \A p \in Brokers : WF_vars(ClaimStep(p) \/ StartStep(p) \/ StopStep(p))
  /\ WF_vars(Age)

----------------------------------------------------------------------------
Owners == {p \in Brokers : pc[p] \in Holding}

\* A profile has one owner at a time ("A broker already owns this Chrome profile").
\* With three contenders it fails: BrokerStartupTwoOwners.cfg shows how.
OneOwner == Cardinality(Owners) <= 1

\* "Never unlink a live owner's lock": the record of a live owner is at lockPath or in a
\* directory moved aside until its owner deletes it.
LiveRecordKept ==
  [][\A p \in Brokers :
       (p \in Owners /\ p \in Owners' /\ p \in {OwnerOf(lock)} \cup {OwnerOf(aside[q]) : q \in Brokers})
         => p \in {OwnerOf(lock')} \cup {OwnerOf(aside'[q]) : q \in Brokers}]_vars

\* A broker that serves can be reached: nobody else removes or rebinds its endpoint.
ServingReachable == \A p \in Brokers : pc[p] = "serving" => socket = p

\* A claim always comes to an end, however often the rename race is lost.
ClaimEnds == \A p \in Brokers : pc[p] \in Claiming ~> pc[p] \notin Claiming

\* "stale recovery uses an atomic rename and preserves the winning owner" (the test asserts
\* one winner among the contenders of a stale lock): they are not all turned away.
\* It does not hold: all of them may be turned away.
SomeoneWins == \E p \in Brokers : pc[p] \notin {"refused", "failed"}

\* "Without a valid owner pid ... keep the age gate" (claimStartupLock): a lock without a
\* record is protected by its age only, and a process that finds it old and runs alone takes
\* it over.
\* It does not hold: the process is refused.
OldOwnerlessTaken ==
  \A p \in Brokers :
    ( /\ pc[p] = "mkdir" /\ lock # Nothing /\ OwnerOf(lock) = Nothing /\ lock.aged
      /\ \A q \in Brokers \ {p} : pc[q] \in Ended )
    ~> pc[p] \in {"connect", "crashed", "broken"}
=============================================================================
