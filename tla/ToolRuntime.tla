----------------------------- MODULE ToolRuntime -----------------------------
(***************************************************************************)
(* How a call reaches the implementation of its tool (src/index.ts,        *)
(* src/src/tools/lazy.ts, src/src/sdk.ts, src/src/mcp-server.ts).          *)
(*                                                                         *)
(* Nothing is imported when the host starts.  The first call of a tool     *)
(* imports its module, and every call that arrives in the meantime waits   *)
(* for that one import.  Before it, a tool that reads the session caches   *)
(* or the user's own extractors waits for them.  The pi extension keeps    *)
(* `loading` in the closure of the tool and forgets it when it is          *)
(* rejected; the SDK, which the MCP server and the command line share,     *)
(* keeps it in the map `_loading`.                                         *)
(***************************************************************************)
EXTENDS Naturals, FiniteSets

CONSTANTS Calls,          \* the calls of the host
          Tools,          \* the tools
          ToolOf,         \* the tool a call asks for
          NeedsCache,     \* the tools registered with needsCache
          NeedsUser,      \* the tools registered with needsUserExtractors
          Sdk,            \* TRUE on the SDK surface, FALSE in the extension
          MaxFailures     \* how often importing a module fails (a bound)

VARIABLES
    cacheReady,   \* "idle" | "loading" | "ready": the caches read from disk
    userReady,    \* likewise for the user's extractors
    runtime,      \* the tools whose implementation is captured
    loading,      \* per tool: "none" | "needs" | "import" | "rejected"
    call,         \* per call: "new" | "starting" | "waiting" | "running" | "done" | "failed"
    failures,     \* how many imports failed (a bound)
    seen          \* per call: the failures before it (history, for the property)

vars == <<cacheReady, userReady, runtime, loading, call, failures, seen>>

TypeOK ==
    /\ cacheReady \in {"idle", "loading", "ready"}
    /\ userReady \in {"idle", "loading", "ready"}
    /\ runtime \in SUBSET Tools
    /\ loading \in [Tools -> {"none", "needs", "import", "rejected"}]
    /\ call \in [Calls -> {"new", "starting", "waiting", "running", "done", "failed"}]
    /\ failures \in 0 .. MaxFailures
    /\ seen \in [Calls -> 0 .. MaxFailures]

\* The extension starts reading the caches as soon as pi loads it; the SDK
\* reads both on its first call.
Init ==
    /\ cacheReady = IF Sdk THEN "idle" ELSE "loading"
    /\ userReady = "idle"
    /\ runtime = {}
    /\ loading = [t \in Tools |-> "none"]
    /\ call = [c \in Calls |-> "new"]
    /\ failures = 0
    /\ seen = [c \in Calls |-> 0]

\* Mutant: a tool does not wait for the caches.
Needed_Unread(t) == t \in NeedsUser => userReady = "ready"

Needed(t) ==
    /\ t \in NeedsCache => cacheReady = "ready"
    /\ t \in NeedsUser => userReady = "ready"

\* A load under way, or a rejected one nobody forgot, is what a call awaits.
Joins(t) == IF loading[t] = "none" THEN "needs" ELSE loading[t]

(***************************************************************************)
(* A call.  The extension looks for the captured tool at once; the SDK     *)
(* first awaits initRuntime(), which reads caches and extractors once.     *)
(***************************************************************************)
Call(c) ==
    /\ call[c] = "new"
    /\ call' = [call EXCEPT ![c] = "starting"]
    /\ seen' = [seen EXCEPT ![c] = failures]
    /\ cacheReady' = IF cacheReady = "idle" THEN "loading" ELSE cacheReady
    /\ UNCHANGED <<userReady, runtime, loading, failures>>

GetRuntime(c) ==
    LET t == ToolOf[c] IN
    /\ call[c] = "starting"
    /\ Sdk => userReady = "ready"
    /\ IF t \in runtime
       THEN /\ call' = [call EXCEPT ![c] = "running"]
            /\ UNCHANGED loading
       ELSE /\ call' = [call EXCEPT ![c] = "waiting"]
            /\ loading' = [loading EXCEPT ![t] = Joins(t)]
    /\ UNCHANGED <<cacheReady, userReady, runtime, failures, seen>>

\* The files of the caches are read, whatever is wrong with them.
CachesRead ==
    /\ cacheReady = "loading"
    /\ cacheReady' = "ready"
    /\ userReady' = IF Sdk THEN "loading" ELSE userReady
    /\ UNCHANGED <<runtime, loading, call, failures, seen>>

\* ensureUserExtractors(): started by the first tool that needs them.
ExtractorsAsked(t) ==
    /\ loading[t] = "needs"
    /\ t \in NeedsUser
    /\ userReady = "idle"
    /\ userReady' = "loading"
    /\ UNCHANGED <<cacheReady, runtime, loading, call, failures, seen>>

\* initUserExtractors() leaves the registry empty when a file is at fault.
ExtractorsRead ==
    /\ userReady = "loading"
    /\ userReady' = "ready"
    /\ UNCHANGED <<cacheReady, runtime, loading, call, failures, seen>>

\* ready().then(() => loadRegisteredTool(definition.load))
Import(t) ==
    /\ loading[t] = "needs"
    /\ Needed(t)
    /\ loading' = [loading EXCEPT ![t] = "import"]
    /\ UNCHANGED <<cacheReady, userReady, runtime, call, failures, seen>>

Waiting(t) == {c \in Calls : call[c] = "waiting" /\ ToolOf[c] = t}

Loaded(t) ==
    /\ loading[t] = "import"
    /\ runtime' = runtime \cup {t}
    /\ call' = [c \in Calls |-> IF c \in Waiting(t) THEN "running" ELSE call[c]]
    /\ loading' = [loading EXCEPT ![t] = "none"]
    /\ UNCHANGED <<cacheReady, userReady, failures, seen>>

\* Mutant: the extension keeps the rejected promise as well.
Forgotten_Never == "rejected"

\* What is left of a rejected load.
Forgotten == IF Sdk THEN "rejected" ELSE "none"

LoadFails(t) ==
    /\ loading[t] = "import"
    /\ failures < MaxFailures
    /\ failures' = failures + 1
    /\ call' = [c \in Calls |-> IF c \in Waiting(t) THEN "failed" ELSE call[c]]
    /\ loading' = [loading EXCEPT ![t] = Forgotten]
    /\ UNCHANGED <<cacheReady, userReady, runtime, seen>>

\* A call that awaits a rejected promise fails in turn.
Rejected(c) ==
    /\ call[c] = "waiting"
    /\ loading[ToolOf[c]] = "rejected"
    /\ call' = [call EXCEPT ![c] = "failed"]
    /\ UNCHANGED <<cacheReady, userReady, runtime, loading, failures, seen>>

\* The tool returns or throws; either way the call is answered.
Executed(c) ==
    /\ call[c] = "running"
    /\ call' = [call EXCEPT ![c] = "done"]
    /\ UNCHANGED <<cacheReady, userReady, runtime, loading, failures, seen>>

Next ==
    \/ \E c \in Calls : Call(c) \/ GetRuntime(c) \/ Rejected(c) \/ Executed(c)
    \/ \E t \in Tools : ExtractorsAsked(t) \/ Import(t) \/ Loaded(t) \/ LoadFails(t)
    \/ CachesRead \/ ExtractorsRead

\* Promises settle: a read, an import and a started tool come to an end.
Fairness ==
    /\ WF_vars(CachesRead) /\ WF_vars(ExtractorsRead)
    /\ \A t \in Tools : WF_vars(ExtractorsAsked(t) \/ Import(t) \/ Loaded(t))
    /\ \A c \in Calls : WF_vars(GetRuntime(c) \/ Rejected(c) \/ Executed(c))

Spec == Init /\ [][Next]_vars
FairSpec == Spec /\ Fairness

-----------------------------------------------------------------------------
(***************************************************************************)
(* Properties                                                              *)
(***************************************************************************)

\* No tool works on caches that are not read yet, or without the extractors
\* the user wrote: its first answer would miss what is on disk
\* (lazy.ts registerLazyTools, sdk.ts initRuntime).
RunsReady ==
    \A c \in Calls : call[c] = "running" =>
        /\ ToolOf[c] \in NeedsCache => cacheReady = "ready"
        /\ ToolOf[c] \in NeedsUser => userReady = "ready"

\* "a failure is retryable on the next call" (sdk.ts:39-40): a call fails only
\* by an import that failed after the call was made.
FailureRetried == \A c \in Calls : call[c] = "failed" => failures > seen[c]

\* Every call is answered: there is always a time to come when none is under way
\* (each of the finitely many is made once).
CallsAnswered == []<>(\A c \in Calls : call[c] \in {"new", "done", "failed"})
=============================================================================
