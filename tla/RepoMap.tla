------------------------------- MODULE RepoMap -------------------------------
(* The map of a GitHub repository and the fetch of its page (github-map.ts,   *)
(* github-pipeline.ts): the tree as the API tells it, else a clone that is    *)
(* walked, else what the API still tells; and what is said of the count.      *)
EXTENDS Naturals, FiniteSets

CONSTANTS
    Calls, Kind,    \* calls by processes of one host, "map" or "fetch"
    Entries,        \* entries of the repository that are not excluded
    MaxFiles,       \* bound of a walk
    None

Kinds == {Kind[c] : c \in Calls}    \* each kind has a directory for the clone

VARIABLES
    at,     \* call -> where it stands
    tree,   \* call -> what the API said of the tree: "whole", "truncated", "failed"
    dir,    \* kind -> clone on disk: "empty", "filling", "part" or "whole"
    seen,   \* call -> entries it has
    scope,  \* call -> "recursive" or "root"
    bound,  \* call -> why the count is a floor
    via     \* call -> source of the answer

vars == <<at, tree, dir, seen, scope, bound, via>>
answer == <<seen, scope, bound, via>>

Init ==
    /\ at = [c \in Calls |-> "idle"] /\ tree = [c \in Calls |-> None]
    /\ dir = [k \in Kinds |-> "empty"] /\ seen = [c \in Calls |-> 0]
    /\ scope = [c \in Calls |-> "recursive"] /\ bound = [c \in Calls |-> None]
    /\ via = [c \in Calls |-> None]

Answer(c, n, s, b, v) ==
    /\ at' = [at EXCEPT ![c] = "answered"]
    /\ seen' = [seen EXCEPT ![c] = n] /\ scope' = [scope EXCEPT ![c] = s]
    /\ bound' = [bound EXCEPT ![c] = b] /\ via' = [via EXCEPT ![c] = v]

\* mapGitHubRepoFull(): the API tells the whole tree, or cuts it, or fails;
\* fetchGitHubRepo() clones at once.
Ask(c) ==
    /\ at[c] = "idle"
    /\ \/ /\ Kind[c] = "map" /\ tree' = [tree EXCEPT ![c] = "whole"]
          /\ Answer(c, Entries, "recursive", None, "tree")
       \/ /\ tree' = [tree EXCEPT ![c] = IF Kind[c] = "fetch" THEN None ELSE "truncated"]
          /\ at' = [at EXCEPT ![c] = "clone"] /\ UNCHANGED answer
       \/ /\ Kind[c] = "map" /\ tree' = [tree EXCEPT ![c] = "failed"]
          /\ at' = [at EXCEPT ![c] = "clone"] /\ UNCHANGED answer
    /\ UNCHANGED dir

\* cloneRepo(): git fills the directory.
Clone(c) ==
    /\ at[c] = "clone" /\ dir[Kind[c]] = "empty"
    /\ at' = [at EXCEPT ![c] = "cloning"] /\ dir' = [dir EXCEPT ![Kind[c]] = "filling"]
    /\ UNCHANGED <<tree, answer>>

\* Mutant: what is there is taken for the clone.
Refused_Reused == "cloned"

\* git refuses a directory that is not empty, one it filled before included.
Refused == "refused"

CloneRefused(c) ==
    /\ at[c] = "clone" /\ dir[Kind[c]] # "empty"
    /\ at' = [at EXCEPT ![c] = Refused]
    /\ UNCHANGED <<tree, dir, answer>>

CloneEnds(c) ==
    /\ at[c] = "cloning"
    /\ \/ /\ at' = [at EXCEPT ![c] = "cloned"] /\ dir' = [dir EXCEPT ![Kind[c]] = "whole"]
       \/ /\ at' = [at EXCEPT ![c] = "refused"] /\ dir' = [dir EXCEPT ![Kind[c]] = "empty"]
    /\ UNCHANGED <<tree, answer>>

\* The process of a call ends in the middle of a clone.
Killed(c) ==
    /\ at[c] = "cloning" /\ at' = [at EXCEPT ![c] = "dead"]
    /\ dir' = [dir EXCEPT ![Kind[c]] = "part"]
    /\ UNCHANGED <<tree, answer>>

\* Mutant: the bound is stated when the walk is full.
WalkBound_Full(n, failed) ==
    IF failed THEN "read-error" ELSE IF n >= MaxFiles THEN "walk-cap" ELSE None

\* boundFromWalk(): a directory that could not be read, an entry that was refused.
WalkBound(n, failed) ==
    IF failed THEN "read-error" ELSE IF n > MaxFiles THEN "walk-cap" ELSE None

\* walkRepo(): n entries are within reach, all of them unless a directory
\* cannot be read; of a clone that is not whole there are fewer on disk.
Walk(c) ==
    /\ at[c] = "cloned" /\ Kind[c] = "map"
    /\ \E n \in 0 .. Entries, failed \in BOOLEAN :
          /\ ~failed => IF dir[Kind[c]] = "whole" THEN n = Entries ELSE n < Entries
          /\ Answer(c, IF n < MaxFiles THEN n ELSE MaxFiles, "recursive",
                    WalkBound(n, failed), "clone")
    /\ UNCHANGED <<tree, dir>>

\* buildRepoMarkdown()
Show(c) ==
    /\ at[c] = "cloned" /\ Kind[c] = "fetch" /\ Answer(c, Entries, "recursive", None, "clone")
    /\ UNCHANGED <<tree, dir>>

\* Without a clone: nothing where the tree was cut, else the root directory.
WithoutClone(c) ==
    /\ at[c] = "refused" /\ Kind[c] = "map"
    /\ IF tree[c] = "truncated" THEN Answer(c, 0, "recursive", "api-truncated", "tree")
       ELSE \E n \in 0 .. Entries : Answer(c, n, "root", None, "contents")
    /\ UNCHANGED <<tree, dir>>

\* fetchGitHubRepo() without a clone: what the API says of the repository.
FromApi(c) ==
    /\ at[c] = "refused" /\ Kind[c] = "fetch"
    /\ \E v \in {"api", "error"} : Answer(c, 0, "root", None, v)
    /\ UNCHANGED <<tree, dir>>

Done == (\A c \in Calls : at[c] \in {"answered", "dead"}) /\ UNCHANGED vars

Next ==
    \/ Done
    \/ \E c \in Calls :
          \/ Ask(c) \/ Clone(c) \/ CloneRefused(c) \/ CloneEnds(c) \/ Killed(c)
          \/ Walk(c) \/ Show(c) \/ WithoutClone(c) \/ FromApi(c)

Spec == Init /\ [][Next]_vars

-----------------------------------------------------------------------------
\* What is said of the number of entries is true whichever source answered,
\* whatever other calls do with the same clone and whenever one of them was
\* killed: a number without a reservation is that of the repository, and a
\* walk that is said to have stopped at its limit has left something out.
CountsHonest ==
    \A c \in Calls : at[c] = "answered" /\ Kind[c] = "map" =>
        /\ seen[c] <= Entries
        /\ scope[c] = "recursive" /\ bound[c] = None => seen[c] = Entries
        /\ bound[c] = "walk-cap" => seen[c] < Entries

\* The page of a repository whose clone is on disk is made of the clone. It fails:
\* git refuses the directory, and the page is made of what the API says.
RepoFromClone ==
    [][\A c \in Calls : Kind[c] = "fetch" /\ dir["fetch"] = "whole"
           /\ at[c] # "answered" /\ at'[c] = "answered" => via'[c] = "clone"]_vars
=============================================================================
