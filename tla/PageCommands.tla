---------------------------- MODULE PageCommands -----------------------------
(* The commands that a per-tab daemon runs on its page (bin/cdp.mjs): eval    *)
(* and what is built on it, and navigation. The daemon does not wait for one  *)
(* before it starts the next. A script runs in the main context of a document, *)
(* which a listener learns about while the Runtime domain is on; the daemon   *)
(* turns it on for a moment and remembers the context.                        *)
EXTENDS Naturals, FiniteSets

CONSTANTS
    Commands,
    Navigates,      \* those commands that are navigations
    MaxDocs,        \* bound: documents of the page
    None

VARIABLES
    doc,            \* the document that the page shows; its context has its number
    complete,       \* the latest document that finished loading
    runtime,        \* the Runtime domain is on
    mainCtx,        \* _mainCtx: the context remembered, or None
    cmd             \* [phase, seen, ctx, retry, ran, own, load, ok]

vars == <<doc, complete, runtime, mainCtx, cmd>>

Idle == [phase |-> "idle", seen |-> None, ctx |-> None, retry |-> FALSE,
         ran |-> 0, own |-> 0, load |-> FALSE, ok |-> FALSE]

Init ==
    /\ doc = 1 /\ complete = 1
    /\ runtime = FALSE /\ mainCtx = None
    /\ cmd = [c \in Commands |-> Idle]

\* The listener for new contexts is in place.
Listens(c) == cmd[c].phase \in {"enable", "settle"}
Told(d) == [c \in Commands |->
                IF Listens(c) /\ cmd[c].seen = None THEN [cmd[c] EXCEPT !.seen = d] ELSE cmd[c]]

At(c, p) == cmd[c].phase = p
Busy == {c \in Commands : cmd[c].phase \notin {"idle", "done"}}
End(r, good) == [r EXCEPT !.phase = "done", !.ok = good]

\* evalStr(): the remembered context, or a new one.
Lookup(r) ==
    [r EXCEPT !.retry = FALSE, !.seen = None, !.ctx = mainCtx,
              !.phase = IF mainCtx = None THEN "enable" ELSE "evaluate"]

-----------------------------------------------------------------------------
(* The page. *)

NewDocument(told) ==
    /\ doc < MaxDocs /\ doc' = doc + 1
    /\ cmd' = IF runtime THEN told ELSE cmd

\* It goes to another document by itself, or by a click.
Drift ==
    /\ NewDocument(Told(doc + 1))
    /\ UNCHANGED <<complete, runtime, mainCtx>>

\* It finishes loading: the event reaches each command that waits for it.
Loaded ==
    /\ complete < doc /\ complete' = doc
    /\ cmd' = [c \in Commands |-> IF cmd[c].phase \in {"navigate", "load"}
                                  THEN [cmd[c] EXCEPT !.load = TRUE] ELSE cmd[c]]
    /\ UNCHANGED <<doc, runtime, mainCtx>>

-----------------------------------------------------------------------------
(* A command. *)

Begin(c) ==
    /\ At(c, "idle")
    /\ cmd' = [cmd EXCEPT ![c] = IF c \in Navigates THEN [@ EXCEPT !.phase = "navigate"]
                                                    ELSE Lookup(@)]
    /\ UNCHANGED <<doc, complete, runtime, mainCtx>>

\* navStr(): the reply to Page.navigate comes with the new document in place.
Navigate(c) ==
    /\ At(c, "navigate")
    /\ \/ doc < MaxDocs /\ doc' = doc + 1
          /\ LET told == IF runtime THEN Told(doc + 1) ELSE cmd
             IN  cmd' = [told EXCEPT ![c].phase = "load", ![c].own = doc + 1]
       \/ cmd' = [cmd EXCEPT ![c] = End(@, FALSE)] /\ UNCHANGED doc
    /\ UNCHANGED <<complete, runtime, mainCtx>>

\* Mutant: a load event is enough.
Arrive_Event(c) ==
    /\ At(c, "load")
    /\ cmd' = [cmd EXCEPT ![c] = End(@, cmd[c].load)]
    /\ UNCHANGED <<doc, complete, runtime, mainCtx>>

\* The load event has come, perhaps that of the document before: the state of
\* the document is asked for; or the wait is over.
Arrive(c) ==
    /\ At(c, "load")
    /\ cmd' = [cmd EXCEPT ![c] = IF cmd[c].load THEN Lookup(@) ELSE End(@, FALSE)]
    /\ UNCHANGED <<doc, complete, runtime, mainCtx>>

\* captureMainContext(): Runtime.enable. What is on already tells nothing new.
Enable(c) ==
    /\ At(c, "enable")
    /\ runtime' = TRUE
    /\ LET told == IF runtime THEN cmd ELSE Told(doc)
       IN  cmd' = [told EXCEPT ![c].phase = "settle"]
    /\ UNCHANGED <<doc, complete, mainCtx>>

\* What the command does with the context it saw: without one an eval fails, and
\* the wait of a navigation goes on.
Captured(c) ==
    IF cmd[c].seen # None
    THEN /\ mainCtx' = cmd[c].seen
         /\ cmd' = [cmd EXCEPT ![c].phase = "evaluate", ![c].ctx = cmd[c].seen]
    ELSE /\ cmd' = [cmd EXCEPT ![c] = IF c \in Navigates THEN Lookup(@) ELSE End(@, FALSE)]
         /\ UNCHANGED mainCtx

\* Mutant: a context that is known by now spares the rest.
Disable_Known(c) ==
    /\ At(c, "settle")
    /\ runtime' = (runtime /\ mainCtx # None)
    /\ Captured(c)
    /\ UNCHANGED <<doc, complete>>

\* A tenth of a second later it is off again; the first context of the root
\* frame is remembered.
Disable(c) ==
    /\ At(c, "settle")
    /\ runtime' = FALSE
    /\ Captured(c)
    /\ UNCHANGED <<doc, complete>>

\* Whatever went wrong, the context is forgotten and the script tried again.
Failed(c, runs) ==
    /\ mainCtx' = IF cmd[c].retry THEN mainCtx ELSE None
    /\ cmd' = [cmd EXCEPT ![c] =
            IF @.retry
            THEN IF c \in Navigates THEN [Lookup(@) EXCEPT !.ran = runs]
                                    ELSE [End(@, FALSE) EXCEPT !.ran = runs]
            ELSE [@ EXCEPT !.retry = TRUE, !.seen = None, !.phase = "enable", !.ran = runs]]
    /\ UNCHANGED <<doc, complete, runtime>>

\* The context is gone; or the script runs and throws, or loses its document.
Fails(c) ==
    /\ At(c, "evaluate")
    /\ \/ cmd[c].ctx # doc /\ Failed(c, cmd[c].ran)
       \/ cmd[c].ctx = doc /\ c \notin Navigates /\ Failed(c, cmd[c].ran + 1)

\* The script answers; waitForDocumentReady() asks until the page is complete.
Answers(c) ==
    /\ At(c, "evaluate") /\ cmd[c].ctx = doc
    /\ cmd' = [cmd EXCEPT ![c] =
            IF c \notin Navigates THEN [End(@, TRUE) EXCEPT !.ran = cmd[c].ran + 1]
            ELSE IF complete = doc THEN End(@, TRUE)
            ELSE Lookup(@)]
    /\ UNCHANGED <<doc, complete, runtime, mainCtx>>

\* The wait for the document is over.
GivesUp(c) ==
    /\ c \in Navigates /\ At(c, "evaluate")
    /\ cmd' = [cmd EXCEPT ![c] = End(@, FALSE)]
    /\ UNCHANGED <<doc, complete, runtime, mainCtx>>

Next ==
    \/ Drift \/ Loaded
    \/ \E c \in Commands :
          \/ Begin(c) \/ Navigate(c) \/ Arrive(c) \/ Enable(c) \/ Disable(c)
          \/ Fails(c) \/ Answers(c) \/ GivesUp(c)

Spec == Init /\ [][Next]_vars

-----------------------------------------------------------------------------

\* A navigation that succeeded has a document that finished loading, its own or a
\* later one, although the load event that ended its wait may have been that of
\* the document before (navStr(), cdp.mjs).
NavLoaded == \A c \in Navigates : cmd[c].ok => complete >= cmd[c].own

\* Between commands the Runtime domain is off, whichever of several commands
\* turned it on or off first ("always disable Runtime after capturing", cdp.mjs).
RuntimeOff == Busy = {} => ~runtime

\* A script runs once: what failed in it is not run again. It fails.
RunsOnce == \A c \in Commands : cmd[c].ran <= 1

\* A script fails only when it ran, or when its page went away: here there was
\* one page from its start to its end (captureMainContext()). It fails.
FailsInPage ==
    doc = 1 => \A c \in Commands \ Navigates : At(c, "done") /\ ~cmd[c].ok => cmd[c].ran > 0
=============================================================================
