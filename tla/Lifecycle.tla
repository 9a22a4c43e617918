----------------------------- MODULE Lifecycle -----------------------------
(***************************************************************************)
(* bot/bot.py: setup_hook and close.  The parts of the bot are started in  *)
(* one order and stopped in another, one await after the other, while      *)
(* Discord's gateway delivers clicks from the end of the start to the end  *)
(* of the stop.  A start that raises goes straight to close().             *)
(*                                                                         *)
(* A click calls dm20 and records what it did; a click on Ready records    *)
(* the new state and starts the loop of its channel.                       *)
(***************************************************************************)
EXTENDS FiniteSets, Naturals, Sequences

CONSTANTS Channel,
          Click,      \* clicks under way
          Playing     \* channels out of the lobby when the bot starts

VARIABLES mode,      \* "setup", "serving", "closing", "closed"
          step,      \* the next of Setup or Closing
          gateway,   \* whether Discord's events arrive
          running,   \* background tasks
          loop,      \* channels with a party-mode loop
          doomed,    \* channels stop_all has listed and not yet stopped
          queue,     \* the WriterQueue
          client,    \* the HTTP client of MCPClient: "none", "made", "open"
          cogs,      \* the cogs, which register what loops and clicks call
          click,     \* click[k]: where it is, for which channel
          late,      \* history: channels whose loop began after stop_all's list
          reopened,  \* history: the client was opened again after aclose()
          half       \* history: clicks that dm20 acted on and nobody recorded

vars == <<mode, step, gateway, running, loop, doomed, queue, client, cogs, click,
          late, reopened, half>>

-----------------------------------------------------------------------------
Setup == <<"schema", "queue", "client", "health", "views", "watcher", "driver",
           "sweeper", "cogs", "resume", "sync">>
Tasks == {"health", "watcher", "sweeper"}

\* Variant: the stores are closed before their users.
ClosingStoresFirst == <<"queue", "drained", "client", "watcher", "sweeper", "list",
                        "loops", "health", "gateway">>

Closing == <<"watcher", "sweeper", "list", "loops", "health", "queue", "drained",
             "client", "gateway">>

Rest == [at |-> "none", ch |-> CHOOSE ch \in Channel : TRUE]

TypeOK ==
    /\ mode \in {"setup", "serving", "closing", "closed"}
    /\ step \in 1 .. Len(Setup) + 1 /\ running \subseteq Tasks
    /\ loop \subseteq Channel /\ doomed \subseteq Channel /\ late \subseteq Channel
    /\ queue \in {"none", "open", "stopping", "stopped"}
    /\ client \in {"none", "made", "open"}
    /\ gateway \in BOOLEAN /\ cogs \in BOOLEAN /\ reopened \in BOOLEAN
    /\ click \in [Click -> [at : {"none", "calling", "recording", "readying",
                                  "starting", "over"}, ch : Channel]]
    /\ half \subseteq Click

Init ==
    /\ mode = "setup" /\ step = 1 /\ gateway = FALSE
    /\ running = {} /\ loop = {} /\ doomed = {}
    /\ queue = "none" /\ client = "none" /\ cogs = FALSE
    /\ click = [k \in Click |-> Rest] /\ late = {} /\ reopened = FALSE /\ half = {}

Due(part) == mode = "setup" /\ Setup[step] = part
Done == /\ step' = step + 1
        /\ mode' = IF step = Len(Setup) THEN "serving" ELSE mode
        /\ gateway' = (step = Len(Setup))

clickVars == <<click, late, reopened, half>>

-----------------------------------------------------------------------------
(* setup_hook. *)

\* The schema and the command tree keep no task.
StartQuiet ==
    /\ \E part \in {"schema", "sync"} : Due(part)
    /\ Done
    /\ UNCHANGED <<running, loop, doomed, queue, client, cogs, clickVars>>

\* rehydrate_persistent_views only reads the rows; a view that cannot be built or
\* registered is passed over.
StartViews ==
    /\ Due("views") /\ Done
    /\ UNCHANGED <<running, loop, doomed, queue, client, cogs, clickVars>>

\* Repositories and the monster driver are built around the queue and the client.
StartDriver ==
    /\ Due("driver") /\ Done /\ queue = "open" /\ client # "none"
    /\ UNCHANGED <<running, loop, doomed, queue, client, cogs, clickVars>>

StartQueue ==
    /\ Due("queue") /\ Done /\ queue' = "open"
    /\ UNCHANGED <<running, loop, doomed, client, cogs, clickVars>>

StartClient ==
    /\ Due("client") /\ Done /\ client' = "made"
    /\ UNCHANGED <<running, loop, doomed, queue, cogs, clickVars>>

StartTask(t) ==
    /\ Due(t) /\ Done /\ running' = running \cup {t}
    /\ UNCHANGED <<loop, doomed, queue, client, cogs, clickVars>>

StartCogs ==
    /\ Due("cogs") /\ Done /\ cogs' = TRUE
    /\ UNCHANGED <<running, loop, doomed, queue, client, clickVars>>

\* The loops of channels out of the lobby; what fails here is passed over.
Resume ==
    /\ Due("resume") /\ Done
    /\ loop' \in SUBSET Playing
    /\ UNCHANGED <<running, doomed, queue, client, cogs, clickVars>>

\* Any other step that raises, or Ctrl-C, ends in close().
Quit ==
    /\ mode \in {"setup", "serving"} /\ mode' = "closing" /\ step' = 1
    /\ UNCHANGED <<gateway, running, loop, doomed, queue, client, cogs, clickVars>>

-----------------------------------------------------------------------------
(* Clicks, as long as the gateway delivers them. *)

Move(k, there) == click' = [click EXCEPT ![k].at = there]

\* Whether close() has come past one of its steps.
Past(part) == mode \in {"closing", "closed"} /\ \E i \in 1 .. step - 1 : Closing[i] = part

Arrive(k) ==
    /\ gateway /\ click[k] = Rest
    /\ \E where \in {"calling", "readying"}, ch \in Channel :
          click' = [click EXCEPT ![k] = [at |-> where, ch |-> ch]]
    /\ UNCHANGED <<mode, step, gateway, running, loop, doomed, queue, client, cogs,
                   late, reopened, half>>

\* MCPClient opens its HTTP client when it is called, closed before or not.
UseClient ==
    /\ client # "none" /\ client' = "open"
    /\ reopened' = (reopened \/ Past("client"))

Call(k) ==
    /\ gateway /\ click[k].at = "calling" /\ Move(k, "recording") /\ UseClient
    /\ UNCHANGED <<mode, step, gateway, running, loop, doomed, queue, cogs, late, half>>

\* A queue that has been stopped refuses: dm20 has acted and nothing says so.
Record(k) ==
    /\ gateway /\ click[k].at = "recording" /\ Move(k, "over")
    /\ half' = IF queue = "open" THEN half ELSE half \cup {k}
    /\ UNCHANGED <<mode, step, gateway, running, loop, doomed, queue, client, cogs,
                   late, reopened>>

\* ReadyButton: first the row, then the loop.
Ready(k) ==
    /\ gateway /\ click[k].at = "readying"
    /\ Move(k, IF queue = "open" THEN "starting" ELSE "over")
    /\ UNCHANGED <<mode, step, gateway, running, loop, doomed, queue, client, cogs,
                   late, reopened, half>>

\* A loop that is there already is left alone.
StartLoop(k) ==
    /\ gateway /\ click[k].at = "starting" /\ Move(k, "over")
    /\ loop' = loop \cup {click[k].ch}
    /\ late' = IF click[k].ch \notin loop /\ Past("list") THEN late \cup {click[k].ch}
               ELSE late
    /\ UNCHANGED <<mode, step, gateway, running, doomed, queue, client, cogs, reopened,
                   half>>

\* A loop polls dm20, whatever close() has come to.
Poll ==
    /\ mode # "closed" /\ loop # {} /\ UseClient
    /\ UNCHANGED <<mode, step, gateway, running, loop, doomed, queue, cogs, click, late,
                   half>>

-----------------------------------------------------------------------------
(* close(): what was never started is passed over. *)

Stopping(part) == mode = "closing" /\ Closing[step] = part
Stopped == step' = step + 1 /\ UNCHANGED <<mode, gateway>>

StopTask(t) ==
    /\ Stopping(t) /\ Stopped /\ running' = running \ {t}
    /\ UNCHANGED <<loop, doomed, queue, client, cogs, clickVars>>

\* stop_all takes its list of channels once.
ListLoops ==
    /\ Stopping("list") /\ Stopped /\ doomed' = loop
    /\ UNCHANGED <<running, loop, queue, client, cogs, clickVars>>

\* Variant: it stops at the first task that was cancelled.
StopLoopOnce(ch) ==
    /\ Stopping("loops") /\ ch \in doomed
    /\ loop' = loop \ {ch} /\ doomed' = {}
    /\ UNCHANGED <<mode, step, gateway, running, queue, client, cogs, clickVars>>

StopLoop(ch) ==
    /\ Stopping("loops") /\ ch \in doomed
    /\ loop' = loop \ {ch} /\ doomed' = doomed \ {ch}
    /\ UNCHANGED <<mode, step, gateway, running, queue, client, cogs, clickVars>>

LoopsStopped ==
    /\ Stopping("loops") /\ doomed = {} /\ Stopped
    /\ UNCHANGED <<running, loop, doomed, queue, client, cogs, clickVars>>

\* It refuses from here on, and is given five seconds for what it has.
StopQueue ==
    /\ Stopping("queue") /\ Stopped
    /\ queue' = IF queue = "open" THEN "stopping" ELSE queue
    /\ UNCHANGED <<running, loop, doomed, client, cogs, clickVars>>

Drained ==
    /\ Stopping("drained") /\ Stopped
    /\ queue' = IF queue = "stopping" THEN "stopped" ELSE queue
    /\ UNCHANGED <<running, loop, doomed, client, cogs, clickVars>>

CloseClient ==
    /\ Stopping("client") /\ Stopped
    /\ client' = IF client = "open" THEN "made" ELSE client
    /\ UNCHANGED <<running, loop, doomed, queue, cogs, clickVars>>

\* super().close() disconnects, and unloads the cogs.
CloseGateway ==
    /\ Stopping("gateway") /\ mode' = "closed" /\ gateway' = FALSE /\ cogs' = FALSE
    /\ UNCHANGED <<step, running, loop, doomed, queue, client, clickVars>>

Starting == \/ StartQuiet \/ StartViews \/ StartDriver \/ StartQueue \/ StartClient
            \/ StartCogs \/ Resume
            \/ \E t \in Tasks : StartTask(t)
Clicking == \E k \in Click : \/ Arrive(k) \/ Call(k) \/ Record(k) \/ Ready(k)
                             \/ StartLoop(k)
Ending == \/ \E t \in Tasks : StopTask(t)
          \/ ListLoops \/ (\E ch \in Channel : StopLoop(ch)) \/ LoopsStopped
          \/ StopQueue \/ Drained \/ CloseClient \/ CloseGateway

Next == Starting \/ Quit \/ Clicking \/ Poll \/ Ending

Spec == Init /\ [][Next]_vars

-----------------------------------------------------------------------------
(* Properties. *)

\* While a background task runs, what it writes to and calls is there: before it
\* was started, while the bot serves, and until it is stopped.
TasksHaveStores ==
    /\ "sweeper" \in running => queue = "open"
    /\ \A ch \in loop \ late : queue = "open" /\ client # "none" /\ cogs

\* When close() is through, wherever the start had come to, no task is left but
\* loops that a click began when stop_all had made its list, the queue is drained,
\* and the client is closed unless it was used again.
CleanEnd ==
    mode = "closed" => /\ running = {} /\ loop \subseteq late
                       /\ queue \in {"none", "stopped"}
                       /\ client = "open" => reopened
=============================================================================
