----------------------------- MODULE Coalescer -----------------------------
(***************************************************************************)
(* bot/coalescer.py: the EmbedCoalescers of the messages of one channel,   *)
(* each with a render task and a slot for the latest payload, and the      *)
(* ChannelEditBudget they share.  Payloads are numbered per message.  Time *)
(* is kept as ages, which Tick advances.                                   *)
(*                                                                         *)
(* One action per stretch of _render_loop between awaits.                  *)
(***************************************************************************)
EXTENDS Naturals, Sequences, SequencesExt

CONSTANTS Message,     \* messages of the channel, one coalescer each
          RateLimit,   \* rate_limit_seconds, in ticks
          Limit,       \* _CHANNEL_EDIT_LIMIT
          Window,      \* _CHANNEL_WINDOW_SECONDS, in ticks
          MaxUpdates,  \* bound: updates per message
          MaxErrors    \* bound: edits that fail; all but Message are numbers

VARIABLES task,       \* where the render task is, "off": none or done
          pending,    \* _pending, 0: None
          hand,       \* the payload being sent, 0: none
          dirty,      \* the event _dirty
          abandoned,  \* _abandoned
          age,        \* time since _last_edit_t, RateLimit or more counted alike
          budget,     \* ages of the edits in _edit_times
          line,       \* messages waiting for the budget's lock; the head has it
          latest,     \* history: last update given
          shown,      \* Discord: the update the message displays
          sealed,     \* history: last update given before close()
          lost,       \* history: last update an error took away
          errors      \* edits that failed

channelVars == <<budget, line>>
vars == <<task, pending, hand, dirty, abandoned, age, channelVars, latest,
          shown, sealed, lost, errors>>

-----------------------------------------------------------------------------
Phases == {"off", "waiting", "sleeping", "asking", "editing"}

TypeOK ==
    /\ task \in [Message -> Phases]
    /\ pending \in [Message -> Nat]
    /\ hand \in [Message -> Nat]
    /\ dirty \in [Message -> BOOLEAN]
    /\ abandoned \in [Message -> BOOLEAN]
    /\ age \in [Message -> 0 .. RateLimit]
    /\ budget \in Seq(0 .. Window - 1) /\ Len(budget) <= Limit
    /\ line \in Seq(Message)
    /\ latest \in [Message -> Nat]
    /\ shown \in [Message -> Nat]
    /\ sealed \in [Message -> Nat]
    /\ lost \in [Message -> Nat]
    /\ errors \in 0 .. MaxErrors

Init ==
    /\ task = [m \in Message |-> "off"]
    /\ pending = [m \in Message |-> 0]
    /\ hand = [m \in Message |-> 0]
    /\ dirty = [m \in Message |-> FALSE]
    /\ abandoned = [m \in Message |-> FALSE]
    /\ age = [m \in Message |-> RateLimit]
    /\ budget = <<>>
    /\ line = <<>>
    /\ latest = [m \in Message |-> 0]
    /\ shown = [m \in Message |-> 0]
    /\ sealed = [m \in Message |-> 0]
    /\ lost = [m \in Message |-> 0]
    /\ errors = 0

Set(f, m, x) == [f EXCEPT ![m] = x]

-----------------------------------------------------------------------------
\* update(): the payload replaces a pending one, the event is set, and a task is
\* started unless one runs.
Update(m) ==
    /\ ~abandoned[m]
    /\ latest[m] < MaxUpdates
    /\ latest' = Set(latest, m, latest[m] + 1)
    /\ pending' = Set(pending, m, latest[m] + 1)
    /\ dirty' = Set(dirty, m, TRUE)
    /\ task' = Set(task, m, IF task[m] = "off" THEN "waiting" ELSE task[m])
    /\ UNCHANGED <<hand, abandoned, age, channelVars, shown, sealed, lost, errors>>

\* The event is set: it is cleared, and the task sleeps until RateLimit after the
\* last edit.  Without a payload it waits again.
Wake(m) ==
    /\ task[m] = "waiting"
    /\ dirty[m]
    /\ dirty' = Set(dirty, m, FALSE)
    /\ task' = Set(task, m, IF pending[m] = 0 THEN "waiting" ELSE "sleeping")
    /\ UNCHANGED <<pending, hand, abandoned, age, channelVars, latest, shown,
                   sealed, lost, errors>>

\* The slot is read again after the sleep and emptied before anything is awaited.
Take(m) ==
    /\ task[m] = "sleeping"
    /\ age[m] = RateLimit
    /\ hand' = Set(hand, m, pending[m])
    /\ pending' = Set(pending, m, 0)
    /\ line' = Append(line, m)
    /\ task' = Set(task, m, "asking")
    /\ UNCHANGED <<dirty, abandoned, age, budget, latest, shown, sealed, lost,
                   errors>>

\* Variant: the window is looked at before the wait only.
AcquireAnyway(m) ==
    /\ task[m] = "asking"
    /\ line # <<>> /\ Head(line) = m
    /\ budget' = Append(budget, 0)
    /\ line' = Tail(line)
    /\ task' = Set(task, m, "editing")
    /\ UNCHANGED <<pending, hand, dirty, abandoned, age, latest, shown, sealed,
                   lost, errors>>

\* ChannelEditBudget.acquire: first come, first served; the head of the line
\* sleeps with the lock in its hands until an edit has left the window.
Acquire(m) ==
    /\ task[m] = "asking"
    /\ line # <<>> /\ Head(line) = m
    /\ Len(budget) < Limit
    /\ budget' = Append(budget, 0)
    /\ line' = Tail(line)
    /\ task' = Set(task, m, "editing")
    /\ UNCHANGED <<pending, hand, dirty, abandoned, age, latest, shown, sealed,
                   lost, errors>>

\* Variant: the event is cleared after the edit.
EditedThenClear(m) ==
    /\ task[m] = "editing"
    /\ shown' = Set(shown, m, hand[m])
    /\ hand' = Set(hand, m, 0)
    /\ age' = Set(age, m, 0)
    /\ dirty' = Set(dirty, m, FALSE)
    /\ task' = Set(task, m, "waiting")
    /\ UNCHANGED <<pending, abandoned, channelVars, latest, sealed, lost, errors>>

Edited(m) ==
    /\ task[m] = "editing"
    /\ shown' = Set(shown, m, hand[m])
    /\ hand' = Set(hand, m, 0)
    /\ age' = Set(age, m, 0)
    /\ task' = Set(task, m, "waiting")
    /\ UNCHANGED <<pending, dirty, abandoned, channelVars, latest, sealed, lost,
                   errors>>

\* Discord's answer is an error, whether the edit was made or not.
EditError(m) ==
    /\ task[m] = "editing"
    /\ errors < MaxErrors
    /\ errors' = errors + 1
    /\ hand' = Set(hand, m, 0)
    /\ shown' \in {shown, Set(shown, m, hand[m])}
    /\ UNCHANGED <<pending, dirty, age, channelVars, latest, sealed>>

\* HTTPException: "transient", and the loop goes on; the payload is not kept.
EditFails(m) ==
    /\ EditError(m)
    /\ lost' = Set(lost, m, hand[m])
    /\ task' = Set(task, m, "waiting")
    /\ UNCHANGED abandoned

\* NotFound, Forbidden: the message is given up.
EditRefused(m) ==
    /\ EditError(m)
    /\ abandoned' = Set(abandoned, m, TRUE)
    /\ task' = Set(task, m, "off")
    /\ UNCHANGED lost

\* Any other exception ends the task; what is pending then waits for an update.
EditRaises(m) ==
    /\ EditError(m)
    /\ lost' = Set(lost, m, latest[m])
    /\ task' = Set(task, m, "off")
    /\ UNCHANGED abandoned

\* Variant: the task is left to finish what it does.
CloseWithoutCancel(m) ==
    /\ task[m] # "off"
    /\ sealed' = Set(sealed, m, latest[m])
    /\ UNCHANGED <<task, pending, hand, dirty, abandoned, age, channelVars,
                   latest, shown, lost, errors>>

\* close() cancels the task wherever it waits; the request of an edit may be on
\* its way.  The slot keeps what it has.
Close(m) ==
    /\ task[m] # "off"
    /\ sealed' = Set(sealed, m, latest[m])
    /\ task' = Set(task, m, "off")
    /\ hand' = Set(hand, m, 0)
    /\ line' = RemoveFirst(line, m)
    /\ \/ UNCHANGED shown
       \/ task[m] = "editing" /\ shown' = Set(shown, m, hand[m])
    /\ UNCHANGED <<pending, dirty, abandoned, age, budget, latest, lost, errors>>

\* Time passes; _evict_stale: edits leave the window from the left, the oldest first,
\* until one is still in it.
Tick ==
    /\ age' = [m \in Message |-> IF age[m] < RateLimit THEN age[m] + 1 ELSE age[m]]
    /\ LET Older == [i \in DOMAIN budget |-> budget[i] + 1] IN
         \E n \in 0 .. Len(budget) :
            /\ \A i \in 1 .. n : Older[i] >= Window
            /\ n < Len(budget) => Older[n + 1] < Window
            /\ budget' = SubSeq(Older, n + 1, Len(budget))
    /\ <<age, budget>>' # <<age, budget>>
    /\ UNCHANGED <<task, pending, hand, dirty, abandoned, line, latest, shown,
                   sealed, lost, errors>>

-----------------------------------------------------------------------------
EditEnds(m) == Edited(m) \/ EditFails(m) \/ EditRefused(m) \/ EditRaises(m)

\* What _render_loop does on its own.
RenderStep(m) == Wake(m) \/ Take(m) \/ Acquire(m) \/ EditEnds(m)

Next ==
    \/ \E m \in Message : Update(m) \/ Close(m) \/ RenderStep(m)
    \/ Tick

\* Time passes, the event loop runs ready tasks and Discord answers.
Fairness == WF_vars(Tick) /\ \A m \in Message : WF_vars(RenderStep(m))

Spec == Init /\ [][Next]_vars /\ Fairness

-----------------------------------------------------------------------------
(* Properties. *)

\* The last update is on the screen, or on its way, or an error, close() or the
\* end of the message took it: no wake-up is missed while the task sleeps, waits
\* for the budget or edits.
NothingForgotten ==
    \A m \in Message :
       \/ latest[m] \in {shown[m], hand[m], sealed[m], lost[m]}
       \/ abandoned[m]
       \/ /\ pending[m] = latest[m]
          /\ task[m] # "off"
          /\ task[m] = "waiting" => dirty[m]

SC == INSTANCE Screen

\* What the cogs rely on (Screen): never back, and nothing old after close().
ImplementsScreen == SC!Spec

\* What a running coalescer was given is taken up, whatever the budget and the
\* other message do.
UpdatesTakenUp ==
    \A m \in Message : []<>(pending[m] = 0 \/ task[m] = "off")
=============================================================================
