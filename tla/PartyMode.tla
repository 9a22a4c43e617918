----------------------------- MODULE PartyMode -----------------------------
(***************************************************************************)
(* gameplay/party_mode.py, PartyModeOrchestrator, over the batches of      *)
(* ExplorationBatch: one task per channel flushes expired batches to dm20, *)
(* pops actions from dm20's queue (one queue for the whole process), lets  *)
(* the cogs render them and resolves them, and watches dm20 for the start  *)
(* and the end of combat, which it records in channel_sessions and         *)
(* announces to the cogs.  The process may be killed and restarted.        *)
(*                                                                         *)
(* One action per stretch of _loop between awaits.                         *)
(***************************************************************************)
EXTENDS ExplorationBatch

CONSTANTS Action,      \* actions dm20 queues for the bot
          CheckEvery,  \* combat_check_every_n_polls
          MaxCombats,  \* bound: times a combat begins
          MaxFaults    \* bound: failed calls, cancellations and restarts

ASSUME PartyModeAssumption ==
    /\ CheckEvery \in Nat \ {0}
    /\ MaxCombats \in Nat
    /\ MaxFaults \in Nat
    /\ "noaction" \notin Action

VARIABLES loop,       \* loop[ch]: where the task is, "off" without one
          outbox,     \* outbox[ch]: the batch in hand
          hand,       \* hand[ch]: the popped action in hand
          poll,       \* poll[ch]: poll_counter modulo CheckEvery
          seen,       \* _last_combat_state[ch]
          cadence,    \* _last_channel_state[ch], which sets the cadence
          state,      \* channel_sessions.state
          combat,     \* dm20: a combat is on
          combats,    \* combats begun so far
          act,        \* act[a]: where dm20's action a is
          rendered,   \* history: the cogs were called for a
          sentBy,     \* history: the loops that sent intent i to dm20
          blind,      \* history: ch's loop first saw another state of combat
                      \* than channel_sessions claims, or could not write it
          faults      \* failed calls, cancellations and restarts so far

taskVars == <<loop, outbox, hand, poll, seen, cadence>>
dm20Vars == <<combat, combats, act>>
histVars == <<rendered, sentBy, blind>>
vars == <<batchVars, taskVars, state, dm20Vars, histVars, faults>>

-----------------------------------------------------------------------------
NoAction == "noaction"

\* Phases of _loop.  The sleep after an empty queue or an error is part of
\* "flushing": nothing happens between them.
Phases == {"off", "flushing", "sending", "popping", "watching", "announcing",
           "rendering", "resolving"}

ActionStates == {"new", "queued", "popped", "resolved", "abandoned"}

TypeOK ==
    /\ BatchTypeOK
    /\ loop \in [Channel -> Phases]
    /\ outbox \in [Channel -> SUBSET Intent]
    /\ hand \in [Channel -> Action \cup {NoAction}]
    /\ poll \in [Channel -> 0 .. CheckEvery - 1]
    /\ seen \in [Channel -> {"unknown", "EXPLORATION", "COMBAT"}]
    /\ cadence \in [Channel -> {"EXPLORATION", "COMBAT"}]
    /\ state \in [Channel -> {"LOBBY", "EXPLORATION", "COMBAT"}]
    /\ combat \in {"EXPLORATION", "COMBAT"}
    /\ combats \in 0 .. MaxCombats
    /\ act \in [Action -> ActionStates]
    /\ rendered \in [Action -> Nat]
    /\ sentBy \in [Intent -> SUBSET Channel]
    /\ blind \in [Channel -> BOOLEAN]
    /\ faults \in 0 .. MaxFaults

Init ==
    /\ BatchInit
    /\ loop = [ch \in Channel |-> "off"]
    /\ outbox = [ch \in Channel |-> {}]
    /\ hand = [ch \in Channel |-> NoAction]
    /\ poll = [ch \in Channel |-> 0]
    /\ seen = [ch \in Channel |-> "unknown"]
    /\ cadence = [ch \in Channel |-> "EXPLORATION"]
    /\ state = [ch \in Channel |-> "LOBBY"]
    /\ combat = "EXPLORATION"
    /\ combats = 0
    /\ act = [a \in Action |-> "new"]
    /\ rendered = [a \in Action |-> 0]
    /\ sentBy = [i \in Intent |-> {}]
    /\ blind = [ch \in Channel |-> FALSE]
    /\ faults = 0

\* A call that raises, or a restart, within the bound.
Fault == faults < MaxFaults /\ faults' = faults + 1

Goto(ch, phase) == loop' = [loop EXCEPT ![ch] = phase]

-----------------------------------------------------------------------------
(* The environment: players and dm20. *)

\* DeclareActionButton opens the modal in EXPLORATION only; a modal that is open may
\* be submitted at any time after, and no channel goes back to its lobby.
FormOpen(ch) == state[ch] # "LOBBY"

Declare(i) ==
    /\ FormOpen(Home[i])
    /\ Submit(i)
    /\ UNCHANGED <<taskVars, state, dm20Vars, histVars, faults>>

DeadlinePasses(ch) ==
    /\ BatchDeadline(ch)
    /\ UNCHANGED <<taskVars, state, dm20Vars, histVars, faults>>

QueueAction(a) ==
    /\ act[a] = "new"
    /\ act' = [act EXCEPT ![a] = "queued"]
    /\ UNCHANGED <<batchVars, taskVars, state, combat, combats, histVars,
                   faults>>

CombatBegins ==
    /\ combat = "EXPLORATION"
    /\ combats < MaxCombats
    /\ combats' = combats + 1
    /\ combat' = "COMBAT"
    /\ UNCHANGED <<batchVars, taskVars, state, act, histVars, faults>>

CombatEnds ==
    /\ combat = "COMBAT"
    /\ combat' = "EXPLORATION"
    /\ UNCHANGED <<batchVars, taskVars, state, combats, act, histVars, faults>>

-----------------------------------------------------------------------------
(* Lifecycle. *)

\* start_orchestrator_for_channel, for a channel whose players are all ready or,
\* after a restart, for one that is in EXPLORATION or COMBAT.
StartLoop(ch) ==
    /\ loop[ch] = "off"
    /\ Goto(ch, "flushing")
    /\ poll' = [poll EXCEPT ![ch] = 0]
    /\ seen' = [seen EXCEPT ![ch] = "unknown"]
    /\ cadence' = [cadence EXCEPT ![ch] = "EXPLORATION"]
    /\ state' = [state EXCEPT ![ch] = IF @ = "LOBBY" THEN "EXPLORATION" ELSE @]
    /\ UNCHANGED <<batchVars, outbox, hand, dm20Vars, histVars, faults>>

\* stop_all cancels the loops and the process ends; or it is killed.
Restart ==
    /\ Fault
    /\ BatchesLost
    /\ loop' = [ch \in Channel |-> "off"]
    /\ outbox' = [ch \in Channel |-> {}]
    /\ hand' = [ch \in Channel |-> NoAction]
    /\ act' = [a \in Action |-> IF \E ch \in Channel : hand[ch] = a
                                THEN "abandoned" ELSE act[a]]
    /\ poll' = [ch \in Channel |-> 0]
    /\ seen' = [ch \in Channel |-> "unknown"]
    /\ cadence' = [ch \in Channel |-> "EXPLORATION"]
    /\ blind' = [ch \in Channel |-> FALSE]
    /\ UNCHANGED <<state, combat, combats, rendered, sentBy>>

-----------------------------------------------------------------------------
(* _flush_expired_batches. *)

\* Variant: whatever has expired is sent, in this channel's session.
FlushAll(ch) ==
    /\ loop[ch] = "flushing"
    /\ PopExpired
    /\ LET S == UNION {batch[c] : c \in Expired} IN
         /\ fate' = Moved(S, "hand")
         /\ IF S # {} THEN /\ Goto(ch, "sending")
                           /\ outbox' = [outbox EXCEPT ![ch] = S]
                      ELSE Goto(ch, "popping") /\ UNCHANGED outbox
    /\ UNCHANGED <<hand, poll, seen, cadence, state, dm20Vars, histVars,
                   faults>>

\* Variant: batches are flushed outside combat only.
FlushInExploration(ch) ==
    /\ loop[ch] = "flushing"
    /\ IF ch \in Expired /\ state[ch] = "EXPLORATION"
       THEN /\ Goto(ch, "sending")
            /\ PopExpired
            /\ fate' = Moved(batch[ch], "hand")
            /\ outbox' = [outbox EXCEPT ![ch] = batch[ch]]
       ELSE Goto(ch, "popping") /\ UNCHANGED <<batchVars, outbox>>
    /\ UNCHANGED <<hand, poll, seen, cadence, state, dm20Vars, histVars,
                   faults>>

\* tick() pops every expired batch; this loop keeps its own channel's and skips
\* the others.
Flush(ch) ==
    /\ loop[ch] = "flushing"
    /\ PopExpired
    /\ fate' = [i \in Intent |->
          CASE ch \in Expired /\ i \in batch[ch] -> "hand"
            [] \E c \in Expired \ {ch} : i \in batch[c] -> "skipped"
            [] OTHER -> fate[i]]
    /\ IF ch \in Expired
       THEN /\ Goto(ch, "sending")
            /\ outbox' = [outbox EXCEPT ![ch] = batch[ch]]
       ELSE Goto(ch, "popping") /\ UNCHANGED outbox
    /\ UNCHANGED <<hand, poll, seen, cadence, state, dm20Vars, histVars,
                   faults>>

\* player_action with this channel's session, under the rate limiter.  Its
\* failure, which dm20 may have carried out, is logged and the batch forgotten.
Send(ch) ==
    /\ loop[ch] = "sending"
    /\ \/ /\ fate' = Moved(outbox[ch], "sent")
          /\ sentBy' = [i \in Intent |-> IF i \in outbox[ch]
                                         THEN sentBy[i] \cup {ch} ELSE sentBy[i]]
          /\ UNCHANGED faults
       \/ /\ Fault
          /\ fate' = Moved(outbox[ch], "failed")
          /\ UNCHANGED sentBy
    /\ outbox' = [outbox EXCEPT ![ch] = {}]
    /\ Goto(ch, "popping")
    /\ UNCHANGED <<batch, due, hand, poll, seen, cadence, state, dm20Vars,
                   rendered, blind>>

-----------------------------------------------------------------------------
(* party_pop_action and the combat watcher. *)

\* What follows the watcher.
Handle(a) == IF a = NoAction THEN "flushing" ELSE "rendering"

\* An action or nothing is popped and the poll is counted; every CheckEvery-th
\* poll, and in combat every poll, the watcher runs before the action is
\* handled.
Pop(ch) ==
    /\ loop[ch] = "popping"
    /\ \/ \E a \in Action : /\ act[a] = "queued"
                            /\ act' = [act EXCEPT ![a] = "popped"]
                            /\ hand' = [hand EXCEPT ![ch] = a]
       \/ /\ \A a \in Action : act[a] # "queued"
          /\ UNCHANGED <<act, hand>>
    /\ LET n == (poll[ch] + 1) % CheckEvery IN
         /\ poll' = [poll EXCEPT ![ch] = n]
         /\ Goto(ch, IF cadence[ch] = "COMBAT" \/ n = 0 THEN "watching"
                     ELSE Handle(hand'[ch]))
    /\ UNCHANGED <<batchVars, outbox, seen, cadence, state, combat, combats,
                   histVars, faults>>

\* The pop raised: sleep, without counting; dm20 may have popped the action.
PopFails(ch) ==
    /\ loop[ch] = "popping"
    /\ Fault
    /\ \/ UNCHANGED act
       \/ \E a \in Action : /\ act[a] = "queued"
                            /\ act' = [act EXCEPT ![a] = "abandoned"]
    /\ Goto(ch, "flushing")
    /\ UNCHANGED <<batchVars, outbox, hand, poll, seen, cadence, state, combat,
                   combats, histVars>>

\* get_game_state.  The first answer is remembered and not acted upon; a later
\* one that differs is a transition.
Watch(ch) ==
    /\ loop[ch] = "watching"
    /\ seen' = [seen EXCEPT ![ch] = combat]
    /\ \/ /\ seen[ch] = "unknown"
          /\ Goto(ch, Handle(hand[ch]))
          /\ blind' = [blind EXCEPT ![ch] = state[ch] # combat]
          /\ UNCHANGED cadence
       \/ /\ seen[ch] = combat
          /\ Goto(ch, Handle(hand[ch]))
          /\ UNCHANGED <<cadence, blind>>
       \/ /\ seen[ch] \notin {"unknown", combat}
          /\ cadence' = [cadence EXCEPT ![ch] = combat]
          /\ Goto(ch, "announcing")
          /\ UNCHANGED blind
    /\ UNCHANGED <<batchVars, outbox, hand, poll, state, dm20Vars, rendered,
                   sentBy, faults>>

\* get_game_state raised: no news.
WatchFails(ch) ==
    /\ loop[ch] = "watching"
    /\ Fault
    /\ Goto(ch, Handle(hand[ch]))
    /\ UNCHANGED <<batchVars, outbox, hand, poll, seen, cadence, state,
                   dm20Vars, histVars>>

\* Variant: only the cogs are told.
AnnounceOnly(ch) ==
    /\ loop[ch] = "announcing"
    /\ Goto(ch, Handle(hand[ch]))
    /\ UNCHANGED <<batchVars, outbox, hand, poll, seen, cadence, state,
                   dm20Vars, histVars, faults>>

\* set_state, whose failure is swallowed, then the cogs' state-change callbacks.
Announce(ch) ==
    /\ loop[ch] = "announcing"
    /\ \/ /\ state' = [state EXCEPT ![ch] = seen[ch]]
          /\ blind' = [blind EXCEPT ![ch] = FALSE]
          /\ UNCHANGED faults
       \/ /\ Fault
          /\ blind' = [blind EXCEPT ![ch] = TRUE]
          /\ UNCHANGED state
    /\ Goto(ch, Handle(hand[ch]))
    /\ UNCHANGED <<batchVars, outbox, hand, poll, seen, cadence, dm20Vars,
                   rendered, sentBy>>

-----------------------------------------------------------------------------
(* The popped action. *)

\* Variant: an exception of a cog ends the handling of the action.
RenderOrForget(ch) ==
    /\ loop[ch] = "rendering"
    /\ \/ /\ rendered' = [rendered EXCEPT ![hand[ch]] = @ + 1]
          /\ Goto(ch, "resolving")
          /\ UNCHANGED <<hand, faults>>
       \/ /\ Fault
          /\ hand' = [hand EXCEPT ![ch] = NoAction]
          /\ Goto(ch, "flushing")
          /\ UNCHANGED rendered
    /\ UNCHANGED <<batchVars, outbox, poll, seen, cadence, state, dm20Vars,
                   sentBy, blind>>

\* party_thinking, party_get_prefetch and the resolution callbacks of the cogs,
\* each in turn; failures are swallowed.
Render(ch) ==
    /\ loop[ch] = "rendering"
    /\ rendered' = [rendered EXCEPT ![hand[ch]] = @ + 1]
    /\ Goto(ch, "resolving")
    /\ UNCHANGED <<batchVars, outbox, hand, poll, seen, cadence, state,
                   dm20Vars, sentBy, blind, faults>>

\* party_resolve_action, then the next poll; its failure is logged and the
\* action forgotten.
Resolve(ch) ==
    /\ loop[ch] = "resolving"
    /\ \/ /\ act' = [act EXCEPT ![hand[ch]] = "resolved"]
          /\ UNCHANGED faults
       \/ /\ Fault
          /\ act' = [act EXCEPT ![hand[ch]] = "abandoned"]
    /\ hand' = [hand EXCEPT ![ch] = NoAction]
    /\ Goto(ch, "flushing")
    /\ UNCHANGED <<batchVars, outbox, poll, seen, cadence, state, combat,
                   combats, histVars>>

-----------------------------------------------------------------------------
LoopStep(ch) ==
    \/ Flush(ch) \/ Send(ch)
    \/ Pop(ch) \/ PopFails(ch)
    \/ Watch(ch) \/ WatchFails(ch) \/ Announce(ch)
    \/ Render(ch) \/ Resolve(ch)

Next ==
    \/ \E i \in Intent : Declare(i)
    \/ \E a \in Action : QueueAction(a)
    \/ CombatBegins \/ CombatEnds
    \/ \E ch \in Channel : DeadlinePasses(ch) \/ StartLoop(ch) \/ LoopStep(ch)
    \/ Restart

\* Time passes and the event loop runs every ready task.  Nobody need declare,
\* start, fight or restart.
Spec == /\ Init /\ [][Next]_vars
        /\ \A ch \in Channel : WF_vars(DeadlinePasses(ch)) /\ WF_vars(LoopStep(ch))

-----------------------------------------------------------------------------
(* Properties. *)

\* A batch, open or in hand, speaks with one voice for each player, and what is
\* open is open once: nothing that is on its way to dm20, was sent there or was
\* given up is still in a batch.
OneVoice ==
    \A ch \in Channel :
       /\ \A i \in batch[ch] : fate[i] = "open" /\ Home[i] = ch
       /\ \A i \in outbox[ch] : fate[i] = "hand"
       /\ \A S \in {batch[ch], outbox[ch]} :
             \A i, j \in S : Author[i] = Author[j] => i = j

\* An intent goes to dm20 in the session of its own channel and of no other.
OwnSession == \A i \in Intent : sentBy[i] \subseteq {Home[i]}

\* What dm20 gets from a channel is one batch of one voice per player, in the
\* channel's session.
BatchFaithful == OneVoice /\ OwnSession

\* A popped action is in exactly one loop's hand until it is resolved or given
\* up, and an action that was resolved was shown to the table once.
ActionInOneHand ==
    \A a \in Action :
       /\ act[a] = "popped" <=> \E ch \in Channel : hand[ch] = a
       /\ \A c, d \in Channel : hand[c] = a /\ hand[d] = a => c = d
       /\ act[a] = "resolved" => rendered[a] = 1

\* channel_sessions says what the loop last learnt from dm20, unless the loop is
\* about to write it, could not, or started in the dark.
StateExplained ==
    \A ch \in Channel :
       loop[ch] # "off" /\ seen[ch] # "unknown" /\ state[ch] # seen[ch]
          => loop[ch] = "announcing" \/ blind[ch]

\* Every open batch is flushed, in exploration and in combat.
BatchFlushed ==
    \A ch \in Channel : []<>(batch[ch] = {} \/ loop[ch] = "off")

\* A combat that goes on, once the loop has seen the table explore, is noticed.
CombatNoticed ==
    \A ch \in Channel :
       seen[ch] = "EXPLORATION" /\ combat = "COMBAT" /\ loop[ch] # "off"
          ~> seen[ch] = "COMBAT" \/ combat # "COMBAT" \/ loop[ch] = "off"

\* The caller of submit() "must send the payload to dm20", and another channel's
\* batch in a loop "should not happen": an intent is sent unless its author
\* replaced it or something failed.
NoIntentLost == \A i \in Intent : fate[i] \notin {"discarded", "skipped"}
=============================================================================
