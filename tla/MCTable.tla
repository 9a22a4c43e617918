------------------------------ MODULE MCTable ------------------------------
(***************************************************************************)
(* PartyMode and, beside it, the parts that serve a table during play: the *)
(* combat screens and buttons, the coalescers of a channel, the monsters'  *)
(* choice of a target, and the bot's own start and end, before it connects *)
(* and while it does.  The parts share no state here; each behaviour is    *)
(* one part's (part says which), while the others stay as they began.      *)
(***************************************************************************)
EXTENDS MCPartyMode, Sequences

CONSTANTS fighter, goblin, k1, k2,
          Order, Owner, Known, Click, MaxTurn, MaxFights, MaxGiven, MaxCombatFaults,
          Message, RateLimit, Limit, Window, MaxUpdates, MaxErrors,
          Key, Wits, Ghost, Slot, CacheMax, MaxDecisions,
          Proc, MaxStarts, MaxBootFaults

\* What each part takes for granted of its constants: somebody plays, and sizes,
\* times and bounds are numbers.
CombatConstants ==
    /\ Len(Order) \in Nat \ {0}
    /\ MaxFights \in Nat /\ MaxCombatFaults \in Nat
EditConstants ==
    /\ RateLimit \in Nat /\ Limit \in Nat /\ Window \in Nat \ {0}
    /\ MaxErrors \in Nat
ChoiceConstants == Key # {} /\ MaxDecisions \in Nat
BootConstants == MaxStarts \in Nat /\ MaxBootFaults \in Nat

ASSUME TableAssumption ==
    /\ User # {} /\ Channel # {} /\ CacheMax \in Nat /\ MaxTurn \in Nat
    /\ CombatConstants /\ EditConstants /\ ChoiceConstants /\ BootConstants

Initiative == <<fighter, goblin>>
Players == fighter :> u1 @@ goblin :> "nobody"
Minds == k1 :> "middle" @@ k2 :> "high"

VARIABLES part,
          turn, fighting, fights, screens, session, watch, coal, message, posted,
          given, bare, latest, shown, sealed, click, cond, stalled, blank,
          combatFaults,
          task, pending, sending, dirty, abandoned, age, budget, line, newest,
          displayed, closed, lost, errors,
          coin, cache, ask, spans, truth, target,
          mode, step, gateway, running, loops, doomed, queue, client, cogs, press,
          late, reopened, half,
          tables, column, omlx, dm20, job, code, passed, starts, bootFaults

partyVars == <<batch, due, fate, loop, outbox, hand, poll, seen, cadence, state,
               combat, combats, act, rendered, sentBy, blind, faults>>
combatVars == <<turn, fighting, fights, screens, session, watch, coal, message,
                posted, given, bare, latest, shown, sealed, click, cond, stalled,
                blank, combatFaults>>
editVars == <<task, pending, sending, dirty, abandoned, age, budget, line, newest,
              displayed, closed, lost, errors>>
choiceVars == <<coin, cache, ask, spans, truth, target>>
lifeVars == <<mode, step, gateway, running, loops, doomed, queue, client, cogs,
              press, late, reopened, half>>
bootVars == <<tables, column, omlx, dm20, job, code, passed, starts, bootFaults>>
tableVars == <<part, partyVars, combatVars, editVars, choiceVars, lifeVars, bootVars>>

CT == INSTANCE CombatTurn
         WITH entries <- screens, loop <- watch, faults <- combatFaults,
              MaxFaults <- MaxCombatFaults

CO == INSTANCE Coalescer
         WITH hand <- sending, latest <- newest, shown <- displayed,
              sealed <- closed

SD == INSTANCE SmartDriver
         WITH PC <- User, last <- target

LC == INSTANCE Lifecycle
         WITH Click <- User, Playing <- Channel, loop <- loops, click <- press

BT == INSTANCE Boot
         WITH seen <- passed, faults <- bootFaults, MaxFaults <- MaxBootFaults

TableInit ==
    /\ part \in {"party", "combat", "edits", "choice", "life", "boot"}
    /\ Init /\ CT!Init /\ CO!Init /\ SD!Init /\ LC!Init /\ BT!Init
    /\ part = "boot" \/ (tables = {} /\ omlx /\ dm20)
    /\ part = "choice" \/ \A k \in Key : coin[k]

\* What part does the others do not see.
Only(p, others) == part = p /\ UNCHANGED <<part, others>>

Playing == /\ Only("party", <<combatVars, editVars, choiceVars, lifeVars, bootVars>>)
           /\ Next
Fighting == /\ Only("combat", <<partyVars, editVars, choiceVars, lifeVars, bootVars>>)
            /\ CT!Next
Editing == /\ Only("edits", <<partyVars, combatVars, choiceVars, lifeVars, bootVars>>)
           /\ CO!Next
Choosing == /\ Only("choice", <<partyVars, combatVars, editVars, lifeVars, bootVars>>)
            /\ SD!Next
Living == /\ Only("life", <<partyVars, combatVars, editVars, choiceVars, bootVars>>)
          /\ LC!Next
Booting == /\ Only("boot", <<partyVars, combatVars, editVars, choiceVars, lifeVars>>)
           /\ BT!Next

\* The fairness of PartyMode and Coalescer asks nothing of the other parts: they
\* start without a batch, a loop, an update and an edit.
TableSpec ==
    /\ TableInit
    /\ [][Playing \/ Fighting \/ Editing \/ Choosing \/ Living \/ Booting]_tableVars
    /\ \A ch \in Channel : WF_vars(DeadlinePasses(ch)) /\ WF_vars(LoopStep(ch))
    /\ CO!Fairness

-----------------------------------------------------------------------------
(* Properties of the parts; PartyMode's have their own names. *)

\* Every part keeps its type.
TableTypeOK ==
    /\ part = "party" => TypeOK
    /\ part = "combat" => CT!TypeOK
    /\ part = "edits" => CO!TypeOK
    /\ part = "choice" => SD!TypeOK
    /\ part = "life" => LC!TypeOK
    /\ part = "boot" => BT!TypeOK

\* The loops serve their tables: every open batch is flushed, every combat that
\* lasts is noticed, and what a running coalescer was given is taken up.
LoopsServe == BatchFlushed /\ CombatNoticed /\ CO!UpdatesTakenUp

\* The last update is on the screen or on its way, or what took it is known.
NothingForgotten == CO!NothingForgotten

\* The coalescers implement the screens that the cogs rely on.
ImplementsScreen == CO!ImplementsScreen

\* A combat message never goes back to an earlier turn, nor ahead of dm20.
ScreenForward == CT!ScreenForward

\* A dodge ends its turn, or could not, whatever of it failed before.
DodgeEndsTurn == CT!DodgeEndsTurn

\* Between callbacks, a channel in combat has its one, latest screen.
ScreenPerCombat == CT!ScreenPerCombat

\* success_rate and fallback_rate count what happened, and whatever was cached or
\* answered, the target is a candidate.
KpisTellTruth == SD!KpisTellTruth /\ SD!TargetIsCandidate

\* A bot that is up has its whole schema, whatever start was interrupted; a
\* background task finds the stores and the client it uses, wherever the start or
\* the end has come to; after close(), nothing runs but what a click began too late
\* to be stopped.
OrderlyEnds == BT!SchemaFirst /\ LC!TasksHaveStores /\ LC!CleanEnd
=============================================================================
