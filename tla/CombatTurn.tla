----------------------------- MODULE CombatTurn -----------------------------
(***************************************************************************)
(* Combat in one channel: the combat embed and its buttons (cogs/          *)
(* combat.py), the gate each button's callback goes through and what it    *)
(* does after it (bot/dynamic_items.py, gameplay/turn_gatekeeper.py), and  *)
(* the rows of combat_conditions.  dm20 owns whose turn it is.  A combat   *)
(* message is a Screen, which Coalescer implements; the party-mode loop    *)
(* calls the cog, one callback after the other.                            *)
(***************************************************************************)
EXTENDS Naturals, Sequences, FiniteSets

CONSTANTS Order,      \* initiative order: a sequence of actors
          Owner,      \* Owner[a]: the player of a; NoUser for a monster
          User,       \* Discord users
          Known,      \* the game state names the players of its actors
          Click,      \* interactions under way at a time
          MaxTurn,    \* bound: turns of a combat
          MaxFights,  \* bound: combats
          MaxGiven,   \* bound: updates of a message
          MaxFaults   \* bound: failed calls and restarts

NoUser == "nobody"
Actor == {Order[i] : i \in 1 .. Len(Order)}

Card == 1 .. MaxFights

VARIABLES turn,      \* dm20: turns ended in this combat
          fighting,  \* dm20: a combat is on
          fights,    \* dm20: combats begun
          entries,   \* messages _enter_combat made ready, numbered from 1
          session,   \* channel_sessions.state
          loop,      \* the party-mode loop, as far as combat is concerned
          coal,      \* CombatCog._coalescers: for which message, 0: none
          message,   \* CombatCog._combat_messages, likewise
          posted,    \* posted[k]: the screen message k was sent with
          given,     \* given[k]: the screens given to its coalescer since
          bare,      \* bare[k]: the buttons were taken off what is shown
          latest, shown, sealed,  \* the messages as Screens
          click,     \* click[c]: an interaction under way
          cond,      \* cond[a]: a's row of kind "dodging"
          stalled,   \* history: turns a dodge could not end, or was cut off
          blank,     \* history: messages that could not be posted, or whose
                     \* coalescer a restart lost
          faults

dm20Vars == <<turn, fighting, fights>>
screenVars == <<entries, posted, given, bare, latest, shown, sealed>>
cogVars == <<coal, message>>
vars == <<dm20Vars, session, loop, cogVars, screenVars, click, cond, stalled,
          blank, faults>>

SC == INSTANCE Screen WITH Message <- Card

-----------------------------------------------------------------------------
ActorAt(t) == Order[(t % Len(Order)) + 1]
RoundOf(t) == (t \div Len(Order)) + 1

\* player_id of an actor, in the state the callbacks and the cog build.
PlayerId(a) == IF Known THEN Owner[a] ELSE NoUser

\* turn_gatekeeper.is_actor: nobody acts for an actor without player_id.
IsActor(u, a) == PlayerId(a) # NoUser /\ PlayerId(a) = u

\* _build_combat_view: four buttons, which carry the actor and the round, on the
\* turn of a player's character and none on a monster's.
View(t) == IF PlayerId(ActorAt(t)) = NoUser THEN {}
           ELSE {[actor |-> ActorAt(t), round |-> RoundOf(t)]}

\* The embed and its view, built from the game state.
Rendered == [fight |-> fights, turn |-> turn, view |-> View(turn)]
NoRender == [fight |-> 0, turn |-> 0, view |-> {}]

\* What message k displays.
Displayed(k) ==
    LET r == IF shown[k] = 0 THEN posted[k] ELSE given[k][shown[k]] IN
      IF bare[k] THEN [r EXCEPT !.view = {}] ELSE r

\* custom_id: a button keeps its actor and round across restarts, and can be
\* clicked while some message displays it.
Button == [actor : Actor, round : 1 .. RoundOf(MaxTurn)]
Offered == UNION {Displayed(k).view : k \in Card}

Render == [fight : 0 .. MaxFights, turn : 0 .. MaxTurn, view : SUBSET Button]

Kinds == {"endturn", "attack", "dodge", "cast"}
NoButton == [actor |-> Order[1], round |-> 1]
Idle == [at |-> "idle", kind |-> "cast", btn |-> NoButton, user |-> NoUser,
         through |-> 0, fight |-> 0]
NoRow == [expires |-> 0, turn |-> 0, fight |-> 0]

TypeOK ==
    /\ turn \in 0 .. MaxTurn /\ fighting \in BOOLEAN /\ fights \in 0 .. MaxFights
    /\ session \in {"EXPLORATION", "COMBAT"}
    /\ loop \in {"idle", "entering", "posting", "stripping", "closing", "resolving"}
    /\ entries \in 0 .. MaxFights
    /\ coal \in 0 .. MaxFights /\ message \in 0 .. MaxFights
    /\ given \in [Card -> Seq(Render)]
    /\ posted \in [Card -> Render]
    /\ bare \in [Card -> BOOLEAN]
    /\ \A k \in Card : shown[k] <= latest[k] /\ latest[k] = Len(given[k])
    /\ click \in [Click -> [at : {"idle", "asked", "passed", "form", "aimed",
                                  "rowed", "affected"},
                            kind : Kinds, btn : Button, user : User \cup {NoUser},
                            through : Nat, fight : 0 .. MaxFights]]
    /\ cond \in [Actor -> [expires : Nat, turn : Nat, fight : 0 .. MaxFights]]
    /\ stalled \subseteq (1 .. MaxFights) \X (0 .. MaxTurn) /\ blank \subseteq Card
    /\ faults \in 0 .. MaxFaults

Init ==
    /\ turn = 0 /\ fighting = FALSE /\ fights = 0
    /\ session = "EXPLORATION" /\ loop = "idle"
    /\ coal = 0 /\ message = 0 /\ entries = 0
    /\ posted = [k \in Card |-> NoRender]
    /\ given = [k \in Card |-> <<>>]
    /\ bare = [k \in Card |-> FALSE]
    /\ SC!Init
    /\ click = [c \in Click |-> Idle]
    /\ cond = [a \in Actor |-> NoRow]
    /\ stalled = {} /\ blank = {} /\ faults = 0

Fault == faults < MaxFaults /\ faults' = faults + 1

-----------------------------------------------------------------------------
(* dm20: combats begin and end, and somebody ends the monsters' turns. *)

FightBegins ==
    /\ ~fighting /\ fights < MaxFights
    /\ fighting' = TRUE /\ fights' = fights + 1 /\ turn' = 0
    /\ UNCHANGED <<session, loop, cogVars, screenVars, click, cond, stalled,
                   blank, faults>>

FightEnds ==
    /\ fighting
    /\ fighting' = FALSE
    /\ UNCHANGED <<turn, fights, session, loop, cogVars, screenVars, click, cond,
                   stalled, blank, faults>>

MonsterEndsTurn ==
    /\ fighting /\ Owner[ActorAt(turn)] = NoUser /\ turn < MaxTurn
    /\ turn' = turn + 1
    /\ UNCHANGED <<fighting, fights, session, loop, cogVars, screenVars, click,
                   cond, stalled, blank, faults>>

-----------------------------------------------------------------------------
(* CombatCog, called by the party-mode loop. *)

Goto(phase) == loop' = phase

\* _check_state_transition: the row is written, then the cog is told.
NoticeFight ==
    /\ loop = "idle" /\ fighting /\ session = "EXPLORATION"
    /\ session' = "COMBAT" /\ Goto("entering")
    /\ UNCHANGED <<dm20Vars, cogVars, screenVars, click, cond, stalled, blank, faults>>

\* _enter_combat, up to the message: the game state is read, and sent a moment
\* later.
EnterCombat ==
    /\ loop = "entering"
    /\ entries' = entries + 1
    /\ \/ /\ posted' = [posted EXCEPT ![entries'] = Rendered]
          /\ Goto("posting") /\ UNCHANGED <<blank, faults>>
       \/ /\ Fault /\ blank' = blank \cup {entries'}
          /\ Goto("idle") /\ UNCHANGED posted
    /\ UNCHANGED <<dm20Vars, session, cogVars, given, bare, latest, shown, sealed,
                   click, cond, stalled>>

\* The message is out: it is remembered and gets a coalescer; one that is left of
\* an earlier combat is closed.
Posted ==
    /\ loop = "posting"
    /\ \/ /\ message' = entries /\ coal' = entries
          /\ IF coal # 0 THEN SC!Close(coal) ELSE UNCHANGED <<latest, shown, sealed>>
          /\ UNCHANGED <<posted, blank, faults>>
       \/ /\ Fault /\ blank' = blank \cup {entries}
          /\ posted' = [posted EXCEPT ![entries].view = {}]
          /\ UNCHANGED <<cogVars, latest, shown, sealed>>
    /\ Goto("idle")
    /\ UNCHANGED <<dm20Vars, session, entries, given, bare, click, cond, stalled>>

NoticeEnd ==
    /\ loop = "idle" /\ ~fighting /\ session = "COMBAT"
    /\ session' = "EXPLORATION" /\ Goto("stripping")
    /\ UNCHANGED <<dm20Vars, cogVars, screenVars, click, cond, stalled, blank, faults>>

\* _exit_combat: the message is forgotten and its buttons are taken off ...
StripButtons ==
    /\ loop = "stripping"
    /\ \/ bare' = [k \in Card |-> bare[k] \/ k = message] /\ UNCHANGED faults
       \/ message # 0 /\ Fault /\ UNCHANGED bare
    /\ message' = 0 /\ Goto("closing")
    /\ UNCHANGED <<dm20Vars, session, coal, entries, posted, given, latest, shown, sealed,
                   click, cond, stalled, blank>>

\* Variant: the coalescer is closed and stays registered.
CloseAndKeep ==
    /\ loop = "closing"
    /\ IF coal # 0 THEN SC!Close(coal) ELSE UNCHANGED <<latest, shown, sealed>>
    /\ Goto("idle")
    /\ UNCHANGED <<dm20Vars, session, cogVars, entries, posted, given, bare, click, cond,
                   stalled, blank, faults>>

\* ... and only then is the coalescer closed.
CloseScreen ==
    /\ loop = "closing"
    /\ IF coal # 0 THEN SC!Close(coal) ELSE UNCHANGED <<latest, shown, sealed>>
    /\ bare' = [k \in Card |-> bare[k] /\ shown'[k] = shown[k]]
    /\ coal' = 0 /\ Goto("idle")
    /\ UNCHANGED <<dm20Vars, session, message, entries, posted, given, click, cond,
                   stalled, blank, faults>>

\* on_resolved_combat: in COMBAT, with a coalescer, ...
Resolved ==
    /\ loop = "idle" /\ session = "COMBAT" /\ coal # 0
    /\ Len(given[coal]) < MaxGiven
    /\ Goto("resolving")
    /\ UNCHANGED <<dm20Vars, session, cogVars, screenVars, click, cond, stalled,
                   blank, faults>>

\* ... the game state is read again and given to the coalescer, unless reading
\* fails.
Refresh ==
    /\ loop = "resolving"
    /\ \/ /\ SC!Give(coal)
          /\ given' = [given EXCEPT ![coal] = Append(@, Rendered)]
          /\ UNCHANGED faults
       \/ Fault /\ UNCHANGED <<given, latest, shown, sealed>>
    /\ Goto("idle")
    /\ UNCHANGED <<dm20Vars, session, cogVars, entries, posted, bare, click, cond, stalled,
                   blank>>

\* Variant: a payload that failed is tried again after newer ones.
RenderLate(k) ==
    /\ k = coal
    /\ shown' \in {[shown EXCEPT ![k] = n] : n \in 1 .. latest[k]}
    /\ bare' = [bare EXCEPT ![k] = FALSE]
    /\ UNCHANGED <<dm20Vars, session, loop, cogVars, entries, posted, given, latest, sealed,
                   click, cond, stalled, blank, faults>>

\* The render task edits the message: embed and view.
RenderTask(k) ==
    /\ k = coal
    /\ SC!Show(k)
    /\ bare' = [bare EXCEPT ![k] = FALSE]
    /\ UNCHANGED <<dm20Vars, session, loop, cogVars, entries, posted, given, click, cond,
                   stalled, blank, faults>>

-----------------------------------------------------------------------------
(* The buttons. *)

At(c, phase) == click' = [click EXCEPT ![c].at = phase]
Done(c) == click' = [click EXCEPT ![c] = Idle]

\* A button some message offers is clicked, and Discord's custom_id names its
\* actor and round.  The row says COMBAT, and the game state is asked for.
Clicked(c, k) ==
    /\ click[c] = Idle /\ session = "COMBAT"
    /\ \E b \in Offered, u \in User :
         click' = [click EXCEPT ![c] = [Idle EXCEPT !.at = "asked", !.kind = k,
                                                   !.btn = b, !.user = u]]
    /\ UNCHANGED <<dm20Vars, session, loop, cogVars, screenVars, cond, stalled,
                   blank, faults>>

EndTurnClicked(c) == Clicked(c, "endturn")
AttackClicked(c) == Clicked(c, "attack")
DodgeClicked(c) == Clicked(c, "dodge")
CastClicked(c) == Clicked(c, "cast")

\* The rest of _combat_button_prelude: the round of the button is the current
\* one, and the user plays the current actor.  (Out of combat dm20 names no
\* actor.)
Admitted(b, u) == fighting /\ b.round = RoundOf(turn) /\ IsActor(u, ActorAt(turn))

\* The game state has come: who is admitted goes on, after what the gate saw.
Gate(c, k, next) ==
    /\ click[c].at = "asked" /\ click[c].kind = k
    /\ click' = [click EXCEPT ![c] =
         IF Admitted(@.btn, @.user)
         THEN [@ EXCEPT !.at = next, !.user = NoUser, !.through = turn,
                        !.fight = fights]
         ELSE Idle]
    /\ UNCHANGED <<dm20Vars, session, loop, cogVars, screenVars, cond, stalled,
                   blank, faults>>

EndTurnGate(c) == Gate(c, "endturn", "passed")
AttackGate(c) == Gate(c, "attack", "form")
DodgeGate(c) == Gate(c, "dodge", "passed")

\* Casting is a stub: admitted or not, the player gets a message.
CastGate(c) ==
    /\ click[c].at = "asked" /\ click[c].kind = "cast"
    /\ Done(c)
    /\ UNCHANGED <<dm20Vars, session, loop, cogVars, screenVars, cond, stalled,
                   blank, faults>>

\* get_game_state fails: a warning.
GateFails(c) ==
    /\ click[c].at = "asked" /\ Fault
    /\ Done(c)
    /\ UNCHANGED <<dm20Vars, session, loop, cogVars, screenVars, cond, stalled, blank>>

\* WeaponSelectModal: valid fields are handed on; with others the form can be
\* opened again.
WeaponSubmitted(c) ==
    /\ click[c].at = "form"
    /\ At(c, "aimed")
    /\ UNCHANGED <<dm20Vars, session, loop, cogVars, screenVars, cond, stalled,
                   blank, faults>>

\* _on_weapon_submit, behind the rate limiter: combat_action names the button's
\* actor, whoever's turn it is by now; an error is logged.
AttackDispatched(c) ==
    /\ click[c].at = "aimed"
    /\ Done(c)
    /\ UNCHANGED <<dm20Vars, session, loop, cogVars, screenVars, cond, stalled,
                   blank, faults>>

\* next_turn, as dm20 does it.
NextTurn == /\ turn' = IF fighting /\ turn < MaxTurn THEN turn + 1 ELSE turn
            /\ UNCHANGED <<fighting, fights>>

\* EndTurnButton: next_turn behind the rate limiter; after an error, with or
\* without effect, the player is told to try again.
EndTurn(c) ==
    /\ click[c].at = "passed" /\ click[c].kind = "endturn"
    /\ \/ NextTurn /\ UNCHANGED faults
       \/ Fault /\ (NextTurn \/ UNCHANGED dm20Vars)
    /\ Done(c)
    /\ UNCHANGED <<session, loop, cogVars, screenVars, cond, stalled, blank>>

\* DodgeButton: CombatConditionsRepo.insert replaces the row of the button's
\* actor; a failure is swallowed.
DodgeRow(c) ==
    /\ click[c].at = "passed" /\ click[c].kind = "dodge"
    /\ \/ /\ cond' = [cond EXCEPT ![click[c].btn.actor] =
                        [expires |-> RoundOf(click[c].through) + 1,
                         turn |-> click[c].through, fight |-> click[c].fight]]
          /\ UNCHANGED faults
       \/ Fault /\ UNCHANGED cond
    /\ At(c, "rowed")
    /\ UNCHANGED <<dm20Vars, session, loop, cogVars, screenVars, stalled, blank>>

Dodging(c) == click[c].kind = "dodge" /\ click[c].at \in {"rowed", "affected"}

\* Variant: the callback gives up when apply_effect fails.
DodgeEffectOrGiveUp(c) ==
    /\ click[c].at = "rowed"
    /\ \/ At(c, "affected") /\ UNCHANGED faults
       \/ Fault /\ Done(c)
    /\ UNCHANGED <<dm20Vars, session, loop, cogVars, screenVars, cond, stalled, blank>>

\* apply_effect, whose failure is swallowed.
DodgeEffect(c) ==
    /\ click[c].at = "rowed"
    /\ At(c, "affected")
    /\ UNCHANGED <<dm20Vars, session, loop, cogVars, screenVars, cond, stalled,
                   blank, faults>>

\* next_turn; after an error the dodge stands and the turn may go on.
DodgeAdvance(c) ==
    /\ click[c].at = "affected"
    /\ \/ NextTurn /\ UNCHANGED <<stalled, faults>>
       \/ /\ Fault /\ (NextTurn \/ UNCHANGED dm20Vars)
          /\ stalled' = stalled \cup {<<click[c].fight, click[c].through>>}
    /\ Done(c)
    /\ UNCHANGED <<session, loop, cogVars, screenVars, cond, blank>>

-----------------------------------------------------------------------------
\* The process dies.  Rows and messages stay; no callback of the cog recreates
\* the coalescer of a combat that goes on.
Restart ==
    /\ Fault
    /\ loop' = "idle" /\ coal' = 0 /\ message' = 0
    /\ click' = [c \in Click |-> Idle]
    /\ stalled' = stalled \cup {<<click[c].fight, click[c].through>> :
                                  c \in {d \in Click : Dodging(d)}}
    /\ blank' = blank \cup ({entries} \ {0})
    /\ UNCHANGED <<dm20Vars, session, screenVars, cond>>

CogStep == NoticeFight \/ EnterCombat \/ Posted \/ NoticeEnd \/ StripButtons
             \/ CloseScreen \/ Resolved \/ Refresh

ClickStep(c) ==
    \/ EndTurnClicked(c) \/ AttackClicked(c) \/ DodgeClicked(c) \/ CastClicked(c)
    \/ EndTurnGate(c) \/ AttackGate(c) \/ DodgeGate(c) \/ CastGate(c) \/ GateFails(c)
    \/ WeaponSubmitted(c) \/ AttackDispatched(c) \/ EndTurn(c)
    \/ DodgeRow(c) \/ DodgeEffect(c) \/ DodgeAdvance(c)

Next ==
    \/ FightBegins \/ FightEnds \/ MonsterEndsTurn
    \/ CogStep
    \/ \E k \in Card : RenderTask(k)
    \/ \E c \in Click : ClickStep(c)
    \/ Restart

Spec == Init /\ [][Next]_vars

-----------------------------------------------------------------------------
(* Properties. *)

\* What a combat message displays never goes back to an earlier turn of dm20, and
\* is never ahead of it.
Earlier(r, q) == r.fight < q.fight \/ (r.fight = q.fight /\ r.turn < q.turn)

ScreenForward ==
    [][\A k \in Card : /\ ~Earlier(Displayed(k)', Displayed(k))
                       /\ ~Earlier(Rendered', Displayed(k)')]_vars

\* A dodge whose turn still goes on is on its way to ending it, or could not, or
\* was cut off: a failed row or effect does not keep the turn from ending.
DodgeEndsTurn ==
    \A a \in Actor :
       cond[a].fight = fights /\ cond[a].turn = turn /\ fighting /\ cond[a] # NoRow
         => \/ <<fights, turn>> \in stalled
            \/ \E c \in Click : /\ Dodging(c)
                                /\ click[c].fight = fights
                                /\ click[c].through = turn
            \/ turn = MaxTurn

\* Between the callbacks, the channel is in combat exactly while the cog has a
\* screen for it, the last one made, unless that could not be posted or a restart
\* lost it.
ScreenPerCombat ==
    loop = "idle" =>
       /\ session = "COMBAT" => coal = entries \/ entries \in blank
       /\ session = "EXPLORATION" => coal = 0
=============================================================================
