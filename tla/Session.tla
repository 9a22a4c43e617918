------------------------------ MODULE Session ------------------------------
(***************************************************************************)
(* The life of a channel's game: /start_game, /load_adventure and          *)
(* /end_game of bot/cogs/lobby.py, the Ready button of                     *)
(* bot/dynamic_items.py, the tables channel_sessions and persistent_views, *)
(* and the resumption of loops in bot.setup_hook.                          *)
(*                                                                         *)
(* A handler is a command in flight, cut at its awaits; nothing serialises *)
(* the commands of a channel.  Of the party-mode loop only what it does to *)
(* the row is kept: it may record COMBAT or EXPLORATION at any time.       *)
(***************************************************************************)
EXTENDS Integers, FiniteSets

CONSTANTS Channel,
          User,
          Command,    \* handlers that may be in flight at once
          MaxGames,   \* bound: dm20 sessions started
          MaxFaults   \* bound: failed calls and restarts

ASSUME SessionAssumption ==
    /\ Channel # {} /\ User # {}
    /\ MaxGames \in Nat
    /\ MaxFaults \in Nat

VARIABLES roster,     \* dm20: the players seated in ch's campaign, fixed
          row,        \* row[ch]: the row of channel_sessions
          ready,      \* ready[ch]: ready_user_ids of the row "ready:<ch>" of
                      \* persistent_views, {} when there is none
          running,    \* channels whose party-mode loop runs
          cmd,        \* cmd[c]: a handler in flight
          games,      \* dm20: sessions started so far
          live,       \* dm20: sessions not ended
          chapters,   \* dm20: how often Chapter 1 of game g was populated
          disturbed,  \* history: channels whose row was not kept in sequence
          dark,       \* history: channels whose loop was not resumed
          faults

tables == <<row, ready>>
dm20 == <<roster, games, live, chapters>>
history == <<disturbed, dark>>
vars == <<tables, running, cmd, dm20, history, faults>>

-----------------------------------------------------------------------------
Game == 1 .. MaxGames
NoSession == 0    \* claudmaster_session_id NULL; dm20's session of game g is g
States == {"none", "LOBBY", "EXPLORATION", "COMBAT"}    \* "none": no row
Row == [state : States, game : 0 .. MaxGames, sess : 0 .. MaxGames,
        module : {"none", "bound"}]
NoRow == [state |-> "none", game |-> 0, sess |-> NoSession, module |-> "none"]

Playing(r) == r.state \in {"EXPLORATION", "COMBAT"}

Phases == {"idle", "opening", "party", "storing",    \* /start_game
           "loading", "binding",                     \* /load_adventure
           "ending", "closing",                      \* /end_game
           "roster", "saving", "exploring", "looping"}    \* Ready
Cmd == [pc : Phases, ch : Channel, user : User, copy : Row,
        set : SUBSET User]

TypeOK ==
    /\ roster \in [Channel -> SUBSET User]
    /\ row \in [Channel -> Row]
    /\ ready \in [Channel -> SUBSET User]
    /\ running \in SUBSET Channel
    /\ cmd \in [Command -> Cmd]
    /\ games \in 0 .. MaxGames
    /\ live \in SUBSET Game
    /\ chapters \in [Game -> 0 .. 2]
    /\ disturbed \in SUBSET Channel
    /\ dark \in SUBSET Channel
    /\ faults \in 0 .. MaxFaults

\* A handler that is not in flight; its other fields mean nothing.
Idle == [pc |-> "idle", ch |-> CHOOSE ch \in Channel : TRUE,
         user |-> CHOOSE u \in User : TRUE, copy |-> NoRow, set |-> {}]

Init ==
    /\ roster \in [Channel -> SUBSET User]
    /\ row = [ch \in Channel |-> NoRow]
    /\ ready = [ch \in Channel |-> {}]
    /\ running = {}
    /\ cmd = [c \in Command |-> Idle]
    /\ games = 0
    /\ live = {}
    /\ chapters = [g \in Game |-> 0]
    /\ disturbed = {}
    /\ dark = {}
    /\ faults = 0

\* A call that raises, or a restart, within the bound.
Fault == faults < MaxFaults /\ faults' = faults + 1

At(c, phase) == cmd[c].pc = phase
Goto(c, phase) == cmd' = [cmd EXCEPT ![c].pc = phase]
Done(c) == cmd' = [cmd EXCEPT ![c] = Idle]

\* The phases of the handlers that rewrite the row.
Rewriting == {"opening", "party", "storing", "loading", "binding", "ending",
              "closing"}

\* A handler that rewrites the row begins; another may be on its way.
Begin(c, ch, phase, copy) ==
    /\ At(c, "idle")
    /\ cmd' = [cmd EXCEPT ![c] = [Idle EXCEPT !.pc = phase, !.ch = ch,
                                              !.copy = copy]]
    /\ disturbed' = IF \E d \in Command : cmd[d].pc \in Rewriting /\ cmd[d].ch = ch
                    THEN disturbed \cup {ch} ELSE disturbed

Disturb(ch) == disturbed' = disturbed \cup {ch}

-----------------------------------------------------------------------------
(* /start_game. *)

\* Refused while another channel plays; when that cannot be read, not refused.
StartGame(c, ch) ==
    /\ Begin(c, ch, "opening", NoRow)
    /\ \/ /\ \A other \in Channel \ {ch} : ~Playing(row[other])
          /\ UNCHANGED faults
       \/ Fault
    /\ UNCHANGED <<tables, running, dm20, dark>>

\* create_campaign and start_claudmaster_session; a failure of either is told
\* to the user.
OpenSession(c) ==
    /\ At(c, "opening")
    /\ \/ /\ games < MaxGames
          /\ games' = games + 1
          /\ live' = live \cup {games + 1}
          /\ cmd' = [cmd EXCEPT ![c].pc = "party", ![c].copy.game = games + 1,
                                ![c].copy.sess = games + 1]
          /\ UNCHANGED faults
       \/ Fault /\ Done(c) /\ UNCHANGED <<games, live>>
    /\ UNCHANGED <<tables, running, roster, chapters, history>>

\* start_party_mode; on failure the session is ended, if dm20 lets us.
StartParty(c) ==
    /\ At(c, "party")
    /\ \/ Goto(c, "storing") /\ UNCHANGED <<live, faults>>
       \/ /\ Fault
          /\ Done(c)
          /\ live' \in {live, live \ {cmd[c].copy.sess}}
    /\ UNCHANGED <<tables, running, roster, games, chapters, history>>

\* upsert of the row in LOBBY; nothing catches its failure.  The ready row of an
\* earlier game stays.
StoreGame(c) ==
    LET ch == cmd[c].ch IN
    /\ At(c, "storing")
    /\ \/ /\ row' = [row EXCEPT ![ch] = [cmd[c].copy EXCEPT !.state = "LOBBY"]]
          /\ UNCHANGED faults
       \/ Fault /\ UNCHANGED row
    /\ Done(c)
    /\ UNCHANGED <<ready, running, dm20, history>>

-----------------------------------------------------------------------------
(* /load_adventure. *)

LoadAdventure(c, ch) ==
    /\ row[ch] # NoRow
    /\ Begin(c, ch, "loading", row[ch])
    /\ UNCHANGED <<tables, running, dm20, dark, faults>>

\* dm20 populates Chapter 1 unless the row read at the start says it is bound.
Populated(r) ==
    IF r.module = "none" /\ r.game \in Game
    THEN [chapters EXCEPT ![r.game] = IF @ = 0 THEN 1 ELSE 2]
    ELSE chapters

\* dm20's load_adventure, which may have happened although the call failed.
CallLoad(c) ==
    /\ At(c, "loading")
    /\ \/ /\ Goto(c, "binding")
          /\ chapters' = Populated(cmd[c].copy)
          /\ UNCHANGED <<disturbed, faults>>
       \/ /\ Fault
          /\ Done(c)
          /\ chapters' \in {chapters, Populated(cmd[c].copy)}
          /\ Disturb(cmd[c].ch)
    /\ UNCHANGED <<tables, running, roster, games, live, dark>>

\* Variant: module_bound is patched into the dict and not stored.
StoreNothing(c) ==
    /\ At(c, "binding")
    /\ Done(c)
    /\ UNCHANGED <<tables, running, dm20, history, faults>>

\* The whole row is written back as it was read, with module_bound.
StoreModule(c) ==
    LET ch == cmd[c].ch IN
    /\ At(c, "binding")
    /\ \/ /\ row' = [row EXCEPT ![ch] = [cmd[c].copy EXCEPT !.module = "bound"]]
          /\ UNCHANGED <<disturbed, faults>>
       \/ Fault /\ Disturb(ch) /\ UNCHANGED row
    /\ Done(c)
    /\ UNCHANGED <<ready, running, dm20, dark>>

-----------------------------------------------------------------------------
(* /end_game. *)

\* What is written back in the end is the row read here, in LOBBY.
EndGame(c, ch) ==
    /\ row[ch] # NoRow
    /\ Begin(c, ch, "ending", [row[ch] EXCEPT !.state = "LOBBY"])
    /\ UNCHANGED <<tables, running, dm20, dark, faults>>

\* end_claudmaster_session, if there is one; its failure is not fatal.
EndSession(c) ==
    /\ At(c, "ending")
    /\ Goto(c, "closing")
    /\ \/ live' = live \ {cmd[c].copy.sess} /\ UNCHANGED faults
       \/ Fault /\ UNCHANGED live
    /\ UNCHANGED <<tables, running, roster, games, chapters, history>>

\* Variant: the row goes back to LOBBY with the session still in it.
StoreLobby(c) ==
    LET ch == cmd[c].ch IN
    /\ At(c, "closing")
    /\ row' = [row EXCEPT ![ch] = cmd[c].copy]
    /\ Done(c)
    /\ UNCHANGED <<ready, running, dm20, history, faults>>

\* The row goes back to LOBBY without a session; a failure is logged.  The loop
\* runs on and the ready row stays.
StoreEnd(c) ==
    LET ch == cmd[c].ch IN
    /\ At(c, "closing")
    /\ \/ /\ row' = [row EXCEPT ![ch] = [cmd[c].copy EXCEPT !.sess = NoSession]]
          /\ UNCHANGED <<disturbed, faults>>
       \/ Fault /\ Disturb(ch) /\ UNCHANGED row
    /\ Done(c)
    /\ UNCHANGED <<ready, running, dm20, dark>>

-----------------------------------------------------------------------------
(* The Ready button.  The button stays on the lobby message for ever. *)

ClickReady(c, ch, u) ==
    /\ At(c, "idle")
    /\ row[ch] # NoRow
    /\ cmd' = [cmd EXCEPT ![c] = [Idle EXCEPT !.pc = "roster", !.ch = ch,
                                              !.user = u]]
    /\ UNCHANGED <<tables, running, dm20, history, faults>>

\* list_characters, then the ready row is read.  Who is not seated is refused.
ReadReady(c) ==
    LET ch == cmd[c].ch IN
    /\ At(c, "roster")
    /\ \/ /\ cmd[c].user \in roster[ch]
          /\ cmd' = [cmd EXCEPT ![c].pc = "saving", ![c].set = ready[ch]]
          /\ UNCHANGED faults
       \/ cmd[c].user \notin roster[ch] /\ Done(c) /\ UNCHANGED faults
       \/ Fault /\ Done(c)
    /\ UNCHANGED <<tables, running, dm20, history>>

\* pv_repo.insert: with a ready row in the table, of this game or an earlier
\* one, it raises IntegrityError and the handler ends.
SaveReady(c) ==
    LET ch == cmd[c].ch
        all == cmd[c].set \cup {cmd[c].user}
    IN /\ At(c, "saving")
       /\ \/ /\ ready[ch] = {}
             /\ ready' = [ready EXCEPT ![ch] = all]
             /\ IF roster[ch] \subseteq all THEN Goto(c, "exploring") ELSE Done(c)
             /\ UNCHANGED faults
          \/ ready[ch] # {} /\ Done(c) /\ UNCHANGED <<ready, faults>>
          \/ Fault /\ Done(c) /\ UNCHANGED ready
       /\ UNCHANGED <<row, running, dm20, history>>

\* set_state(EXPLORATION).
Explore(c) ==
    /\ At(c, "exploring")
    /\ \/ /\ row' = [row EXCEPT ![cmd[c].ch].state = "EXPLORATION"]
          /\ Goto(c, "looping")
          /\ UNCHANGED faults
       \/ Fault /\ Done(c) /\ UNCHANGED row
    /\ UNCHANGED <<ready, running, dm20, history>>

\* Variant: the loop is left to the next start of the bot.
StartNoLoop(c) ==
    /\ At(c, "looping")
    /\ Done(c)
    /\ UNCHANGED <<tables, running, dm20, history, faults>>

\* start_orchestrator_for_channel, idempotent.
StartLoop(c) ==
    LET ch == cmd[c].ch IN
    /\ At(c, "looping")
    /\ running' = running \cup {ch}
    /\ dark' = dark \ {ch}
    /\ Done(c)
    /\ UNCHANGED <<tables, dm20, disturbed, faults>>

-----------------------------------------------------------------------------
\* The watcher of a loop records what dm20 is doing, whatever the row says.
LoopRecords(ch) ==
    /\ ch \in running
    /\ \E s \in {"EXPLORATION", "COMBAT"} : row' = [row EXCEPT ![ch].state = s]
    /\ UNCHANGED <<ready, running, cmd, dm20, history, faults>>

\* Variant: whatever list_active returns is resumed.
RestartAll ==
    /\ Fault
    /\ cmd' = [c \in Command |-> Idle]
    /\ disturbed' = disturbed \cup {cmd[c].ch : c \in {d \in Command : cmd[d].pc \in Rewriting}}
    /\ LET playing == {ch \in Channel : row[ch] # NoRow} IN
         \/ running' = playing /\ dark' = {}
         \/ running' = {} /\ dark' = playing
    /\ UNCHANGED <<tables, dm20>>

\* The process ends with its handlers and loops.  setup_hook starts the loops of
\* the channels that play, unless the table cannot be read.
Restart ==
    /\ Fault
    /\ cmd' = [c \in Command |-> Idle]
    /\ disturbed' = disturbed \cup {cmd[c].ch : c \in {d \in Command : cmd[d].pc \in Rewriting}}
    /\ LET playing == {ch \in Channel : Playing(row[ch])} IN
         \/ running' = playing /\ dark' = {}
         \/ running' = {} /\ dark' = playing
    /\ UNCHANGED <<tables, dm20>>

-----------------------------------------------------------------------------
Step(c) ==
    \/ OpenSession(c) \/ StartParty(c) \/ StoreGame(c)
    \/ CallLoad(c) \/ StoreModule(c)
    \/ EndSession(c) \/ StoreEnd(c)
    \/ ReadReady(c) \/ SaveReady(c) \/ Explore(c) \/ StartLoop(c)

Next ==
    \/ \E c \in Command, ch \in Channel :
          StartGame(c, ch) \/ LoadAdventure(c, ch) \/ EndGame(c, ch)
    \/ \E c \in Command, ch \in Channel, u \in User : ClickReady(c, ch, u)
    \/ \E c \in Command : Step(c)
    \/ \E ch \in Channel : LoopRecords(ch)
    \/ Restart

Spec == Init /\ [][Next]_vars

-----------------------------------------------------------------------------
(* Properties. *)

\* A channel that plays has a loop, or a Ready click is about to start it;
\* otherwise its buttons would be "silently inert" (ReadyButton, G-1).  The one
\* exception is a start of the bot that could not read the table.
NoInertChannel ==
    \A ch \in Channel : Playing(row[ch]) =>
       \/ ch \in running
       \/ \E c \in Command : At(c, "looping") /\ cmd[c].ch = ch
       \/ ch \in dark

\* No table plays that was not ready, in this game or an earlier one, to the
\* last player: neither a loop, nor a row written back, nor a restart begins.
TableWasReady ==
    \A ch \in Channel :
       Playing(row[ch]) \/ ch \in running
          => ready[ch] # {} /\ roster[ch] \subseteq ready[ch]

\* As long as the handlers that rewrite a row come one after the other, the row
\* never names a session that dm20 was told to end.
RowSessionLive ==
    \A ch \in Channel \ disturbed :
       row[ch].sess # NoSession
          => \/ row[ch].sess \in live
             \/ \E c \in Command : At(c, "closing") /\ cmd[c].ch = ch

\* Nor is Chapter 1 of a campaign populated twice (load_adventure, T-03-04).
ChapterOnce ==
    \A ch \in Channel \ disturbed :
       row[ch].game \in Game => chapters[row[ch].game] < 2

\* "Add user ID (deduped); upsert the row (survives restart)": a click that comes
\* to its write, which nothing refuses, leaves its player in the ready row.
ClickRecorded ==
    [][\A c \in Command :
          At(c, "saving") /\ cmd'[c] # cmd[c] /\ faults' = faults
             => cmd[c].user \in ready'[cmd[c].ch]]_vars
=============================================================================
