--------------------------- MODULE SessionProofs ---------------------------
(* Theorems about Session, for all channels, players, handlers and bounds. *)
EXTENDS Session, TLAPS

LEMMA IdleType == Idle \in Cmd /\ Idle.pc = "idle"
<1>1. (CHOOSE ch \in Channel : TRUE) \in Channel
  BY SessionAssumption
<1>2. (CHOOSE u \in User : TRUE) \in User
  BY SessionAssumption
<1>3. NoRow \in Row
  BY SessionAssumption DEF NoRow, Row, States, NoSession
<1> QED
  BY <1>1, <1>2, <1>3 DEF Idle, Cmd, Phases

(* What the helpers do to the handlers in flight. *)

LEMMA DoneType ==
    ASSUME cmd \in [Command -> Cmd], NEW c \in Command, Done(c)
    PROVE  cmd' \in [Command -> Cmd]
BY IdleType DEF Done

LEMMA GotoType ==
    ASSUME cmd \in [Command -> Cmd], NEW c \in Command, NEW phase \in Phases,
           Goto(c, phase)
    PROVE  cmd' \in [Command -> Cmd]
BY DEF Goto, Cmd

LEMMA BeginType ==
    ASSUME TypeOK, NEW c \in Command, NEW ch \in Channel, NEW phase \in Phases,
           NEW copy \in Row, Begin(c, ch, phase, copy)
    PROVE  cmd' \in [Command -> Cmd] /\ disturbed' \in SUBSET Channel
<1> DEFINE new == [Idle EXCEPT !.pc = phase, !.ch = ch, !.copy = copy]
<1>1. new \in Cmd
  BY IdleType DEF Cmd
<1>2. cmd' = [cmd EXCEPT ![c] = new]
  BY DEF Begin
<1>3. cmd' \in [Command -> Cmd]
  BY <1>1, <1>2 DEF TypeOK
<1> QED
  BY <1>3 DEF Begin, TypeOK

LEMMA CopyType ==
    ASSUME TypeOK, NEW c \in Command
    PROVE  /\ cmd[c].ch \in Channel
           /\ cmd[c].user \in User
           /\ cmd[c].copy \in Row
           /\ cmd[c].set \in SUBSET User
BY DEF TypeOK, Cmd

LEMMA TypeInit == Init => TypeOK
BY SessionAssumption, IdleType
   DEF Init, TypeOK, NoRow, Row, States, NoSession, Game

LEMMA TypeStep == TypeOK /\ [Next]_vars => TypeOK'
<1> SUFFICES ASSUME TypeOK, [Next]_vars PROVE TypeOK'
  OBVIOUS
<1> USE SessionAssumption, IdleType
<1>1. ASSUME NEW c \in Command, NEW ch \in Channel, StartGame(c, ch)
      PROVE TypeOK'
  <2>1. NoRow \in Row /\ "opening" \in Phases
    BY DEF NoRow, Row, States, NoSession, Phases
  <2>2. cmd' \in [Command -> Cmd] /\ disturbed' \in SUBSET Channel
    BY <1>1, <2>1, BeginType DEF StartGame
  <2> QED
    BY <1>1, <2>2 DEF StartGame, Fault, TypeOK, tables, dm20
<1>2. ASSUME NEW c \in Command, OpenSession(c) PROVE TypeOK'
  <2>1. CASE Fault /\ Done(c) /\ UNCHANGED <<games, live>>
    BY <1>2, <2>1, DoneType DEF OpenSession, Fault, TypeOK, tables, history
  <2>2. CASE /\ games < MaxGames
             /\ games' = games + 1
             /\ live' = live \cup {games + 1}
             /\ cmd' = [cmd EXCEPT ![c].pc = "party",
                                   ![c].copy.game = games + 1,
                                   ![c].copy.sess = games + 1]
             /\ UNCHANGED faults
    <3>1. games + 1 \in 1 .. MaxGames
      BY <2>2 DEF TypeOK
    <3> DEFINE new == [cmd[c] EXCEPT !.pc = "party",
                                     !.copy.game = games + 1,
                                     !.copy.sess = games + 1]
    <3>2. [cmd[c].copy EXCEPT !.game = games + 1, !.sess = games + 1] \in Row
      <4>1. cmd[c].copy \in Row /\ games + 1 \in 0 .. MaxGames
        BY <3>1, CopyType
      <4> QED
        BY <4>1 DEF Row
    <3>3. new \in Cmd
      BY <3>2 DEF TypeOK, Cmd, Phases
    <3>4. cmd' = [cmd EXCEPT ![c] = new]
      BY <2>2 DEF TypeOK
    <3>5. cmd' \in [Command -> Cmd]
      BY <3>3, <3>4 DEF TypeOK
    <3> QED
      BY <1>2, <2>2, <3>1, <3>5 DEF OpenSession, TypeOK, Game, tables, history
  <2> QED
    BY <1>2, <2>1, <2>2 DEF OpenSession
<1>3. ASSUME NEW c \in Command, StartParty(c) PROVE TypeOK'
  BY <1>3 DEF StartParty, At, Goto, Done, Fault, TypeOK, Cmd, Phases,
              tables, history
<1>4. ASSUME NEW c \in Command, StoreGame(c) PROVE TypeOK'
  <2>1. [cmd[c].copy EXCEPT !.state = "LOBBY"] \in Row
    BY CopyType DEF Row, States, NoSession
  <2>2. row' \in [Channel -> Row]
    BY <1>4, <2>1, CopyType DEF StoreGame, TypeOK
  <2>3. cmd' \in [Command -> Cmd]
    BY <1>4, DoneType DEF StoreGame, TypeOK
  <2> QED
    BY <1>4, <2>2, <2>3, CopyType DEF StoreGame, Disturb, Fault, TypeOK, dm20, history
<1>5. ASSUME NEW c \in Command, NEW ch \in Channel, LoadAdventure(c, ch)
      PROVE TypeOK'
  <2>1. row[ch] \in Row /\ "loading" \in Phases
    BY DEF TypeOK, Phases
  <2>2. cmd' \in [Command -> Cmd] /\ disturbed' \in SUBSET Channel
    BY <1>5, <2>1, BeginType DEF LoadAdventure
  <2> QED
    BY <1>5, <2>2 DEF LoadAdventure, TypeOK, tables, dm20
<1>6. ASSUME NEW c \in Command, CallLoad(c) PROVE TypeOK'
  <2>1. cmd' \in [Command -> Cmd]
    BY <1>6, DoneType, GotoType DEF CallLoad, TypeOK, Phases
  <2>2. Populated(cmd[c].copy) \in [Game -> 0 .. 2]
    BY DEF Populated, TypeOK
  <2>3. chapters' \in [Game -> 0 .. 2]
    BY <1>6, <2>2 DEF CallLoad, TypeOK
  <2> QED
    BY <1>6, <2>1, <2>3, CopyType DEF CallLoad, Disturb, Fault, TypeOK, tables
<1>7. ASSUME NEW c \in Command, StoreModule(c) PROVE TypeOK'
  <2>1. [cmd[c].copy EXCEPT !.module = "bound"] \in Row
    BY CopyType DEF Row, States, NoSession
  <2>2. row' \in [Channel -> Row]
    BY <1>7, <2>1, CopyType DEF StoreModule, TypeOK
  <2>3. cmd' \in [Command -> Cmd]
    BY <1>7, DoneType DEF StoreModule, TypeOK
  <2> QED
    BY <1>7, <2>2, <2>3, CopyType DEF StoreModule, Disturb, Fault, TypeOK, dm20, history
<1>8. ASSUME NEW c \in Command, NEW ch \in Channel, EndGame(c, ch)
      PROVE TypeOK'
  <2>1. [row[ch] EXCEPT !.state = "LOBBY"] \in Row /\ "ending" \in Phases
    BY DEF TypeOK, Row, States, Phases
  <2>2. cmd' \in [Command -> Cmd] /\ disturbed' \in SUBSET Channel
    BY <1>8, <2>1, BeginType DEF EndGame
  <2> QED
    BY <1>8, <2>2 DEF EndGame, TypeOK, tables, dm20
<1>9. ASSUME NEW c \in Command, EndSession(c) PROVE TypeOK'
  BY <1>9 DEF EndSession, At, Goto, Fault, TypeOK, Cmd, Phases, tables, history
<1>10. ASSUME NEW c \in Command, StoreEnd(c) PROVE TypeOK'
  <2>1. [cmd[c].copy EXCEPT !.sess = NoSession] \in Row
    BY CopyType DEF Row, States, NoSession
  <2>2. row' \in [Channel -> Row]
    BY <1>10, <2>1, CopyType DEF StoreEnd, TypeOK
  <2>3. cmd' \in [Command -> Cmd]
    BY <1>10, DoneType DEF StoreEnd, TypeOK
  <2> QED
    BY <1>10, <2>2, <2>3, CopyType DEF StoreEnd, Disturb, Fault, TypeOK, dm20, history
<1>11. ASSUME NEW c \in Command, NEW ch \in Channel, NEW u \in User,
              ClickReady(c, ch, u)
       PROVE TypeOK'
  BY <1>11 DEF ClickReady, At, TypeOK, Cmd, Phases, tables, dm20, history
<1>12. ASSUME NEW c \in Command, ReadReady(c) PROVE TypeOK'
  <2>1. ASSUME cmd' = [cmd EXCEPT ![c].pc = "saving",
                                  ![c].set = ready[cmd[c].ch]]
        PROVE  cmd' \in [Command -> Cmd]
    BY <2>1, CopyType DEF TypeOK, Cmd, Phases
  <2>2. cmd' \in [Command -> Cmd]
    BY <1>12, <2>1, DoneType DEF ReadReady, TypeOK
  <2> QED
    BY <1>12, <2>2 DEF ReadReady, Fault, TypeOK, tables, dm20, history
<1>13. ASSUME NEW c \in Command, SaveReady(c) PROVE TypeOK'
  BY <1>13 DEF SaveReady, At, Goto, Done, Fault, TypeOK, Cmd, Phases, dm20,
               history
<1>14. ASSUME NEW c \in Command, Explore(c) PROVE TypeOK'
  <2>1. ASSUME row' = [row EXCEPT ![cmd[c].ch].state = "EXPLORATION"]
        PROVE  row' \in [Channel -> Row]
    BY <2>1, CopyType DEF TypeOK, Row, States
  <2>2. cmd' \in [Command -> Cmd]
    BY <1>14, DoneType, GotoType DEF Explore, TypeOK, Phases
  <2> QED
    BY <1>14, <2>1, <2>2 DEF Explore, Fault, TypeOK, dm20, history
<1>15. ASSUME NEW c \in Command, StartLoop(c) PROVE TypeOK'
  BY <1>15 DEF StartLoop, At, Done, TypeOK, Cmd, tables, dm20
<1>16. ASSUME NEW ch \in Channel, LoopRecords(ch) PROVE TypeOK'
  <2>1. PICK s \in {"EXPLORATION", "COMBAT"} : row' = [row EXCEPT ![ch].state = s]
    BY <1>16 DEF LoopRecords
  <2>2. row' \in [Channel -> Row]
    BY <2>1 DEF TypeOK, Row, States
  <2> QED
    BY <1>16, <2>2 DEF LoopRecords, TypeOK, dm20, history
<1>17. ASSUME Restart PROVE TypeOK'
  BY <1>17 DEF Restart, Fault, TypeOK, Cmd, tables, dm20
<1>18. ASSUME UNCHANGED vars PROVE TypeOK'
  BY <1>18 DEF vars, tables, dm20, history, TypeOK
<1> QED
  BY <1>1, <1>2, <1>3, <1>4, <1>5, <1>6, <1>7, <1>8, <1>9, <1>10, <1>11,
     <1>12, <1>13, <1>14, <1>15, <1>16, <1>17, <1>18 DEF Next, Step

\* Every variable keeps its type.
THEOREM SessionTypeOK == Spec => []TypeOK
BY TypeInit, TypeStep, PTL DEF Spec

-----------------------------------------------------------------------------
(* The table that plays. *)

\* Channels whose ready row holds their whole table.
Seated == {ch \in Channel : ready[ch] # {} /\ roster[ch] \subseteq ready[ch]}

\* Channels that have their loop, are about to have it, or were not resumed.
Attended == {ch \in Channel :
               \/ ch \in running
               \/ \E c \in Command : At(c, "looping") /\ cmd[c].ch = ch
               \/ ch \in dark}

\* What a handler will write back, or is about to begin, was true once and, as
\* neither a ready row nor a loop goes away while handlers are in flight, still is.
HandlersHonest ==
    \A c \in Command :
       /\ cmd[c].pc \in {"loading", "binding"} /\ Playing(cmd[c].copy)
             => cmd[c].ch \in Seated /\ cmd[c].ch \in Attended
       /\ cmd[c].pc \in {"exploring", "looping"} => cmd[c].ch \in Seated
       /\ cmd[c].pc \in {"ending", "closing"} => cmd[c].copy.state = "LOBBY"

TableInv == TypeOK /\ NoInertChannel /\ TableWasReady /\ HandlersHonest

\* What a step of handler c has to show.
LEMMA HandlerStep ==
    ASSUME TableInv, TypeOK', NEW c \in Command,
           \A d \in Command \ {c} : cmd'[d] = cmd[d],
           Seated \subseteq Seated', Attended \subseteq Attended',
           \A ch \in Channel : Playing(row'[ch])
              => Playing(row[ch]) \/ (ch \in Seated' /\ ch \in Attended'),
           \A ch \in running' : ch \in running \/ ch \in Seated',
           cmd'[c].pc \in {"loading", "binding"} /\ Playing(cmd'[c].copy)
              => cmd'[c].ch \in Seated' /\ cmd'[c].ch \in Attended',
           cmd'[c].pc \in {"exploring", "looping"} => cmd'[c].ch \in Seated',
           cmd'[c].pc \in {"ending", "closing"} => cmd'[c].copy.state = "LOBBY"
    PROVE  TableInv'
<1>1. NoInertChannel'
  BY DEF TableInv, NoInertChannel, Attended
<1>2. TableWasReady'
  <2> SUFFICES ASSUME NEW ch \in Channel, Playing(row'[ch]) \/ ch \in running'
               PROVE  ch \in Seated'
    BY DEF TableWasReady, Seated
  <2>1. Playing(row[ch]) \/ ch \in running => ch \in Seated
    BY DEF TableInv, TableWasReady, Seated
  <2> QED
    BY <2>1
<1>3. HandlersHonest'
  <2> SUFFICES ASSUME NEW d \in Command
               PROVE  /\ cmd'[d].pc \in {"loading", "binding"} /\ Playing(cmd'[d].copy)
                            => cmd'[d].ch \in Seated' /\ cmd'[d].ch \in Attended'
                      /\ cmd'[d].pc \in {"exploring", "looping"}
                            => cmd'[d].ch \in Seated'
                      /\ cmd'[d].pc \in {"ending", "closing"}
                            => cmd'[d].copy.state = "LOBBY"
    BY DEF HandlersHonest
  <2>1. CASE d = c
    BY <2>1
  <2>2. CASE d # c
    <3>1. cmd'[d] = cmd[d] /\ cmd[d].ch \in Channel
      BY <2>2, CopyType DEF TableInv
    <3> QED
      BY <3>1 DEF TableInv, HandlersHonest
  <2> QED
    BY <2>1, <2>2
<1> QED
  BY <1>1, <1>2, <1>3 DEF TableInv

\* The same for a step that leaves the tables and the loops alone.
LEMMA QuietStep ==
    ASSUME TableInv, TypeOK', NEW c \in Command,
           \A d \in Command \ {c} : cmd'[d] = cmd[d],
           UNCHANGED <<roster, row, ready, running, dark>>,
           ~At(c, "looping"),
           cmd'[c].pc \in {"loading", "binding"} /\ Playing(cmd'[c].copy)
              => cmd'[c].ch \in Seated /\ cmd'[c].ch \in Attended,
           cmd'[c].pc \in {"exploring", "looping"} => cmd'[c].ch \in Seated,
           cmd'[c].pc \in {"ending", "closing"} => cmd'[c].copy.state = "LOBBY"
    PROVE  TableInv'
<1>1. Seated' = Seated
  BY DEF Seated
<1>2. Attended \subseteq Attended'
  <2> SUFFICES ASSUME NEW ch \in Channel,
                      ch \in running \/ ch \in dark
                         \/ \E d \in Command : At(d, "looping") /\ cmd[d].ch = ch
               PROVE  ch \in running' \/ ch \in dark'
                         \/ \E d \in Command : At(d, "looping")' /\ cmd'[d].ch = ch
    BY DEF Attended
  <2>1. CASE ch \in running \/ ch \in dark
    BY <2>1
  <2>2. ASSUME NEW d \in Command, At(d, "looping"), cmd[d].ch = ch
        PROVE  At(d, "looping")' /\ cmd'[d].ch = ch
    BY <2>2 DEF At
  <2> QED
    BY <2>1, <2>2
<1>3. \A ch \in Channel : Playing(row'[ch]) => Playing(row[ch])
  OBVIOUS
<1> QED
  BY <1>1, <1>2, <1>3, HandlerStep

LEMMA TableInit == Init => TableInv
BY TypeInit, IdleType
   DEF Init, TableInv, NoInertChannel, TableWasReady, HandlersHonest, Playing, NoRow

\* What the invariant says of a channel that plays.
LEMMA PlayingFacts ==
    ASSUME TableInv, NEW ch \in Channel, Playing(row[ch])
    PROVE  ch \in Seated /\ ch \in Attended
BY DEF TableInv, NoInertChannel, TableWasReady, Seated, Attended

LEMMA TableStep == TableInv /\ [Next]_vars => TableInv'
<1> SUFFICES ASSUME TableInv, [Next]_vars PROVE TableInv'
  OBVIOUS
<1>0. TypeOK /\ TypeOK' /\ cmd \in [Command -> Cmd]
  BY TypeStep DEF TableInv, TypeOK
<1> USE <1>0
<1>1. ASSUME NEW c \in Command, NEW ch \in Channel, StartGame(c, ch)
      PROVE TableInv'
  <2>1. cmd' = [cmd EXCEPT ![c] = [Idle EXCEPT !.pc = "opening", !.ch = ch,
                                               !.copy = NoRow]]
    BY <1>1 DEF StartGame, Begin
  <2>2. cmd'[c].pc = "opening" /\ \A d \in Command \ {c} : cmd'[d] = cmd[d]
    BY <2>1, IdleType DEF Cmd
  <2> QED
    BY <1>1, <2>2, QuietStep DEF StartGame, Begin, At, tables, dm20
<1>2. ASSUME NEW c \in Command, OpenSession(c) PROVE TableInv'
  <2>1. cmd'[c].pc \in {"party", "idle"} /\ \A d \in Command \ {c} : cmd'[d] = cmd[d]
    BY <1>2, IdleType DEF OpenSession, Done, Cmd
  <2> QED
    BY <1>2, <2>1, QuietStep DEF OpenSession, At, tables, history
<1>3. ASSUME NEW c \in Command, StartParty(c) PROVE TableInv'
  <2>1. cmd'[c].pc \in {"storing", "idle"} /\ \A d \in Command \ {c} : cmd'[d] = cmd[d]
    BY <1>3, IdleType DEF StartParty, Goto, Done, Cmd
  <2> QED
    BY <1>3, <2>1, QuietStep DEF StartParty, At, tables, history
<1>4. ASSUME NEW c \in Command, NEW ch \in Channel, LoadAdventure(c, ch)
      PROVE TableInv'
  <2>1. cmd' = [cmd EXCEPT ![c] = [Idle EXCEPT !.pc = "loading", !.ch = ch,
                                               !.copy = row[ch]]]
    BY <1>4 DEF LoadAdventure, Begin
  <2>2. /\ cmd'[c].pc = "loading" /\ cmd'[c].ch = ch /\ cmd'[c].copy = row[ch]
        /\ \A d \in Command \ {c} : cmd'[d] = cmd[d]
    BY <2>1, IdleType DEF Cmd
  <2> QED
    BY <1>4, <2>2, PlayingFacts, QuietStep
       DEF LoadAdventure, Begin, At, tables, dm20
<1>5. ASSUME NEW c \in Command, CallLoad(c) PROVE TableInv'
  <2>1. CASE Goto(c, "binding")
    <3>1. /\ cmd'[c].pc = "binding" /\ cmd'[c].ch = cmd[c].ch
          /\ cmd'[c].copy = cmd[c].copy
          /\ \A d \in Command \ {c} : cmd'[d] = cmd[d]
      BY <2>1 DEF Goto, Cmd
    <3> QED
      BY <1>5, <3>1, QuietStep
         DEF CallLoad, At, Disturb, tables, TableInv, HandlersHonest
  <2>2. CASE Done(c)
    <3>1. cmd'[c].pc = "idle" /\ \A d \in Command \ {c} : cmd'[d] = cmd[d]
      BY <2>2, IdleType DEF Done
    <3> QED
      BY <1>5, <3>1, QuietStep DEF CallLoad, At, tables
  <2> QED
    BY <1>5, <2>1, <2>2 DEF CallLoad
<1>6. ASSUME NEW c \in Command, NEW ch \in Channel, EndGame(c, ch)
      PROVE TableInv'
  <2>1. cmd' = [cmd EXCEPT ![c] = [Idle EXCEPT !.pc = "ending", !.ch = ch,
                                     !.copy = [row[ch] EXCEPT !.state = "LOBBY"]]]
    BY <1>6 DEF EndGame, Begin
  <2>2. /\ cmd'[c].pc = "ending" /\ cmd'[c].copy.state = "LOBBY"
        /\ \A d \in Command \ {c} : cmd'[d] = cmd[d]
    BY <2>1, IdleType DEF Cmd, TypeOK, Row
  <2> QED
    BY <1>6, <2>2, QuietStep DEF EndGame, Begin, At, tables, dm20
<1>7. ASSUME NEW c \in Command, EndSession(c) PROVE TableInv'
  <2>1. /\ cmd'[c].pc = "closing" /\ cmd'[c].copy = cmd[c].copy
        /\ \A d \in Command \ {c} : cmd'[d] = cmd[d]
    BY <1>7 DEF EndSession, Goto, Cmd
  <2> QED
    BY <1>7, <2>1, QuietStep
       DEF EndSession, At, tables, history, TableInv, HandlersHonest
<1>8. ASSUME NEW c \in Command, NEW ch \in Channel, NEW u \in User,
             ClickReady(c, ch, u)
      PROVE TableInv'
  <2>1. cmd'[c].pc = "roster" /\ \A d \in Command \ {c} : cmd'[d] = cmd[d]
    BY <1>8, IdleType DEF ClickReady, Cmd
  <2> QED
    BY <1>8, <2>1, QuietStep DEF ClickReady, At, tables, dm20, history
<1>9. ASSUME NEW c \in Command, ReadReady(c) PROVE TableInv'
  <2>1. cmd'[c].pc \in {"saving", "idle"} /\ \A d \in Command \ {c} : cmd'[d] = cmd[d]
    BY <1>9, IdleType DEF ReadReady, Done, Cmd
  <2> QED
    BY <1>9, <2>1, QuietStep DEF ReadReady, At, tables, dm20, history
<1>10. ASSUME NEW c \in Command, NEW ch \in Channel, ch = cmd[c].ch,
              NEW r \in Row, ~Playing(r), At(c, "storing") \/ At(c, "closing"),
              row' = row \/ row' = [row EXCEPT ![ch] = r],
              Done(c), UNCHANGED <<ready, running, roster, dark>>
       PROVE TableInv'
  <2>1. cmd'[c].pc = "idle" /\ \A d \in Command \ {c} : cmd'[d] = cmd[d]
    BY <1>10, IdleType DEF Done
  <2>2. Seated' = Seated
    BY <1>10 DEF Seated
  <2>3. Attended \subseteq Attended'
    BY <1>10, <2>1 DEF Attended, At
  <2>4. \A d \in Channel : Playing(row'[d]) => Playing(row[d])
    BY <1>10 DEF TypeOK
  <2> QED
    BY <1>10, <2>1, <2>2, <2>3, <2>4, HandlerStep
<1>11. ASSUME NEW c \in Command, StoreGame(c) PROVE TableInv'
  <2> DEFINE r == [cmd[c].copy EXCEPT !.state = "LOBBY"]
  <2>1. r \in Row /\ ~Playing(r) /\ cmd[c].ch \in Channel
    BY CopyType DEF Row, States, Playing
  <2> QED
    BY <1>11, <2>1, <1>10 DEF StoreGame, dm20, history
<1>12. ASSUME NEW c \in Command, StoreEnd(c) PROVE TableInv'
  <2> DEFINE r == [cmd[c].copy EXCEPT !.sess = NoSession]
  <2>1. cmd[c].copy.state = "LOBBY" /\ cmd[c].copy \in Row /\ cmd[c].ch \in Channel
    BY <1>12, CopyType DEF StoreEnd, At, TableInv, HandlersHonest
  <2>2. r \in Row /\ ~Playing(r)
    <3>1. NoSession \in 0 .. MaxGames
      BY SessionAssumption DEF NoSession
    <3>2. r \in Row /\ r.state = "LOBBY"
      BY <2>1, <3>1 DEF Row
    <3> QED
      BY <3>2 DEF Playing
  <2>3. row' = row \/ row' = [row EXCEPT ![cmd[c].ch] = r]
    BY <1>12 DEF StoreEnd
  <2>4. At(c, "closing") /\ Done(c) /\ UNCHANGED <<ready, running, roster, dark>>
    BY <1>12 DEF StoreEnd, dm20
  <2> QED
    BY <2>1, <2>2, <2>3, <2>4, <1>10
<1>13. ASSUME NEW c \in Command, StoreModule(c) PROVE TableInv'
  <2> DEFINE ch == cmd[c].ch
             r  == [cmd[c].copy EXCEPT !.module = "bound"]
  <2>1. ch \in Channel /\ cmd[c].copy \in Row
    BY CopyType
  <2>2. cmd'[c].pc = "idle" /\ \A d \in Command \ {c} : cmd'[d] = cmd[d]
    BY <1>13, IdleType DEF StoreModule, Done
  <2>3. Seated' = Seated
    BY <1>13 DEF StoreModule, Seated, dm20
  <2>4. Attended \subseteq Attended'
    BY <1>13, <2>2 DEF StoreModule, Attended, At
  <2>5. Playing(r) => Playing(cmd[c].copy)
    BY <2>1 DEF Playing, Row
  <2>6. Playing(r) => ch \in Seated /\ ch \in Attended
    BY <1>13, <2>5 DEF StoreModule, At, TableInv, HandlersHonest
  <2>7. row' = row \/ row' = [row EXCEPT ![ch] = r]
    BY <1>13 DEF StoreModule
  <2>8. \A d \in Channel : Playing(row'[d])
           => Playing(row[d]) \/ (d \in Seated' /\ d \in Attended')
    BY <2>3, <2>4, <2>6, <2>7 DEF TypeOK
  <2>9. running' = running
    BY <1>13 DEF StoreModule
  <2> QED
    BY <2>2, <2>3, <2>4, <2>8, <2>9, HandlerStep
<1>14. ASSUME NEW c \in Command, SaveReady(c) PROVE TableInv'
  <2> DEFINE ch  == cmd[c].ch
             all == cmd[c].set \cup {cmd[c].user}
  <2>1. ch \in Channel
    BY CopyType
  <2>2. \/ /\ ready[ch] = {} /\ ready' = [ready EXCEPT ![ch] = all]
           /\ (roster[ch] \subseteq all /\ Goto(c, "exploring")) \/ Done(c)
        \/ ready' = ready /\ Done(c)
    BY <1>14 DEF SaveReady
  <2>3. UNCHANGED <<row, running, roster, dark>> /\ At(c, "saving")
    BY <1>14 DEF SaveReady, dm20, history
  <2>4. \A d \in Command \ {c} : cmd'[d] = cmd[d]
    BY <2>2 DEF Goto, Done
  <2>5. Seated \subseteq Seated'
    BY <2>1, <2>2, <2>3 DEF Seated, TypeOK
  <2>6. Attended \subseteq Attended'
    BY <2>3, <2>4 DEF Attended, At
  <2>7. CASE roster[ch] \subseteq all /\ Goto(c, "exploring")
                /\ ready' = [ready EXCEPT ![ch] = all]
    <3>1. cmd'[c].pc = "exploring" /\ cmd'[c].ch = ch
      BY <2>7 DEF Goto, Cmd
    <3>2. ch \in Seated'
      BY <2>1, <2>3, <2>7 DEF Seated, TypeOK
    <3> QED
      BY <2>3, <2>4, <2>5, <2>6, <3>1, <3>2, HandlerStep
  <2>8. CASE Done(c)
    <3>1. cmd'[c].pc = "idle"
      BY <2>8, IdleType DEF Done
    <3> QED
      BY <2>3, <2>4, <2>5, <2>6, <3>1, HandlerStep
  <2> QED
    BY <2>2, <2>7, <2>8
<1>15. ASSUME NEW c \in Command, Explore(c) PROVE TableInv'
  <2> DEFINE ch == cmd[c].ch
  <2>1. ch \in Channel /\ ch \in Seated /\ At(c, "exploring")
    BY <1>15, CopyType DEF Explore, At, TableInv, HandlersHonest
  <2>2. UNCHANGED <<ready, running, roster, dark>>
    BY <1>15 DEF Explore, dm20, history
  <2>3. Seated' = Seated
    BY <2>2 DEF Seated
  <2>4. CASE Goto(c, "looping") /\ row' = [row EXCEPT ![ch].state = "EXPLORATION"]
    <3>1. /\ cmd'[c].pc = "looping" /\ cmd'[c].ch = ch
          /\ \A d \in Command \ {c} : cmd'[d] = cmd[d]
      BY <2>4 DEF Goto, Cmd
    <3>2. Attended \subseteq Attended'
      BY <2>1, <2>2, <3>1 DEF Attended, At
    <3>3. ch \in Attended'
      BY <2>1, <3>1 DEF Attended, At
    <3>4. \A d \in Channel : Playing(row'[d])
             => Playing(row[d]) \/ (d \in Seated' /\ d \in Attended')
      BY <2>1, <2>3, <2>4, <3>3 DEF TypeOK
    <3> QED
      BY <2>1, <2>2, <2>3, <3>1, <3>2, <3>4, HandlerStep
  <2>5. CASE Done(c) /\ row' = row
    <3>1. cmd'[c].pc = "idle" /\ \A d \in Command \ {c} : cmd'[d] = cmd[d]
      BY <2>5, IdleType DEF Done
    <3> QED
      BY <2>1, <2>2, <2>5, <3>1, QuietStep DEF At
  <2> QED
    BY <1>15, <2>4, <2>5 DEF Explore
<1>16. ASSUME NEW c \in Command, StartLoop(c) PROVE TableInv'
  <2> DEFINE ch == cmd[c].ch
  <2>1. ch \in Channel /\ ch \in Seated
    BY <1>16, CopyType DEF StartLoop, At, TableInv, HandlersHonest
  <2>2. cmd'[c].pc = "idle" /\ \A d \in Command \ {c} : cmd'[d] = cmd[d]
    BY <1>16, IdleType DEF StartLoop, Done
  <2>3. Seated' = Seated
    BY <1>16 DEF StartLoop, Seated, tables, dm20
  <2>4. running' = running \cup {ch} /\ dark' = dark \ {ch} /\ row' = row
    BY <1>16 DEF StartLoop, tables
  <2>5. Attended \subseteq Attended'
    BY <2>1, <2>2, <2>4 DEF Attended, At
  <2> QED
    BY <2>1, <2>2, <2>3, <2>4, <2>5, HandlerStep
<1>17. ASSUME NEW ch \in Channel, LoopRecords(ch) PROVE TableInv'
  <2>1. UNCHANGED <<ready, running, roster, cmd, dark>> /\ ch \in running
    BY <1>17 DEF LoopRecords, dm20, history
  <2>2. Seated' = Seated /\ Attended' = Attended
    BY <2>1 DEF Seated, Attended, At
  <2>3. \A d \in Channel : Playing(row'[d]) => Playing(row[d]) \/ d = ch
    BY <1>17 DEF LoopRecords, TypeOK
  <2>4. NoInertChannel'
    BY <2>1, <2>3 DEF TableInv, NoInertChannel, At
  <2>5. TableWasReady'
    BY <2>1, <2>3 DEF TableInv, TableWasReady
  <2>6. HandlersHonest'
    BY <2>1, <2>2 DEF TableInv, HandlersHonest
  <2> QED
    BY <2>4, <2>5, <2>6 DEF TableInv
<1>18. ASSUME Restart PROVE TableInv'
  <2>1. \A c \in Command : cmd'[c].pc = "idle"
    BY <1>18, IdleType DEF Restart
  <2>2. UNCHANGED <<roster, row, ready>>
    BY <1>18 DEF Restart, tables, dm20
  <2>3. \A ch \in Channel : /\ ch \in running' => Playing(row[ch])
                            /\ Playing(row[ch]) => ch \in running' \/ ch \in dark'
    BY <1>18 DEF Restart
  <2>4. NoInertChannel'
    BY <2>2, <2>3 DEF NoInertChannel
  <2>5. TableWasReady'
    BY <2>2, <2>3 DEF TableInv, TableWasReady
  <2>6. HandlersHonest'
    BY <2>1 DEF HandlersHonest
  <2> QED
    BY <2>4, <2>5, <2>6 DEF TableInv
<1>19. ASSUME UNCHANGED vars PROVE TableInv'
  <2>1. UNCHANGED <<roster, row, ready, running, cmd, dark>>
    BY <1>19 DEF vars, tables, dm20, history
  <2>2. Seated' = Seated /\ Attended' = Attended
    BY <2>1 DEF Seated, Attended, At
  <2> QED
    BY <2>1, <2>2 DEF TableInv, NoInertChannel, TableWasReady, HandlersHonest, At
<1> QED
  BY <1>1, <1>2, <1>3, <1>4, <1>5, <1>6, <1>7, <1>8, <1>9, <1>11, <1>12, <1>13,
     <1>14, <1>15, <1>16, <1>17, <1>18, <1>19 DEF Next, Step

\* In every reachable state a channel that plays was ready to its last player
\* and has its loop, or will be given it, and no handler knows otherwise.
THEOREM SessionTableInvariant == Spec => []TableInv
BY TableInit, TableStep, PTL DEF Spec

\* A channel that plays is never silently inert, unless the bot started without
\* being able to read its table.
THEOREM SessionNoInertChannel == Spec => []NoInertChannel
<1>1. TableInv => NoInertChannel
  BY DEF TableInv
<1> QED
  BY <1>1, SessionTableInvariant, PTL

\* No table begins without its last player, whatever handlers, loops and
\* restarts do to its row.
THEOREM SessionTableWasReady == Spec => []TableWasReady
<1>1. TableInv => TableWasReady
  BY DEF TableInv
<1> QED
  BY <1>1, SessionTableInvariant, PTL

-----------------------------------------------------------------------------
(* The rows whose handlers come one after the other. *)

Rewrites(c, ch) == cmd[c].pc \in Rewriting /\ cmd[c].ch = ch

\* r, a row or the copy of one, tells of game g.
Mentions(r, g) == r.game = g \/ r.sess = g

Names(ch, g) ==
    \/ Mentions(row[ch], g)
    \/ \E c \in Command : Rewrites(c, ch) /\ Mentions(cmd[c].copy, g)

\* A game belongs to one channel, whatever its handlers write over one another,
\* and dm20 has done nothing for a game it has not begun.
OneHome ==
    \A g \in Game :
       /\ \A ch, other \in Channel : Names(ch, g) /\ Names(other, g) => ch = other
       /\ \A ch \in Channel : Names(ch, g) => g <= games
       /\ games < g => chapters[g] = 0

SameGame(r, s) == r.game = s.game /\ r.sess = s.sess /\ r.module = s.module

\* What a handler in flight carries.
CopyCurrent(c) ==
    LET r == row[cmd[c].ch]
        s == cmd[c].copy
    IN /\ cmd[c].pc \in {"loading", "binding", "ending", "closing"} => SameGame(s, r)
       /\ cmd[c].pc = "opening" => s = NoRow
       /\ cmd[c].pc \in {"party", "storing"} =>
             /\ s.sess \in live /\ s.sess # r.sess
             /\ s.module = "none" /\ s.game \in Game /\ chapters[s.game] = 0

SessionKept(ch) ==
    row[ch].sess # NoSession =>
       row[ch].sess \in live \/ \E c \in Command : At(c, "closing") /\ cmd[c].ch = ch

ChapterKept(ch) ==
    row[ch].game \in Game =>
       /\ chapters[row[ch].game] < 2
       /\ row[ch].module = "none" =>
             \/ chapters[row[ch].game] = 0
             \/ \E c \in Command : At(c, "binding") /\ cmd[c].ch = ch

\* A channel whose row one handler at a time rewrites.
InSequence(ch) ==
    /\ \A c, d \in Command : Rewrites(c, ch) /\ Rewrites(d, ch) => c = d
    /\ SessionKept(ch)
    /\ ChapterKept(ch)
    /\ \A c \in Command : Rewrites(c, ch) => CopyCurrent(c)

SequenceInv ==
    /\ TypeOK
    /\ OneHome
    /\ \A ch \in Channel \ disturbed : InSequence(ch)

LEMMA RowFields ==
    ASSUME TypeOK, NEW ch \in Channel
    PROVE  /\ row[ch].game \in 0 .. MaxGames /\ row[ch].sess \in 0 .. MaxGames
           /\ row[ch].game \in Game <=> row[ch].game # 0
           /\ row[ch].sess \in Game <=> row[ch].sess # NoSession
<1>1. row[ch] \in Row
  BY DEF TypeOK
<1>2. row[ch].game \in 0 .. MaxGames /\ row[ch].sess \in 0 .. MaxGames
  BY <1>1 DEF Row
<1> QED
  BY <1>2, SessionAssumption DEF Game, NoSession

\* A channel whose row and handlers a step leaves alone stays in sequence.
LEMMA FrameStep ==
    ASSUME TypeOK, NEW ch \in Channel, InSequence(ch),
           SameGame(row'[ch], row[ch]),
           \A d \in Command : Rewrites(d, ch) \/ Rewrites(d, ch)' => cmd'[d] = cmd[d],
           \A g \in Game : Names(ch, g)
              => chapters'[g] = chapters[g] /\ (g \in live => g \in live')
    PROVE  InSequence(ch)'
<1>0. \A d \in Command : Rewrites(d, ch) <=> Rewrites(d, ch)'
  BY DEF Rewrites
<1>1. \A c, d \in Command : Rewrites(c, ch)' /\ Rewrites(d, ch)' => c = d
  BY <1>0 DEF InSequence
<1>2. \A d \in Command, phase \in Rewriting :
         At(d, phase) /\ cmd[d].ch = ch <=> At(d, phase)' /\ cmd'[d].ch = ch
  BY <1>0 DEF At, Rewrites
<1>3. "closing" \in Rewriting /\ "binding" \in Rewriting
  BY DEF Rewriting
<1>4. SessionKept(ch)'
  <2>1. row'[ch].sess = row[ch].sess
    BY DEF SameGame
  <2>2. row[ch].sess # NoSession => row[ch].sess \in Game /\ Names(ch, row[ch].sess)
    BY RowFields DEF Names, Mentions
  <2> QED
    BY <1>2, <1>3, <2>1, <2>2 DEF InSequence, SessionKept
<1>5. ChapterKept(ch)'
  <2>1. row'[ch].game = row[ch].game /\ row'[ch].module = row[ch].module
    BY DEF SameGame
  <2>2. row[ch].game \in Game => chapters'[row[ch].game] = chapters[row[ch].game]
    BY DEF Names, Mentions
  <2> QED
    BY <1>2, <1>3, <2>1, <2>2 DEF InSequence, ChapterKept
<1>6. ASSUME NEW c \in Command, Rewrites(c, ch)' PROVE CopyCurrent(c)'
  <2>1. Rewrites(c, ch) /\ cmd'[c] = cmd[c] /\ cmd[c].ch = ch /\ CopyCurrent(c)
    BY <1>0, <1>6 DEF InSequence, Rewrites
  <2>2. SameGame(cmd[c].copy, row[ch]) => SameGame(cmd[c].copy, row'[ch])
    BY DEF SameGame
  <2>3. \A g \in Game : Mentions(cmd[c].copy, g)
           => chapters'[g] = chapters[g] /\ (g \in live => g \in live')
    BY <2>1 DEF Names
  <2>4. cmd[c].pc \in {"party", "storing"} =>
           /\ cmd[c].copy.sess \in live' /\ cmd[c].copy.sess # row'[ch].sess
           /\ cmd[c].copy.module = "none" /\ cmd[c].copy.game \in Game
           /\ chapters'[cmd[c].copy.game] = 0
    <3>1. live \subseteq Game
      BY DEF TypeOK
    <3> QED
      BY <2>1, <2>3, <3>1 DEF CopyCurrent, Mentions, SameGame
  <2> QED
    BY <2>1, <2>2, <2>4 DEF CopyCurrent
<1> QED
  BY <1>1, <1>4, <1>5, <1>6 DEF InSequence

\* What the only handler that rewrites ch's row has to show.
LEMMA SoloStep ==
    ASSUME NEW ch \in Channel, NEW c \in Command,
           \A d \in Command \ {c} : cmd'[d] = cmd[d] /\ ~Rewrites(d, ch),
           row'[ch].sess # NoSession
              => row'[ch].sess \in live' \/ (At(c, "closing")' /\ cmd'[c].ch = ch),
           row'[ch].game \in Game =>
              /\ chapters'[row'[ch].game] < 2
              /\ row'[ch].module = "none" =>
                    \/ chapters'[row'[ch].game] = 0
                    \/ At(c, "binding")' /\ cmd'[c].ch = ch,
           Rewrites(c, ch)' => CopyCurrent(c)'
    PROVE  InSequence(ch)'
<1>1. \A d \in Command \ {c} : ~Rewrites(d, ch)'
  BY DEF Rewrites
<1>2. SessionKept(ch)' /\ ChapterKept(ch)'
  BY DEF SessionKept, ChapterKept
<1> QED
  BY <1>1, <1>2 DEF InSequence

\* Games are mentioned where they were.
LEMMA HomeStep ==
    ASSUME OneHome, games' = games,
           \A g \in Game : games < g => chapters'[g] = chapters[g],
           \A ch \in Channel, g \in Game : Names(ch, g)' => Names(ch, g)
    PROVE  OneHome'
BY DEF OneHome

LEMMA NamesStep ==
    ASSUME NEW c \in Command, \A d \in Command \ {c} : cmd'[d] = cmd[d],
           \A ch \in Channel, g \in Game : Mentions(row'[ch], g) => Names(ch, g),
           \A ch \in Channel, g \in Game :
              Rewrites(c, ch)' /\ Mentions(cmd'[c].copy, g) => Names(ch, g)
    PROVE  \A ch \in Channel, g \in Game : Names(ch, g)' => Names(ch, g)
BY DEF Names, Rewrites

\* A step of handler c, on channel k.
LEMMA SequenceStep ==
    ASSUME SequenceInv, TypeOK', OneHome', NEW c \in Command, NEW k \in Channel,
           \A d \in Command \ {c} : cmd'[d] = cmd[d],
           disturbed \subseteq disturbed',
           \A ch \in Channel \ {k} :
              ~Rewrites(c, ch) /\ ~Rewrites(c, ch)' /\ row'[ch] = row[ch],
           \A g \in Game : Names(k, g)
              \/ (chapters'[g] = chapters[g] /\ (g \in live => g \in live')),
           k \notin disturbed' => InSequence(k)'
    PROVE  SequenceInv'
<1> SUFFICES ASSUME NEW ch \in Channel \ disturbed', ch # k PROVE InSequence(ch)'
  BY DEF SequenceInv
<1>1. InSequence(ch) /\ SameGame(row'[ch], row[ch])
  BY DEF SequenceInv, SameGame
<1>2. \A d \in Command : Rewrites(d, ch) \/ Rewrites(d, ch)' => cmd'[d] = cmd[d]
  OBVIOUS
<1>3. \A g \in Game : Names(ch, g)
         => chapters'[g] = chapters[g] /\ (g \in live => g \in live')
  BY DEF SequenceInv, OneHome
<1> QED
  BY <1>1, <1>2, <1>3, FrameStep DEF SequenceInv

\* A step that is nothing to the handlers that rewrite a row.
LEMMA AsideStep ==
    ASSUME SequenceInv, TypeOK',
           UNCHANGED <<live, chapters, games>>, disturbed \subseteq disturbed',
           \A ch \in Channel : SameGame(row'[ch], row[ch]),
           \A d \in Command, ch \in Channel :
              /\ Rewrites(d, ch)' => cmd'[d] = cmd[d]
              /\ Rewrites(d, ch) /\ ch \notin disturbed' => cmd'[d] = cmd[d]
    PROVE  SequenceInv'
<1>1. OneHome'
  <2>1. \A ch \in Channel, g \in Game : Mentions(row'[ch], g) => Mentions(row[ch], g)
    BY DEF Mentions, SameGame
  <2>2. \A ch \in Channel, g \in Game : Names(ch, g)' => Names(ch, g)
    BY <2>1 DEF Names, Rewrites
  <2> QED
    BY <2>2, HomeStep DEF SequenceInv
<1>2. ASSUME NEW ch \in Channel \ disturbed' PROVE InSequence(ch)'
  BY FrameStep DEF SequenceInv
<1> QED
  BY <1>1, <1>2 DEF SequenceInv

LEMMA SequenceInit == Init => SequenceInv
<1> SUFFICES ASSUME Init PROVE SequenceInv
  OBVIOUS
<1>1. TypeOK /\ \A c \in Command : cmd[c].pc = "idle"
  BY TypeInit, IdleType DEF Init
<1>2. \A ch \in Channel : row[ch] = NoRow /\ \A c \in Command : ~Rewrites(c, ch)
  BY <1>1 DEF Init, Rewrites, Rewriting
<1>3. \A ch \in Channel, g \in Game : ~Names(ch, g)
  BY <1>2, SessionAssumption DEF Names, Mentions, NoRow, NoSession, Game
<1>4. \A ch \in Channel : InSequence(ch)
  BY <1>2, SessionAssumption
     DEF InSequence, SessionKept, ChapterKept, NoRow, NoSession, Game
<1> QED
  BY <1>1, <1>3, <1>4 DEF Init, SequenceInv, OneHome

\* A handler begins: the row is nobody else's, or is disturbed.
LEMMA BeginStep ==
    ASSUME SequenceInv, TypeOK', NEW c \in Command, NEW ch \in Channel,
           NEW phase \in {"opening", "loading", "ending"}, NEW copy \in Row,
           Begin(c, ch, phase, copy),
           IF phase = "opening" THEN copy = NoRow ELSE SameGame(copy, row[ch]),
           UNCHANGED <<row, live, chapters, games>>
    PROVE  SequenceInv'
<1>1. /\ At(c, "idle") /\ \A d \in Command \ {c} : cmd'[d] = cmd[d]
      /\ cmd'[c].pc = phase /\ cmd'[c].ch = ch /\ cmd'[c].copy = copy
  <2>1. cmd' = [cmd EXCEPT ![c] = [Idle EXCEPT !.pc = phase, !.ch = ch, !.copy = copy]]
    BY DEF Begin
  <2> QED
    BY <2>1, IdleType DEF Begin, SequenceInv, TypeOK, Cmd
<1>2. \A d \in Channel : ~Rewrites(c, d)
  BY <1>1 DEF At, Rewrites, Rewriting
<1>3. OneHome'
  <2>1. \A d \in Channel, g \in Game : Mentions(copy, g) => Mentions(row[ch], g)
    BY SessionAssumption DEF Mentions, SameGame, NoRow, NoSession, Game
  <2>2. \A d \in Channel, g \in Game : Names(d, g)' => Names(d, g)
    BY <1>1, <2>1, NamesStep DEF Names, Rewrites
  <2> QED
    BY <2>2, HomeStep DEF SequenceInv
<1>4. disturbed \subseteq disturbed'
  BY DEF Begin
<1>5. ASSUME ch \notin disturbed' PROVE InSequence(ch)'
  <2>1. /\ InSequence(ch)
        /\ \A d \in Command : ~Rewrites(d, ch)
    BY <1>4, <1>5 DEF SequenceInv, Begin, Rewrites
  <2>2. \A d \in Command, p \in {"closing", "binding"} : ~(At(d, p) /\ cmd[d].ch = ch)
    BY <2>1 DEF At, Rewrites, Rewriting
  <2>3. CopyCurrent(c)'
    BY <1>1 DEF CopyCurrent
  <2> QED
    BY <1>1, <2>1, <2>2, <2>3, SoloStep DEF InSequence, SessionKept, ChapterKept
<1>6. \A d \in Channel \ {ch} : ~Rewrites(c, d)'
  BY <1>1 DEF Rewrites
<1> QED
  BY <1>1, <1>2, <1>3, <1>4, <1>5, <1>6, SequenceStep

\* What is known of a handler on its way, and of the row it rewrites.
LEMMA SoloFacts ==
    ASSUME SequenceInv, NEW c \in Command, cmd[c].pc \in Rewriting
    PROVE  /\ cmd[c].ch \in Channel /\ Rewrites(c, cmd[c].ch)
           /\ \A ch \in Channel \ {cmd[c].ch} : ~Rewrites(c, ch)
           /\ \A g \in Game : Mentions(cmd[c].copy, g) => Names(cmd[c].ch, g)
           /\ cmd[c].ch \notin disturbed =>
                 /\ InSequence(cmd[c].ch) /\ CopyCurrent(c)
                 /\ \A d \in Command \ {c} : ~Rewrites(d, cmd[c].ch)
                 /\ \A d \in Command \ {c}, phase \in Rewriting :
                       ~(At(d, phase) /\ cmd[d].ch = cmd[c].ch)
<1>1. cmd[c].ch \in Channel /\ Rewrites(c, cmd[c].ch)
  BY CopyType DEF SequenceInv, Rewrites
<1> QED
  BY <1>1 DEF SequenceInv, InSequence, Rewrites, Names, At

\* Of the row a handler rewrites alone, no other handler answers for anything.
LEMMA SoloRow ==
    ASSUME SequenceInv, NEW c \in Command, NEW k \in Channel \ disturbed,
           k = cmd[c].ch, cmd[c].pc \in Rewriting
    PROVE  /\ \A d \in Command \ {c} : ~Rewrites(d, k)
           /\ CopyCurrent(c)
           /\ row[k].sess # NoSession /\ ~At(c, "closing") => row[k].sess \in live
           /\ row[k].game \in Game =>
                 /\ chapters[row[k].game] < 2
                 /\ row[k].module = "none" /\ ~At(c, "binding")
                       => chapters[row[k].game] = 0
<1>1. /\ InSequence(k) /\ CopyCurrent(c)
      /\ \A d \in Command \ {c} : ~Rewrites(d, k)
      /\ \A d \in Command \ {c}, phase \in Rewriting : ~(At(d, phase) /\ cmd[d].ch = k)
  BY SoloFacts
<1>2. "closing" \in Rewriting /\ "binding" \in Rewriting
  BY DEF Rewriting
<1> QED
  BY <1>1, <1>2 DEF InSequence, SessionKept, ChapterKept

LEMMA SequenceNext == SequenceInv /\ [Next]_vars => SequenceInv'
<1> SUFFICES ASSUME SequenceInv, [Next]_vars PROVE SequenceInv'
  OBVIOUS
<1>0. /\ TypeOK /\ TypeOK' /\ cmd \in [Command -> Cmd] /\ OneHome
      /\ row \in [Channel -> Row] /\ chapters \in [Game -> 0 .. 2]
      /\ live \subseteq Game /\ NoSession = 0
  BY TypeStep DEF SequenceInv, TypeOK, NoSession
<1> USE <1>0
<1>1. ASSUME NEW c \in Command, NEW ch \in Channel, StartGame(c, ch)
      PROVE SequenceInv'
  <2>1. NoRow \in Row
    BY SessionAssumption DEF NoRow, Row, States, NoSession
  <2> QED
    BY <1>1, <2>1, BeginStep DEF StartGame, tables, dm20
<1>2. ASSUME NEW c \in Command, NEW ch \in Channel, LoadAdventure(c, ch)
      PROVE SequenceInv'
  BY <1>2, BeginStep DEF LoadAdventure, SameGame, tables, dm20
<1>3. ASSUME NEW c \in Command, NEW ch \in Channel, EndGame(c, ch)
      PROVE SequenceInv'
  <2>1. /\ [row[ch] EXCEPT !.state = "LOBBY"] \in Row
        /\ SameGame([row[ch] EXCEPT !.state = "LOBBY"], row[ch])
    BY DEF Row, States, SameGame
  <2> QED
    BY <1>3, <2>1, BeginStep DEF EndGame, tables, dm20
\* A handler ends, and nothing but its copy is forgotten.
<1>4. ASSUME NEW c \in Command, cmd[c].pc \in Rewriting, Done(c),
             UNCHANGED <<row, live, chapters, games>>,
             disturbed \subseteq disturbed',
             cmd[c].pc \in {"binding", "closing"} => cmd[c].ch \in disturbed'
      PROVE SequenceInv'
  <2>1. cmd'[c].pc = "idle" /\ \A d \in Command \ {c} : cmd'[d] = cmd[d]
    BY <1>4, IdleType DEF Done
  <2>2. \A ch \in Channel : ~Rewrites(c, ch)'
    BY <2>1 DEF Rewrites, Rewriting
  <2>3. OneHome'
    <3>1. \A ch \in Channel, g \in Game : Names(ch, g)' => Names(ch, g)
      BY <1>4, <2>1, <2>2 DEF Names, Rewrites
    <3> QED
      BY <1>4, <3>1, HomeStep
  <2>6. PICK k \in Channel : k = cmd[c].ch
    BY <1>4, SoloFacts
  <2>4. ASSUME k \notin disturbed' PROVE InSequence(k)'
    <3>1. /\ k \notin disturbed /\ k \in Channel /\ InSequence(k)
          /\ \A d \in Command \ {c} : ~Rewrites(d, k)
          /\ \A d \in Command \ {c}, phase \in Rewriting :
                ~(At(d, phase) /\ cmd[d].ch = k)
      BY <1>4, <2>6, <2>4, SoloFacts
    <3>2. \A d \in Command, phase \in {"closing", "binding"} :
             ~(At(d, phase) /\ cmd[d].ch = k)
      BY <1>4, <2>6, <2>4, <3>1 DEF At, Rewriting
    <3>3. row'[k].sess # NoSession => row'[k].sess \in live'
      BY <1>4, <3>1, <3>2 DEF InSequence, SessionKept
    <3>4. row'[k].game \in Game =>
             /\ chapters'[row'[k].game] < 2
             /\ row'[k].module = "none" => chapters'[row'[k].game] = 0
      BY <1>4, <3>1, <3>2 DEF InSequence, ChapterKept
    <3> QED
      BY <2>1, <2>2, <3>1, <3>3, <3>4, SoloStep
  <2>5. /\ \A ch \in Channel \ {k} : ~Rewrites(c, ch)
    BY <1>4, <2>6, SoloFacts
  <2> QED
    BY <1>4, <2>1, <2>2, <2>3, <2>4, <2>5, SequenceStep
<1>5. ASSUME NEW c \in Command, NEW k \in Channel, k = cmd[c].ch, OpenSession(c)
      PROVE SequenceInv'
  <2>1. CASE Done(c) /\ UNCHANGED <<games, live>>
    BY <1>5, <2>1, <1>4 DEF OpenSession, At, Rewriting, tables, history
  <2>2. CASE /\ games < MaxGames
             /\ games' = games + 1
             /\ live' = live \cup {games + 1}
             /\ cmd' = [cmd EXCEPT ![c].pc = "party",
                                   ![c].copy.game = games + 1,
                                   ![c].copy.sess = games + 1]
    <3> DEFINE g == games + 1
    <3>0. UNCHANGED <<row, chapters, disturbed>> /\ cmd[c].pc = "opening"
      BY <1>5 DEF OpenSession, At, tables, history
    <3>1. g \in Game /\ g # 0 /\ chapters[g] = 0
      BY <2>2 DEF TypeOK, Game, OneHome
    <3>2. /\ cmd'[c].pc = "party" /\ cmd'[c].ch = k
          /\ cmd'[c].copy.game = g /\ cmd'[c].copy.sess = g
          /\ cmd'[c].copy.module = cmd[c].copy.module
          /\ \A d \in Command \ {c} : cmd'[d] = cmd[d]
      BY <1>5, <2>2, CopyType DEF Cmd, Row
    <3>3. k \in Channel /\ Rewrites(c, k) /\ \A ch \in Channel \ {k} : ~Rewrites(c, ch)
      BY <1>5, <3>0, SoloFacts DEF Rewriting
    <3>4. \A ch \in Channel, h \in Game : Names(ch, h)' => Names(ch, h) \/ (ch = k /\ h = g)
      BY <3>0, <3>2 DEF Names, Rewrites, Mentions
    <3>5. \A ch \in Channel : ~Names(ch, g)
      BY <3>1 DEF OneHome, TypeOK
    <3>6. OneHome'
      <4>1. \A h \in Game, ch \in Channel : Names(ch, h) => h <= games
        BY DEF OneHome
      <4>2. \A h \in Game : games' < h => chapters'[h] = 0
        BY <2>2, <3>0 DEF OneHome, TypeOK, Game
      <4>3. \A h \in Game, ch \in Channel : Names(ch, h)' => h <= games'
        BY <2>2, <3>4, <4>1 DEF TypeOK, Game
      <4>4. \A h \in Game : \A ch, other \in Channel :
               Names(ch, h)' /\ Names(other, h)' => ch = other
        BY <3>4, <3>5 DEF OneHome
      <4> QED
        BY <4>2, <4>3, <4>4 DEF OneHome
    <3>7. ASSUME k \notin disturbed' PROVE InSequence(k)'
      <4>1. /\ InSequence(k) /\ CopyCurrent(c)
            /\ \A d \in Command \ {c} : ~Rewrites(d, k)
            /\ \A d \in Command, phase \in {"closing", "binding"} :
                  ~(At(d, phase) /\ cmd[d].ch = k)
        BY <1>5, <3>0, <3>7, SoloFacts DEF At, Rewriting
      <4>2. cmd'[c].copy.module = "none" /\ row[k].sess # g
        BY <1>5, <3>0, <3>1, <3>2, <3>3, <3>5, <4>1 DEF CopyCurrent, NoRow, Names, Mentions
      <4>3. CopyCurrent(c)'
        BY <1>5, <2>2, <3>0, <3>1, <3>2, <4>2 DEF CopyCurrent
      <4> QED
        BY <2>2, <3>0, <3>2, <3>3, <4>1, <4>3, SoloStep
           DEF InSequence, SessionKept, ChapterKept
    <3>8. \A ch \in Channel \ {k} : ~Rewrites(c, ch)'
      BY <3>2 DEF Rewrites
    <3> QED
      BY <2>2, <3>0, <3>2, <3>3, <3>6, <3>7, <3>8, SequenceStep
  <2> QED
    BY <1>5, <2>1, <2>2 DEF OpenSession
\* A handler goes on to its next phase, and its row stays.
<1>6. ASSUME NEW c \in Command, cmd[c].pc \in Rewriting, NEW phase \in Rewriting,
             Goto(c, phase)
      PROVE  /\ cmd'[c].pc = phase /\ cmd'[c].ch = cmd[c].ch
             /\ cmd'[c].copy = cmd[c].copy
             /\ \A d \in Command \ {c} : cmd'[d] = cmd[d]
             /\ \A ch \in Channel : Rewrites(c, ch)' = Rewrites(c, ch)
             /\ UNCHANGED row =>
                   \A ch \in Channel, g \in Game : Names(ch, g)' => Names(ch, g)
  <2>1. /\ cmd'[c].pc = phase /\ cmd'[c].ch = cmd[c].ch
        /\ cmd'[c].copy = cmd[c].copy
        /\ \A d \in Command \ {c} : cmd'[d] = cmd[d]
    BY <1>6 DEF Goto, Cmd
  <2>2. \A ch \in Channel, d \in Command : Rewrites(d, ch)' = Rewrites(d, ch)
    BY <1>6, <2>1 DEF Rewrites
  <2> QED
    BY <2>1, <2>2 DEF Names
<1>7. ASSUME NEW c \in Command, NEW k \in Channel, k = cmd[c].ch, StartParty(c)
      PROVE SequenceInv'
  <2>1. /\ UNCHANGED <<row, games, chapters, disturbed>> /\ cmd[c].pc = "party"
        /\ cmd[c].pc \in Rewriting
    BY <1>7 DEF StartParty, At, Rewriting, tables, history
  <2>2. \A ch \in Channel \ {k} : ~Rewrites(c, ch)
    BY <1>7 DEF Rewrites
  <2>3. CASE Goto(c, "storing") /\ UNCHANGED live
    <3>1. /\ cmd'[c].pc = "storing" /\ cmd'[c].ch = k /\ cmd'[c].copy = cmd[c].copy
          /\ \A d \in Command \ {c} : cmd'[d] = cmd[d]
          /\ \A ch \in Channel : Rewrites(c, ch)' = Rewrites(c, ch)
          /\ \A ch \in Channel, g \in Game : Names(ch, g)' => Names(ch, g)
      BY <1>6, <1>7, <2>1, <2>3 DEF Rewriting
    <3>2. OneHome'
      BY <2>1, <3>1, HomeStep
    <3>3. ASSUME k \notin disturbed PROVE InSequence(k)'
      <4>1. CopyCurrent(c)'
        BY <1>7, <2>1, <2>3, <3>1, <3>3, SoloRow DEF CopyCurrent
      <4> QED
        BY <1>7, <2>1, <2>3, <3>1, <3>3, <4>1, SoloRow, SoloStep DEF At
    <3> QED
      BY <2>1, <2>2, <2>3, <3>1, <3>2, <3>3, SequenceStep
  <2>4. CASE Done(c) /\ live' \in {live, live \ {cmd[c].copy.sess}}
    <3>1. cmd'[c].pc = "idle" /\ \A d \in Command \ {c} : cmd'[d] = cmd[d]
      BY <2>4, IdleType DEF Done
    <3>2. \A ch \in Channel : ~Rewrites(c, ch)'
      BY <3>1 DEF Rewrites, Rewriting
    <3>3. OneHome'
      <4>1. \A ch \in Channel, g \in Game : Names(ch, g)' => Names(ch, g)
        BY <2>1, <3>1, <3>2 DEF Names, Rewrites
      <4> QED
        BY <2>1, <4>1, HomeStep
    <3>4. \A g \in Game : Names(k, g) \/ (g \in live => g \in live')
      BY <1>7, <2>1, <2>4, SoloFacts DEF Mentions
    <3>5. ASSUME k \notin disturbed PROVE InSequence(k)'
      <4>1. /\ \A d \in Command \ {c} : ~Rewrites(d, k)
            /\ row[k].sess # NoSession => row[k].sess \in live
            /\ row[k].sess # cmd[c].copy.sess
            /\ row[k].game \in Game =>
                  /\ chapters[row[k].game] < 2
                  /\ row[k].module = "none" => chapters[row[k].game] = 0
        BY <1>7, <2>1, <3>5, SoloRow DEF CopyCurrent, At
      <4> QED
        BY <2>1, <2>4, <3>1, <3>2, <4>1, SoloStep
    <3> QED
      BY <2>1, <2>2, <3>1, <3>2, <3>3, <3>4, <3>5, SequenceStep
  <2> QED
    BY <1>7, <2>3, <2>4 DEF StartParty
\* A handler stores its row, which tells of no other game than its copy, and ends.
<1>8. ASSUME NEW c \in Command, NEW k \in Channel, k = cmd[c].ch,
             cmd[c].pc \in {"storing", "binding", "closing"},
             NEW r \in Row, row' = [row EXCEPT ![k] = r], Done(c),
             UNCHANGED <<live, games, chapters, disturbed>>,
             \A g \in Game : Mentions(r, g) => Mentions(cmd[c].copy, g),
             k \notin disturbed =>
                /\ r.sess # NoSession => r.sess \in live
                /\ r.game \in Game =>
                      /\ chapters[r.game] < 2
                      /\ r.module = "none" => chapters[r.game] = 0
      PROVE SequenceInv'
  <2>1. cmd'[c].pc = "idle" /\ \A d \in Command \ {c} : cmd'[d] = cmd[d]
    BY <1>8, IdleType DEF Done
  <2>2. \A ch \in Channel : ~Rewrites(c, ch)'
    BY <2>1 DEF Rewrites, Rewriting
  <2>3. /\ \A ch \in Channel \ {k} : ~Rewrites(c, ch) /\ row'[ch] = row[ch]
        /\ row'[k] = r /\ cmd[c].pc \in Rewriting
    BY <1>8 DEF Rewrites, Rewriting
  <2>4. OneHome'
    <3>1. \A ch \in Channel, g \in Game : Mentions(row'[ch], g) => Names(ch, g)
      BY <1>8, <2>3, SoloFacts DEF Names
    <3>2. \A ch \in Channel, g \in Game : Names(ch, g)' => Names(ch, g)
      BY <2>1, <2>2, <3>1, NamesStep
    <3> QED
      BY <1>8, <3>2, HomeStep
  <2>5. ASSUME k \notin disturbed PROVE InSequence(k)'
    BY <1>8, <2>1, <2>2, <2>3, <2>5, SoloRow, SoloStep
  <2> QED
    BY <1>8, <2>1, <2>2, <2>3, <2>4, <2>5, SequenceStep
<1>9. ASSUME NEW c \in Command, NEW k \in Channel, k = cmd[c].ch, StoreGame(c)
      PROVE SequenceInv'
  <2>1. /\ cmd[c].pc = "storing" /\ cmd[c].pc \in Rewriting /\ Done(c)
        /\ UNCHANGED <<live, games, chapters, disturbed>>
    BY <1>9 DEF StoreGame, At, Rewriting, dm20, history
  <2>2. CASE row' = [row EXCEPT ![k] = [cmd[c].copy EXCEPT !.state = "LOBBY"]]
    <3> DEFINE r == [cmd[c].copy EXCEPT !.state = "LOBBY"]
    <3>1. /\ r \in Row /\ r.game = cmd[c].copy.game /\ r.sess = cmd[c].copy.sess
          /\ r.module = cmd[c].copy.module
      BY CopyType DEF Row, States
    <3>2. k \notin disturbed =>
             /\ r.sess \in live
             /\ r.game \in Game => chapters[r.game] = 0
      BY <1>9, <2>1, <3>1, SoloRow DEF CopyCurrent
    <3>3. row' = [row EXCEPT ![k] = r]
      BY <2>2
    <3> HIDE DEF r
    <3>4. \A g \in Game : Mentions(r, g) => Mentions(cmd[c].copy, g)
      BY <3>1 DEF Mentions
    <3>5. k \notin disturbed /\ r.game \in Game => chapters[r.game] < 2
      BY <3>2
    <3> QED
      BY <1>8, <1>9, <2>1, <3>1, <3>2, <3>3, <3>4, <3>5
  <2>3. CASE UNCHANGED row
    BY <1>4, <2>1, <2>3
  <2> QED
    BY <1>9, <2>2, <2>3 DEF StoreGame
<1>10. ASSUME NEW c \in Command, NEW k \in Channel, k = cmd[c].ch, StoreModule(c)
       PROVE SequenceInv'
  <2>1. /\ cmd[c].pc = "binding" /\ cmd[c].pc \in Rewriting /\ Done(c)
        /\ UNCHANGED <<live, games, chapters>>
    BY <1>10 DEF StoreModule, At, Rewriting, dm20
  <2>2. CASE /\ row' = [row EXCEPT ![k] = [cmd[c].copy EXCEPT !.module = "bound"]]
             /\ UNCHANGED disturbed
    <3> DEFINE r == [cmd[c].copy EXCEPT !.module = "bound"]
    <3>1. /\ r \in Row /\ r.game = cmd[c].copy.game /\ r.sess = cmd[c].copy.sess
          /\ r.module = "bound"
      BY CopyType DEF Row
    <3>2. k \notin disturbed =>
             /\ r.sess # NoSession => r.sess \in live
             /\ r.game \in Game => chapters[r.game] < 2
      BY <1>10, <2>1, <3>1, SoloRow DEF CopyCurrent, SameGame, At
    <3> QED
      BY <1>8, <1>10, <2>1, <2>2, <3>1, <3>2 DEF Mentions
  <2>3. CASE UNCHANGED row /\ Disturb(k)
    BY <1>4, <1>10, <2>1, <2>3 DEF Disturb
  <2> QED
    BY <1>10, <2>2, <2>3 DEF StoreModule
<1>11. ASSUME NEW c \in Command, NEW k \in Channel, k = cmd[c].ch, StoreEnd(c)
       PROVE SequenceInv'
  <2>1. /\ cmd[c].pc = "closing" /\ cmd[c].pc \in Rewriting /\ Done(c)
        /\ UNCHANGED <<live, games, chapters>>
    BY <1>11 DEF StoreEnd, At, Rewriting, dm20
  <2>2. CASE /\ row' = [row EXCEPT ![k] = [cmd[c].copy EXCEPT !.sess = NoSession]]
             /\ UNCHANGED disturbed
    <3> DEFINE r == [cmd[c].copy EXCEPT !.sess = NoSession]
    <3>1. /\ r \in Row /\ r.game = cmd[c].copy.game /\ r.sess = NoSession
          /\ r.module = cmd[c].copy.module
      <4>1. NoSession \in 0 .. MaxGames
        BY SessionAssumption
      <4>2. cmd[c].copy \in Row
        BY CopyType
      <4> QED
        BY <4>1, <4>2 DEF Row
    <3>3. NoSession \notin Game
      BY SessionAssumption DEF Game
    <3>2. k \notin disturbed /\ r.game \in Game =>
                /\ chapters[r.game] < 2
                /\ r.module = "none" => chapters[r.game] = 0
      BY <1>11, <2>1, <3>1, SoloRow DEF CopyCurrent, SameGame, At
    <3>4. \A g \in Game : Mentions(r, g) => Mentions(cmd[c].copy, g)
      BY <3>1, <3>3 DEF Mentions
    <3>5. row' = [row EXCEPT ![k] = r] /\ UNCHANGED disturbed
      BY <2>2
    <3> HIDE DEF r
    <3> QED
      BY <1>8, <1>11, <2>1, <3>1, <3>2, <3>4, <3>5
  <2>3. CASE UNCHANGED row /\ Disturb(k)
    BY <1>4, <1>11, <2>1, <2>3 DEF Disturb
  <2> QED
    BY <1>11, <2>2, <2>3 DEF StoreEnd
\* CallLoad, whether dm20 populates the chapter or the copy says it need not.
<1>12. ASSUME NEW c \in Command, NEW k \in Channel, k = cmd[c].ch, CallLoad(c)
       PROVE SequenceInv'
  <2> DEFINE g == cmd[c].copy.game
  <2>1. /\ cmd[c].pc = "loading" /\ cmd[c].pc \in Rewriting
        /\ UNCHANGED <<row, live, games>>
        /\ chapters' \in {chapters, Populated(cmd[c].copy)}
    BY <1>12 DEF CallLoad, At, Rewriting, tables
  <2>2. \A h \in Game : Names(k, h) \/ chapters'[h] = chapters[h]
    <3>1. Names(k, g) \/ g \notin Game
      BY <1>12, <2>1, SoloFacts DEF Mentions
    <3>2. \A h \in Game : h = g \/ chapters'[h] = chapters[h]
      BY <2>1 DEF Populated
    <3> QED
      BY <3>1, <3>2
  <2>3. \A h \in Game : games < h => chapters'[h] = chapters[h]
    BY <2>2 DEF OneHome, TypeOK, Game
  <2>4. \A ch \in Channel \ {k} : ~Rewrites(c, ch)
    BY <1>12 DEF Rewrites
  <2>5. CASE Goto(c, "binding") /\ chapters' = Populated(cmd[c].copy)
             /\ UNCHANGED disturbed
    <3>1. /\ cmd'[c].pc = "binding" /\ cmd'[c].ch = k /\ cmd'[c].copy = cmd[c].copy
          /\ \A d \in Command \ {c} : cmd'[d] = cmd[d]
          /\ \A ch \in Channel : Rewrites(c, ch)' = Rewrites(c, ch)
          /\ \A ch \in Channel, h \in Game : Names(ch, h)' => Names(ch, h)
      BY <1>6, <1>12, <2>1, <2>5 DEF Rewriting
    <3>2. OneHome'
      BY <2>1, <2>3, <3>1, HomeStep
    <3>3. ASSUME k \notin disturbed PROVE InSequence(k)'
      <4>1. /\ \A d \in Command \ {c} : ~Rewrites(d, k)
            /\ SameGame(cmd[c].copy, row[k])
            /\ row[k].sess # NoSession => row[k].sess \in live
            /\ row[k].game \in Game =>
                  /\ chapters[row[k].game] < 2
                  /\ row[k].module = "none" => chapters[row[k].game] = 0
        BY <1>12, <2>1, <3>3, SoloRow DEF CopyCurrent, At
      <4>2. row[k].game \in Game => chapters'[row[k].game] < 2
        BY <2>5, <4>1 DEF Populated, SameGame
      <4>3. CopyCurrent(c)'
        BY <2>1, <3>1, <4>1 DEF CopyCurrent
      <4> QED
        BY <2>1, <3>1, <4>1, <4>2, <4>3, SoloStep DEF At
    <3> QED
      BY <2>1, <2>2, <2>4, <2>5, <3>1, <3>2, <3>3, SequenceStep
  <2>6. CASE Done(c) /\ Disturb(k)
    <3>1. cmd'[c].pc = "idle" /\ \A d \in Command \ {c} : cmd'[d] = cmd[d]
      BY <2>6, IdleType DEF Done
    <3>2. \A ch \in Channel : ~Rewrites(c, ch)'
      BY <3>1 DEF Rewrites, Rewriting
    <3>3. OneHome'
      <4>1. \A ch \in Channel, h \in Game : Names(ch, h)' => Names(ch, h)
        BY <2>1, <3>1, <3>2 DEF Names, Rewrites
      <4> QED
        BY <2>1, <2>3, <4>1, HomeStep
    <3> QED
      BY <2>1, <2>2, <2>4, <2>6, <3>1, <3>2, <3>3, SequenceStep DEF Disturb
  <2> QED
    BY <1>12, <2>5, <2>6 DEF CallLoad
<1>13. ASSUME NEW c \in Command, NEW k \in Channel, k = cmd[c].ch, EndSession(c)
       PROVE SequenceInv'
  <2>1. /\ cmd[c].pc = "ending" /\ cmd[c].pc \in Rewriting
        /\ UNCHANGED <<row, chapters, games, disturbed>> /\ Goto(c, "closing")
        /\ live' \in {live, live \ {cmd[c].copy.sess}}
    BY <1>13 DEF EndSession, At, Rewriting, tables, history
  <2>2. /\ cmd'[c].pc = "closing" /\ cmd'[c].ch = k /\ cmd'[c].copy = cmd[c].copy
        /\ \A d \in Command \ {c} : cmd'[d] = cmd[d]
        /\ \A ch \in Channel : Rewrites(c, ch)' = Rewrites(c, ch)
        /\ \A ch \in Channel, g \in Game : Names(ch, g)' => Names(ch, g)
    BY <1>6, <1>13, <2>1 DEF Rewriting
  <2>3. \A ch \in Channel \ {k} : ~Rewrites(c, ch)
    BY <1>13 DEF Rewrites
  <2>4. \A g \in Game : Names(k, g) \/ (g \in live => g \in live')
    BY <1>13, <2>1, SoloFacts DEF Mentions
  <2>5. OneHome'
    BY <2>1, <2>2, HomeStep
  <2>6. ASSUME k \notin disturbed PROVE InSequence(k)'
    <3>1. CopyCurrent(c)'
      BY <1>13, <2>1, <2>2, <2>6, SoloRow DEF CopyCurrent
    <3> QED
      BY <1>13, <2>1, <2>2, <2>6, <3>1, SoloRow, SoloStep DEF At
  <2> QED
    BY <2>1, <2>2, <2>3, <2>4, <2>5, <2>6, SequenceStep
\* The Ready button, whose handlers rewrite nothing of a row but its state.
<1>14. ASSUME NEW c \in Command, cmd[c].pc \notin Rewriting,
              cmd'[c].pc \notin Rewriting, \A d \in Command \ {c} : cmd'[d] = cmd[d],
              \A ch \in Channel : SameGame(row'[ch], row[ch]),
              UNCHANGED <<live, chapters, games, disturbed>>
       PROVE SequenceInv'
  BY <1>14, AsideStep DEF Rewrites
<1>15. ASSUME NEW c \in Command, NEW ch \in Channel, NEW u \in User,
              ClickReady(c, ch, u)
       PROVE SequenceInv'
  <2>1. cmd'[c].pc = "roster" /\ \A d \in Command \ {c} : cmd'[d] = cmd[d]
    BY <1>15, IdleType DEF ClickReady, Cmd
  <2> QED
    BY <1>14, <1>15, <2>1 DEF ClickReady, At, SameGame, Rewriting, tables, dm20, history
<1>16. ASSUME NEW c \in Command, ReadReady(c) PROVE SequenceInv'
  <2>1. cmd'[c].pc \in {"saving", "idle"} /\ \A d \in Command \ {c} : cmd'[d] = cmd[d]
    BY <1>16, IdleType DEF ReadReady, Done, Cmd
  <2> QED
    BY <1>14, <1>16, <2>1 DEF ReadReady, At, SameGame, Rewriting, tables, dm20, history
<1>17. ASSUME NEW c \in Command, SaveReady(c) PROVE SequenceInv'
  <2>1. cmd'[c].pc \in {"exploring", "idle"} /\ \A d \in Command \ {c} : cmd'[d] = cmd[d]
    BY <1>17, IdleType DEF SaveReady, Goto, Done, Cmd
  <2> QED
    BY <1>14, <1>17, <2>1 DEF SaveReady, At, SameGame, Rewriting, dm20, history
<1>18. ASSUME NEW c \in Command, Explore(c) PROVE SequenceInv'
  <2>1. cmd'[c].pc \in {"looping", "idle"} /\ \A d \in Command \ {c} : cmd'[d] = cmd[d]
    BY <1>18, IdleType DEF Explore, Goto, Done, Cmd
  <2>2. \A ch \in Channel : SameGame(row'[ch], row[ch])
    <3>1. row' = row \/ row' = [row EXCEPT ![cmd[c].ch].state = "EXPLORATION"]
      BY <1>18 DEF Explore
    <3> QED
      BY <3>1 DEF SameGame, Row
  <2> QED
    BY <1>14, <1>18, <2>1, <2>2 DEF Explore, At, Rewriting, dm20, history
<1>19. ASSUME NEW c \in Command, StartLoop(c) PROVE SequenceInv'
  <2>1. cmd'[c].pc = "idle" /\ \A d \in Command \ {c} : cmd'[d] = cmd[d]
    BY <1>19, IdleType DEF StartLoop, Done
  <2> QED
    BY <1>14, <1>19, <2>1 DEF StartLoop, At, SameGame, Rewriting, tables, dm20
<1>20. ASSUME NEW ch \in Channel, LoopRecords(ch) PROVE SequenceInv'
  <2>1. \A d \in Channel : SameGame(row'[d], row[d])
    BY <1>20 DEF LoopRecords, SameGame, Row
  <2> QED
    BY <1>20, <2>1, AsideStep DEF LoopRecords, dm20, history
\* Whose row was being rewritten is disturbed.
<1>21. ASSUME Restart PROVE SequenceInv'
  <2>1. \A c \in Command : cmd'[c].pc = "idle"
    BY <1>21, IdleType DEF Restart
  <2>2. \A c \in Command, ch \in Channel : ~Rewrites(c, ch)'
    BY <2>1 DEF Rewrites, Rewriting
  <2>3. \A c \in Command, ch \in Channel : Rewrites(c, ch) => ch \in disturbed'
    BY <1>21 DEF Restart, Rewrites
  <2>4. /\ UNCHANGED <<row, live, chapters, games>> /\ disturbed \subseteq disturbed'
    BY <1>21 DEF Restart, tables, dm20
  <2> QED
    BY <2>2, <2>3, <2>4, AsideStep DEF SameGame
<1>22. ASSUME UNCHANGED vars PROVE SequenceInv'
  BY <1>22, AsideStep DEF vars, tables, dm20, history, SameGame
<1>23. ASSUME NEW c \in Command, Step(c) PROVE SequenceInv'
  <2>1. PICK k \in Channel : k = cmd[c].ch
    BY CopyType
  <2> QED
    BY <1>5, <1>7, <1>9, <1>10, <1>11, <1>12, <1>13, <1>16, <1>17, <1>18, <1>19,
       <1>23, <2>1 DEF Step
<1> QED
  BY <1>1, <1>2, <1>3, <1>15, <1>20, <1>21, <1>22, <1>23 DEF Next

\* A game has one channel, and a row whose handlers come one after the other tells
\* of its game what dm20 knows.
THEOREM SessionSequence == Spec => []SequenceInv
BY SequenceInit, SequenceNext, PTL DEF Spec

\* Unless handlers wrote over one another or could not write, no row names a session
\* that dm20 was told to end.
THEOREM SessionRowSessionLive == Spec => []RowSessionLive
<1>1. SequenceInv => RowSessionLive
  BY DEF SequenceInv, InSequence, SessionKept, RowSessionLive
<1> QED
  BY <1>1, SessionSequence, PTL

\* Nor is the first chapter of a campaign populated twice.
THEOREM SessionChapterOnce == Spec => []ChapterOnce
<1>1. SequenceInv => ChapterOnce
  BY DEF SequenceInv, InSequence, ChapterKept, ChapterOnce
<1> QED
  BY <1>1, SessionSequence, PTL
=============================================================================
