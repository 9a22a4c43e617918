---------------------------- MODULE TableProofs ----------------------------
(***************************************************************************)
(* Proofs about MCTable.tla: the parts that serve a table, whatever the    *)
(* constants.  The parts share no state, so each is proved on its own: an  *)
(* inductive invariant of its own actions, and the lemma that every step   *)
(* of the whole is one of its steps or leaves its variables alone.         *)
(***************************************************************************)
EXTENDS MCTable, PartyModeProofs, SequenceTheorems, TLAPS

TableNext == Playing \/ Fighting \/ Editing \/ Choosing \/ Living \/ Booting

-----------------------------------------------------------------------------
(* The start: Boot. *)

\* What process p has passed at each place of its start.
PassedAt(p) ==
    /\ job[p].at \in {"ddl", "alter"} /\ ~job[p].hook => passed[p] = {}
    /\ job[p].at \in {"ddl", "alter", "up"} /\ job[p].way = "run" /\ (job[p].hook \/ job[p].at = "up")
          => passed[p] = {"schema", "omlx", "dm20"}
    /\ job[p].at = "omlx" => passed[p] = {"schema"}
    /\ job[p].at = "dm20" => passed[p] = {"schema", "omlx"}
    /\ job[p].at = "token" => passed[p] = {}

\* The statements of the script that p has come past are in the database.
WrittenAt(p) ==
    /\ job[p].at = "ddl" => \A i \in 1 .. job[p].line - 1 : BT!Script[i] \in tables
    /\ job[p].at = "alter" => tables = BT!Tables
    /\ job[p].at \in {"omlx", "dm20", "up"} => BT!Current

\* The code a process left behind stands until it is started again.
CodeAt(p) ==
    /\ job[p] # BT!Off => code[p] = BT!Still
    /\ code[p] = BT!OMLX_UNREACHABLE => BT!Current /\ passed[p] = {"schema"}
    /\ code[p] = BT!SCHEMA_FAIL => passed[p] = {}

Job == [at : {"off", "token", "ddl", "alter", "omlx", "dm20", "up"},
        way : BT!Way, hook : BOOLEAN, line : 1 .. Len(BT!Script)]

BootType ==
    /\ tables \subseteq BT!Tables /\ omlx \in BOOLEAN /\ dm20 \in BOOLEAN
    /\ job \in [Proc -> Job]
    /\ code \in [Proc -> BT!OK .. BT!Still]
    /\ passed \in [Proc -> SUBSET {"schema", "omlx", "dm20"}]

BootInv == BootType /\ \A p \in Proc : PassedAt(p) /\ WrittenAt(p) /\ CodeAt(p)

\* Process q is as it was, and the schema has lost nothing.
BootAside(q) ==
    /\ job'[q] = job[q] /\ code'[q] = code[q] /\ passed'[q] = passed[q]
    /\ tables \subseteq tables' /\ tables' \subseteq BT!Tables /\ (column => column')

LEMMA BootAsideStep ==
    ASSUME BootInv, NEW q \in Proc, BootAside(q)
    PROVE  PassedAt(q)' /\ WrittenAt(q)' /\ CodeAt(q)'
  <1>1. BT!Current => BT!Current'
    BY DEF BT!Current, BootAside, BootInv, BootType
  <1>2. PassedAt(q)'
    BY DEF PassedAt, BootAside, BootInv
  <1>3. WrittenAt(q)'
    BY <1>1 DEF WrittenAt, BootAside, BootInv, BootType
  <1>4. CodeAt(q)'
    BY <1>1 DEF CodeAt, BootAside, BootInv
  <1> QED BY <1>2, <1>3, <1>4

\* Enough for the invariant: the types, the process that moved, the others.
LEMMA BootMoves ==
    ASSUME BootInv, BootType', NEW p \in Proc,
           PassedAt(p)', WrittenAt(p)', CodeAt(p)',
           \A q \in Proc \ {p} : BootAside(q)
    PROVE  BootInv'
  <1>1. ASSUME NEW q \in Proc PROVE PassedAt(q)' /\ WrittenAt(q)' /\ CodeAt(q)'
    <2>1. CASE q = p
      BY <2>1
    <2>2. CASE q # p
      BY <2>2, BootAsideStep
    <2> QED BY <2>1, <2>2
  <1> QED BY <1>1 DEF BootInv

\* Services that come and go tell nothing.
LEMMA BootFrame ==
    ASSUME BootInv, UNCHANGED <<tables, column, job, code, passed>>,
           omlx' \in BOOLEAN, dm20' \in BOOLEAN
    PROVE  BootInv'
  BY DEF BootInv, BootType, PassedAt, WrittenAt, CodeAt, BT!Current

\* The script has two statements.
LEMMA TwoTables ==
    /\ Len(BT!Script) = 2 /\ BT!Script[1] = "sessions" /\ BT!Script[2] = "timers"
    /\ BT!Tables = {BT!Script[1], BT!Script[2]}
  BY DEF BT!Script, BT!Tables

LEMMA BootInit == BT!Init => BootInv
  BY TwoTables DEF BT!Init, BootInv, BootType, Job, BT!Off, BT!Way, BT!OK, BT!Still, PassedAt,
     WrittenAt, CodeAt, BT!Current, BT!OMLX_UNREACHABLE, BT!SCHEMA_FAIL

\* What the steps of one process make of its place.
JobMoves(p) ==
    \/ \E a \in {"off", "token", "ddl", "alter", "omlx", "dm20", "up"} :
          job' = [job EXCEPT ![p] = [job[p] EXCEPT !.at = a]]
    \/ \E b \in BOOLEAN :
          job' = [job EXCEPT ![p] = [job[p] EXCEPT !.at = "ddl", !.line = 1, !.hook = b]]
    \/ job' = [job EXCEPT ![p] = BT!Off]

LEMMA JobMoved ==
    ASSUME NEW p \in Proc, job \in [Proc -> Job], JobMoves(p)
    PROVE  job' \in [Proc -> Job]
  <1>1. 1 \in 1 .. Len(BT!Script)
    BY TwoTables
  <1>2. job[p] \in Job
    OBVIOUS
  <1>3. ASSUME NEW r \in Job, job' = [job EXCEPT ![p] = r]
        PROVE  job' \in [Proc -> Job]
    BY <1>3
  <1>4. ASSUME NEW a \in {"off", "token", "ddl", "alter", "omlx", "dm20", "up"},
               job' = [job EXCEPT ![p] = [job[p] EXCEPT !.at = a]]
        PROVE  job' \in [Proc -> Job]
    <2> DEFINE r == [job[p] EXCEPT !.at = a]
    <2>1. r \in Job
      BY <1>2 DEF Job
    <2>2. job' = [job EXCEPT ![p] = r]
      BY <1>4
    <2> HIDE DEF r
    <2> QED BY <2>1, <2>2, <1>3
  <1>5. ASSUME NEW b \in BOOLEAN,
               job' = [job EXCEPT ![p] =
                         [job[p] EXCEPT !.at = "ddl", !.line = 1, !.hook = b]]
        PROVE  job' \in [Proc -> Job]
    <2> DEFINE r == [job[p] EXCEPT !.at = "ddl", !.line = 1, !.hook = b]
    <2>1. r \in Job
      BY <1>1, <1>2 DEF Job
    <2>2. job' = [job EXCEPT ![p] = r]
      BY <1>5
    <2> HIDE DEF r
    <2> QED BY <2>1, <2>2, <1>3
  <1>6. BT!Off \in Job
    BY <1>1 DEF Job, BT!Off, BT!Way
  <1> QED BY <1>3, <1>4, <1>5, <1>6 DEF JobMoves

LEMMA BootProcess ==
    ASSUME BootInv, NEW p \in Proc
    PROVE  (\/ \E way \in BT!Way : BT!Launch(p, way)
            \/ BT!NoToken(p) \/ BT!Token(p) \/ BT!Create(p) \/ BT!Alter(p) \/ BT!Refused(p)
            \/ BT!AskOmlx(p) \/ BT!NoDm20(p) \/ BT!AskDm20(p) \/ BT!End(p) \/ BT!Kill(p))
              => BootInv'
  <1> USE DEF BT!OK, BT!OMLX_UNREACHABLE, BT!DM20_NOT_LOADED, BT!SCHEMA_FAIL,
              BT!MISSING_TOKEN, BT!BOT_FAILED, BT!Still
  <1>1. ASSUME NEW way \in BT!Way, BT!Launch(p, way) PROVE BootInv'
    <2> USE <1>1, TwoTables DEF BT!Launch, BT!Off, BT!Way, BootInv, BootType, Job
    <2>1. BootType'
      <3> DEFINE r == [BT!Off EXCEPT !.at = IF way = "check" THEN "ddl" ELSE "token",
                                     !.way = way]
      <3>1. r \in Job
        OBVIOUS
      <3>2. job' = [job EXCEPT ![p] = r]
        OBVIOUS
      <3> HIDE DEF r
      <3> QED BY <3>1, <3>2
    <2>2. PassedAt(p)' /\ WrittenAt(p)' /\ CodeAt(p)'
      BY DEF PassedAt, WrittenAt, CodeAt
    <2>3. \A q \in Proc \ {p} : BootAside(q)
      BY DEF BootAside
    <2> QED BY <2>1, <2>2, <2>3, BootMoves
  <1>2. CASE BT!NoToken(p)
    <2> USE <1>2, TwoTables DEF BT!NoToken, BT!Exit, BT!Off, BT!Way, BootInv, BootType, Job
    <2>1. BootType'
      OBVIOUS
    <2>2. PassedAt(p)' /\ WrittenAt(p)' /\ CodeAt(p)'
      BY DEF PassedAt, WrittenAt, CodeAt
    <2>3. \A q \in Proc \ {p} : BootAside(q)
      BY DEF BootAside
    <2> QED BY <2>1, <2>2, <2>3, BootMoves
  <1>3. CASE BT!Token(p)
    <2>1. BootType'
      <3>1. /\ UNCHANGED <<tables, column, omlx, dm20, code, passed>>
            /\ \E b \in BOOLEAN : job' = [job EXCEPT ![p] =
                   [job[p] EXCEPT !.at = "ddl", !.line = 1, !.hook = b]]
        BY <1>3 DEF BT!Token, BT!Schema
      <3>2. JobMoves(p)
        BY <3>1 DEF JobMoves
      <3>3. job' \in [Proc -> Job]
        BY <3>2, JobMoved DEF BootInv, BootType
      <3> QED BY <3>1, <3>3 DEF BootInv, BootType
    <2> USE <1>3, TwoTables DEF BT!Token, BT!Schema, BootInv, BootType, Job
    <2>2. PassedAt(p)' /\ WrittenAt(p)' /\ CodeAt(p)'
      BY DEF PassedAt, WrittenAt, CodeAt, BT!Off
    <2>3. \A q \in Proc \ {p} : BootAside(q)
      BY DEF BootAside
    <2> QED BY <2>1, <2>2, <2>3, BootMoves
  <1>4. CASE BT!Create(p)
    <2>0. /\ job[p] \in Job /\ job[p].at = "ddl" /\ job[p].line \in 1 .. 2
          /\ UNCHANGED <<column, omlx, dm20, code, passed>>
          /\ tables' = tables \cup {BT!Script[job[p].line]}
          /\ tables \subseteq BT!Tables
      BY <1>4, TwoTables DEF BT!Create, BootInv, BootType, Job
    <2>c. code[p] = BT!Still /\ BootType
      BY <2>0 DEF BootInv, CodeAt, BT!Off
    <2>a. ASSUME job[p].line = 2
         PROVE  BootType' /\ PassedAt(p)' /\ WrittenAt(p)' /\ CodeAt(p)'
      <3>1. job' = [job EXCEPT ![p] = [job[p] EXCEPT !.at = "alter"]]
        BY <1>4, <2>a, TwoTables DEF BT!Create, BT!Go
      <3>2. JobMoves(p)
        BY <3>1 DEF JobMoves
      <3>3. job' \in [Proc -> Job]
        BY <3>2, JobMoved DEF BootInv, BootType
      <3>4. job'[p] = [job[p] EXCEPT !.at = "alter"]
        BY <3>1 DEF BootInv, BootType
      <3>5. tables' = BT!Tables
        <4>1. BT!Script[1] \in tables
          BY <2>0, <2>a DEF BootInv, WrittenAt
        <4> QED BY <2>0, <2>a, <4>1, TwoTables
      <3>6. PassedAt(p)' /\ WrittenAt(p)'
        BY <2>0, <3>4, <3>5 DEF PassedAt, WrittenAt, BootInv, Job
      <3>7. CodeAt(p)'
        BY <2>0, <2>c DEF CodeAt
      <3> QED BY <2>0, <2>c, <3>3, <3>5, <3>6, <3>7 DEF BootType
    <2>b. ASSUME job[p].line = 1
         PROVE  BootType' /\ PassedAt(p)' /\ WrittenAt(p)' /\ CodeAt(p)'
      <3>1. job' = [job EXCEPT ![p] = [job[p] EXCEPT !.line = 2]]
        BY <1>4, <2>b, TwoTables DEF BT!Create
      <3>2. [job[p] EXCEPT !.line = 2] \in Job
        BY <2>0, TwoTables DEF Job
      <3>3. job' \in [Proc -> Job] /\ job'[p] = [job[p] EXCEPT !.line = 2]
        BY <3>1, <3>2 DEF BootInv, BootType
      <3>5. BT!Script[1] \in tables' /\ tables' \subseteq BT!Tables
        BY <2>0, <2>b, TwoTables
      <3>6. PassedAt(p)' /\ WrittenAt(p)'
        BY <2>0, <3>3, <3>5 DEF PassedAt, WrittenAt, BootInv, Job
      <3>7. CodeAt(p)'
        BY <2>0, <2>c DEF CodeAt
      <3> QED BY <2>0, <2>c, <3>3, <3>5, <3>6, <3>7 DEF BootType
    <2>1. BootType' /\ PassedAt(p)' /\ WrittenAt(p)' /\ CodeAt(p)'
      BY <2>0, <2>a, <2>b
    <2> USE <1>4, TwoTables DEF BT!Create, BT!Go, BootInv, BootType, Job
    <2>3. \A q \in Proc \ {p} : BootAside(q)
      BY DEF BootAside
    <2> QED BY <2>1, <2>3, BootMoves
  <1>5. CASE BT!Alter(p)
    <2> USE <1>5, TwoTables DEF BT!Alter, BT!Go, BT!Pass, BootInv, BootType, Job
    <2>1. BootType'
      OBVIOUS
    <2>2. PassedAt(p)' /\ WrittenAt(p)' /\ CodeAt(p)'
      BY DEF PassedAt, WrittenAt, CodeAt, BT!Off, BT!Current
    <2>3. \A q \in Proc \ {p} : BootAside(q)
      BY DEF BootAside
    <2> QED BY <2>1, <2>2, <2>3, BootMoves
  <1>6. CASE BT!Refused(p)
    <2> USE <1>6, TwoTables DEF BT!Refused, BT!Exit, BT!Off, BT!Way, BootInv, BootType, Job
    <2>1. BootType'
      OBVIOUS
    <2>2. PassedAt(p)' /\ WrittenAt(p)' /\ CodeAt(p)'
      BY DEF PassedAt, WrittenAt, CodeAt
    <2>3. \A q \in Proc \ {p} : BootAside(q)
      BY DEF BootAside
    <2> QED BY <2>1, <2>2, <2>3, BootMoves
  <1>7. CASE BT!AskOmlx(p)
    <2>1. /\ job[p].at = "omlx" /\ UNCHANGED <<tables, column, omlx, dm20>>
          /\ \/ /\ job' = [job EXCEPT ![p].at = "dm20"] /\ UNCHANGED code
                /\ passed' = [passed EXCEPT ![p] = @ \cup {"omlx"}]
             \/ /\ job' = [job EXCEPT ![p] = BT!Off] /\ UNCHANGED passed
                /\ code' = [code EXCEPT ![p] = BT!OMLX_UNREACHABLE]
      BY <1>7 DEF BT!AskOmlx, BT!Exit, BT!Go, BT!Pass
    <2>2. BootType'
      <3>1. \/ job' = [job EXCEPT ![p] = BT!Off]
            \/ job' = [job EXCEPT ![p] = [job[p] EXCEPT !.at = "dm20"]]
        BY <2>1
      <3>2. JobMoves(p)
        BY <3>1 DEF JobMoves
      <3>3. code' \in [Proc -> BT!OK .. BT!Still]
        BY <2>1 DEF BootInv, BootType
      <3>4. passed' \in [Proc -> SUBSET {"schema", "omlx", "dm20"}]
        BY <2>1 DEF BootInv, BootType
      <3>5. job' \in [Proc -> Job]
        BY <3>2, JobMoved DEF BootInv, BootType
      <3> QED BY <2>1, <3>3, <3>4, <3>5 DEF BootInv, BootType
    <2> USE <2>1, TwoTables DEF BT!Off, BT!Way, BootInv, BootType, Job
    <2>3. PassedAt(p)' /\ WrittenAt(p)' /\ CodeAt(p)'
      <3>1. PassedAt(p)'
        BY DEF PassedAt
      <3>2. WrittenAt(p)'
        BY DEF WrittenAt, BT!Current
      <3>3. CodeAt(p)'
        <4>1. job[p] # BT!Off /\ code[p] = BT!Still
          BY DEF CodeAt
        <4>2. CASE job' = [job EXCEPT ![p] = BT!Off]
          BY <4>1, <4>2 DEF PassedAt, WrittenAt, CodeAt, BT!Current
        <4>3. CASE job' = [job EXCEPT ![p].at = "dm20"]
          BY <4>1, <4>3 DEF CodeAt
        <4> QED BY <4>2, <4>3
      <3> QED BY <3>1, <3>2, <3>3
    <2>4. \A q \in Proc \ {p} : BootAside(q)
      BY DEF BootAside
    <2> QED BY <2>2, <2>3, <2>4, BootMoves
  <1>8. CASE BT!NoDm20(p)
    <2> USE <1>8, TwoTables DEF BT!NoDm20, BT!Exit, BT!Off, BT!Way, BootInv, BootType, Job
    <2>1. BootType'
      OBVIOUS
    <2>2. PassedAt(p)' /\ WrittenAt(p)' /\ CodeAt(p)'
      BY DEF PassedAt, WrittenAt, CodeAt
    <2>3. \A q \in Proc \ {p} : BootAside(q)
      BY DEF BootAside
    <2> QED BY <2>1, <2>2, <2>3, BootMoves
  <1>9. CASE BT!AskDm20(p)
    <2>1. /\ job[p].at = "dm20" /\ UNCHANGED <<tables, column, omlx, dm20>>
          /\ passed' = [passed EXCEPT ![p] = @ \cup {"dm20"}]
          /\ \/ /\ job' = [job EXCEPT ![p] = BT!Off]
                /\ code' = [code EXCEPT ![p] = BT!OK]
             \/ /\ job' = [job EXCEPT ![p].at = "ddl", ![p].line = 1, ![p].hook = TRUE]
                /\ UNCHANGED code
      BY <1>9 DEF BT!AskDm20, BT!Exit, BT!Schema, BT!Pass
    <2>2. BootType'
      <3>1. \/ job' = [job EXCEPT ![p] = BT!Off]
            \/ job' = [job EXCEPT ![p] = [job[p] EXCEPT !.at = "ddl", !.line = 1, !.hook = TRUE]]
        BY <2>1
      <3>2. JobMoves(p)
        BY <3>1 DEF JobMoves
      <3>3. code' \in [Proc -> BT!OK .. BT!Still]
        BY <2>1 DEF BootInv, BootType
      <3>4. passed' \in [Proc -> SUBSET {"schema", "omlx", "dm20"}]
        BY <2>1 DEF BootInv, BootType
      <3>5. job' \in [Proc -> Job]
        BY <3>2, JobMoved DEF BootInv, BootType
      <3> QED BY <2>1, <3>3, <3>4, <3>5 DEF BootInv, BootType
    <2> USE <2>1, TwoTables DEF BT!Off, BT!Way, BootInv, BootType, Job
    <2>3. PassedAt(p)' /\ WrittenAt(p)' /\ CodeAt(p)'
      <3>1. PassedAt(p)'
        BY DEF PassedAt
      <3>2. WrittenAt(p)'
        BY DEF WrittenAt, BT!Current
      <3>3. CodeAt(p)'
        <4>1. job[p] # BT!Off /\ code[p] = BT!Still
          BY DEF CodeAt
        <4>2. CASE job' = [job EXCEPT ![p] = BT!Off]
          BY <4>1, <4>2 DEF PassedAt, WrittenAt, CodeAt, BT!Current
        <4>3. CASE job' = [job EXCEPT ![p].at = "ddl", ![p].line = 1, ![p].hook = TRUE]
          BY <4>1, <4>3 DEF CodeAt
        <4> QED BY <4>2, <4>3
      <3> QED BY <3>1, <3>2, <3>3
    <2>4. \A q \in Proc \ {p} : BootAside(q)
      BY DEF BootAside
    <2> QED BY <2>2, <2>3, <2>4, BootMoves
  <1>10. CASE BT!End(p)
    <2> USE <1>10, TwoTables DEF BT!End, BT!Exit, BT!Off, BT!Way, BootInv, BootType, Job
    <2>1. BootType'
      OBVIOUS
    <2>2. PassedAt(p)' /\ WrittenAt(p)' /\ CodeAt(p)'
      BY DEF PassedAt, WrittenAt, CodeAt
    <2>3. \A q \in Proc \ {p} : BootAside(q)
      BY DEF BootAside
    <2> QED BY <2>1, <2>2, <2>3, BootMoves
  <1>11. CASE BT!Kill(p)
    <2> USE <1>11, TwoTables DEF BT!Kill, BT!Off, BT!Way, BootInv, BootType, Job
    <2>1. BootType'
      OBVIOUS
    <2>2. PassedAt(p)' /\ WrittenAt(p)' /\ CodeAt(p)'
      BY DEF PassedAt, WrittenAt, CodeAt
    <2>3. \A q \in Proc \ {p} : BootAside(q)
      BY DEF BootAside
    <2> QED BY <2>1, <2>2, <2>3, BootMoves
  <1> QED BY <1>1, <1>2, <1>3, <1>4, <1>5, <1>6, <1>7, <1>8, <1>9, <1>10, <1>11

LEMMA BootNext == BootInv /\ [BT!Next]_BT!vars => BootInv'
  <1> SUFFICES ASSUME BootInv, [BT!Next]_BT!vars PROVE BootInv'
    OBVIOUS
  <1>1. CASE BT!ServiceTurns
    <2>1. omlx' \in BOOLEAN /\ dm20' \in BOOLEAN
      BY <1>1 DEF BT!ServiceTurns, BootInv, BootType
    <2>2. UNCHANGED <<tables, column, job, code, passed>>
      BY <1>1 DEF BT!ServiceTurns
    <2> QED BY <2>1, <2>2, BootFrame
  <1>2. CASE UNCHANGED BT!vars
    BY <1>2, BootFrame DEF BT!vars, BootInv, BootType
  <1>3. CASE \E p \in Proc :
                \/ \E way \in BT!Way : BT!Launch(p, way)
                \/ BT!NoToken(p) \/ BT!Token(p) \/ BT!Create(p) \/ BT!Alter(p)
                \/ BT!Refused(p) \/ BT!AskOmlx(p) \/ BT!NoDm20(p) \/ BT!AskDm20(p)
                \/ BT!End(p) \/ BT!Kill(p)
    BY <1>3, BootProcess
  <1> QED BY <1>1, <1>2, <1>3 DEF BT!Next

LEMMA BootSchemaFirst == BootInv => BT!SchemaFirst
  BY DEF BootInv, BT!SchemaFirst, PassedAt, WrittenAt, CodeAt

-----------------------------------------------------------------------------
(* The bot's start and end: Lifecycle. *)

\* The list of loops to stop has been taken.
Listed == mode = "closed" \/ (mode = "closing" /\ step > 3)

LifeType ==
    /\ mode \in {"setup", "serving", "closing", "closed"}
    /\ step \in Nat /\ running \subseteq LC!Tasks
    /\ queue \in {"none", "open", "stopping", "stopped"}
    /\ client \in {"none", "made", "open"}
    /\ gateway \in BOOLEAN /\ cogs \in BOOLEAN /\ reopened \in BOOLEAN

\* How far the start has come.
StartedBy ==
    mode = "setup" =>
       /\ step \in 1 .. Len(LC!Setup) /\ ~gateway
       /\ step <= 8 => "sweeper" \notin running
       /\ step > 2 => queue = "open"
       /\ step > 3 => client # "none"
       /\ step > 9 => cogs

\* While the gateway delivers clicks, the bot has started whole, and its queue is
\* open until close() has come to it.
GatewayOpen ==
    gateway => /\ client # "none" /\ cogs
               /\ mode = "serving" \/ (mode = "closing" /\ step <= 6) => queue = "open"

\* How far the end has come.
StoppedBy ==
    /\ mode = "closing" => step \in 1 .. Len(LC!Closing)
    /\ mode = "closed" => step = Len(LC!Closing)
    /\ mode \in {"closing", "closed"} =>
       /\ step > 1 => "watcher" \notin running
       /\ step > 2 => "sweeper" \notin running
       /\ step = 4 => loops \subseteq doomed \cup late
       /\ step > 4 => loops \subseteq late
       /\ step > 5 => "health" \notin running
       /\ step > 6 => queue # "open"
       /\ step > 7 => queue \in {"none", "stopped"}
       /\ step > 8 => (client = "open" => reopened)

LifeInv == /\ LifeType /\ StartedBy /\ GatewayOpen /\ StoppedBy
           /\ LC!TasksHaveStores /\ LC!CleanEnd


\* The order of the start and of the end.
LEMMA SetupOrder ==
    /\ Len(LC!Setup) = 11
    /\ LC!Setup[1] = "schema" /\ LC!Setup[2] = "queue" /\ LC!Setup[3] = "client"
    /\ LC!Setup[4] = "health" /\ LC!Setup[5] = "views" /\ LC!Setup[6] = "watcher"
    /\ LC!Setup[7] = "driver" /\ LC!Setup[8] = "sweeper" /\ LC!Setup[9] = "cogs"
    /\ LC!Setup[10] = "resume" /\ LC!Setup[11] = "sync"
  BY DEF LC!Setup

LEMMA ClosingOrder ==
    /\ Len(LC!Closing) = 9
    /\ LC!Closing[1] = "watcher" /\ LC!Closing[2] = "sweeper" /\ LC!Closing[3] = "list"
    /\ LC!Closing[4] = "loops" /\ LC!Closing[5] = "health" /\ LC!Closing[6] = "queue"
    /\ LC!Closing[7] = "drained" /\ LC!Closing[8] = "client"
    /\ LC!Closing[9] = "gateway"
  BY DEF LC!Closing

\* A step of the start that is due tells how far it has come.
LEMMA DueAt ==
    ASSUME LifeInv
    PROVE  /\ LC!Due("queue") => step = 2
           /\ LC!Due("client") => step = 3
           /\ LC!Due("driver") => step = 7
           /\ LC!Due("sweeper") => step = 8
           /\ LC!Due("cogs") => step = 9
           /\ LC!Due("resume") => step = 10
           /\ LC!Due("health") \/ LC!Due("watcher") => step \in {4, 6}
           /\ LC!Due("schema") \/ LC!Due("views") \/ LC!Due("sync") => step \in {1, 5, 11}
           /\ \A x : LC!Due(x) => mode = "setup" /\ step \in 1 .. 11
  <1>1. mode = "setup" => step \in 1 .. 11
    BY SetupOrder DEF LifeInv, StartedBy
  <1>2. mode = "setup" => \/ step = 1 \/ step = 2 \/ step = 3 \/ step = 4 \/ step = 5
                          \/ step = 6 \/ step = 7 \/ step = 8 \/ step = 9 \/ step = 10
                          \/ step = 11
    BY <1>1
  <1> QED BY <1>1, <1>2, SetupOrder DEF LC!Due

\* ... and so does one of the end.
LEMMA StoppingAt ==
    ASSUME LifeInv
    PROVE  /\ LC!Stopping("watcher") => step = 1
           /\ LC!Stopping("sweeper") => step = 2
           /\ LC!Stopping("list") => step = 3
           /\ LC!Stopping("loops") => step = 4
           /\ LC!Stopping("health") => step = 5
           /\ LC!Stopping("queue") => step = 6
           /\ LC!Stopping("drained") => step = 7
           /\ LC!Stopping("client") => step = 8
           /\ LC!Stopping("gateway") => step = 9
           /\ \A x : LC!Stopping(x) => mode = "closing" /\ step \in 1 .. 9
  <1>1. mode = "closing" => step \in 1 .. 9
    BY ClosingOrder DEF LifeInv, StoppedBy
  <1>2. mode = "closing" => \/ step = 1 \/ step = 2 \/ step = 3 \/ step = 4 \/ step = 5
                            \/ step = 6 \/ step = 7 \/ step = 8 \/ step = 9
    BY <1>1
  <1> QED BY <1>1, <1>2, ClosingOrder DEF LC!Stopping

LEMMA PastAt ==
    ASSUME LifeInv
    PROVE  /\ LC!Past("list") <=> Listed
           /\ LC!Past("client") <=> mode \in {"closing", "closed"} /\ step > 8
  <1>1. mode \in {"closing", "closed"} => step \in 1 .. 9
    BY ClosingOrder DEF LifeInv, StoppedBy
  <1>2. mode = "closed" => step = 9
    BY ClosingOrder DEF LifeInv, StoppedBy
  <1>3. LC!Past("list") <=> mode \in {"closing", "closed"} /\ 3 \in 1 .. step - 1
    <2>1. ASSUME NEW n \in 1 .. step - 1, mode \in {"closing", "closed"},
                 LC!Closing[n] = "list"
          PROVE  n = 3
      <3>1. n = 1 \/ n = 2 \/ n = 3 \/ n = 4 \/ n = 5 \/ n = 6 \/ n = 7 \/ n = 8
        BY <1>1, <2>1
      <3> QED BY <2>1, <3>1, ClosingOrder
    <2> QED BY <2>1, ClosingOrder DEF LC!Past
  <1>4. LC!Past("client") <=> mode \in {"closing", "closed"} /\ 8 \in 1 .. step - 1
    <2>1. ASSUME NEW n \in 1 .. step - 1, mode \in {"closing", "closed"},
                 LC!Closing[n] = "client"
          PROVE  n = 8
      <3>1. n = 1 \/ n = 2 \/ n = 3 \/ n = 4 \/ n = 5 \/ n = 6 \/ n = 7 \/ n = 8
        BY <1>1, <2>1
      <3> QED BY <2>1, <3>1, ClosingOrder
    <2> QED BY <2>1, ClosingOrder DEF LC!Past
  <1> QED BY <1>1, <1>2, <1>3, <1>4 DEF Listed

LEMMA LifeInit == LC!Init => LifeInv
  <1> SUFFICES ASSUME LC!Init PROVE LifeInv
    OBVIOUS
  <1>1. 1 \in 1 .. Len(LC!Setup)
    BY SetupOrder
  <1>2. LifeType
    BY DEF LC!Init, LifeType
  <1>3. StartedBy
    BY <1>1 DEF LC!Init, StartedBy
  <1>4. GatewayOpen /\ StoppedBy
    BY DEF LC!Init, GatewayOpen, StoppedBy
  <1>5. LC!TasksHaveStores /\ LC!CleanEnd
    BY DEF LC!Init, LC!TasksHaveStores, LC!CleanEnd
  <1> QED BY <1>2, <1>3, <1>4, <1>5 DEF LifeInv

\* The start: every step leaves behind it what the next ones need.
LEMMA StartingStep == LifeInv /\ LC!Starting => LifeInv'
  <1> SUFFICES ASSUME LifeInv, LC!Starting PROVE LifeInv'
    OBVIOUS
  <1>1. mode = "setup" /\ step \in 1 .. 11 /\ LC!Done
    BY DueAt DEF LC!Starting, LC!StartQuiet, LC!StartViews, LC!StartDriver,
       LC!StartQueue, LC!StartClient, LC!StartTask, LC!StartCogs, LC!Resume
  <1>2. mode' = (IF step = 11 THEN "serving" ELSE "setup") /\ step' = step + 1
        /\ gateway' = (step = 11)
    BY <1>1, SetupOrder DEF LC!Done
  <1> USE SetupOrder DEF LifeInv
  <1>3. CASE LC!StartQuiet \/ LC!StartViews \/ LC!StartDriver
    <2>1. step \in {1, 5, 7, 11} /\ UNCHANGED <<running, loops, doomed, queue, client, cogs,
                                              press, late, reopened, half>>
      BY <1>3, DueAt DEF LC!StartQuiet, LC!StartViews, LC!StartDriver, LC!clickVars
    <2> QED BY <1>1, <1>2, <2>1 DEF LifeType, StartedBy, GatewayOpen, StoppedBy,
               LC!TasksHaveStores, LC!CleanEnd
  <1>4. CASE LC!StartQueue
    BY <1>1, <1>2, <1>4, DueAt DEF LC!StartQueue, LC!clickVars, LifeType, StartedBy,
       GatewayOpen, StoppedBy, LC!TasksHaveStores, LC!CleanEnd
  <1>5. CASE LC!StartClient
    BY <1>1, <1>2, <1>5, DueAt DEF LC!StartClient, LC!clickVars, LifeType, StartedBy,
       GatewayOpen, StoppedBy, LC!TasksHaveStores, LC!CleanEnd
  <1>6. CASE \E t \in LC!Tasks : LC!StartTask(t)
    <2>1. PICK t \in LC!Tasks : LC!StartTask(t)
      BY <1>6
    <2>2. /\ step \in {4, 6, 8} /\ (t = "sweeper" => step = 8)
          /\ running' = running \cup {t}
          /\ UNCHANGED <<loops, doomed, queue, client, cogs, press, late, reopened, half>>
      BY <2>1, DueAt DEF LC!StartTask, LC!clickVars, LC!Tasks
    <2> QED BY <1>1, <1>2, <2>2 DEF LifeType, StartedBy, GatewayOpen, StoppedBy,
               LC!TasksHaveStores, LC!CleanEnd, LC!Tasks
  <1>7. CASE LC!StartCogs
    BY <1>1, <1>2, <1>7, DueAt DEF LC!StartCogs, LC!clickVars, LifeType, StartedBy,
       GatewayOpen, StoppedBy, LC!TasksHaveStores, LC!CleanEnd
  <1>8. CASE LC!Resume
    BY <1>1, <1>2, <1>8, DueAt DEF LC!Resume, LC!clickVars, LifeType, StartedBy,
       GatewayOpen, StoppedBy, LC!TasksHaveStores, LC!CleanEnd
  <1> QED BY <1>3, <1>4, <1>5, <1>6, <1>7, <1>8 DEF LC!Starting

\* Whatever the start has come to, close() finds what it can stop.
LEMMA QuitStep == LifeInv /\ LC!Quit => LifeInv'
  BY ClosingOrder DEF LC!Quit, LC!clickVars, LifeInv, LifeType, StartedBy, GatewayOpen,
       StoppedBy, LC!TasksHaveStores, LC!CleanEnd

\* A loop or a click that calls dm20 opens the client; after aclose(), that is told.
LEMMA UseStep ==
    ASSUME LifeInv, LC!UseClient,
           UNCHANGED <<mode, step, gateway, running, loops, doomed, queue, cogs, late>>
    PROVE  LifeInv'
  <1>1. /\ client # "none" /\ client' = "open"
        /\ reopened' = (reopened \/ (mode \in {"closing", "closed"} /\ step > 8))
    BY PastAt DEF LC!UseClient
  <1>2. LifeType'
    BY <1>1 DEF LifeInv, LifeType
  <1>3. StartedBy' /\ GatewayOpen' /\ LC!TasksHaveStores'
    BY <1>1 DEF LifeInv, StartedBy, GatewayOpen, LC!TasksHaveStores
  <1>4. mode \in {"closing", "closed"} /\ step > 8 => reopened'
    BY <1>1
  <1>5. StoppedBy'
    BY <1>1, <1>4 DEF LifeInv, StoppedBy
  <1>6. mode = "closed" => step > 8
    BY ClosingOrder DEF LifeInv, StoppedBy
  <1>7. LC!CleanEnd'
    BY <1>1, <1>4, <1>6 DEF LifeInv, LC!CleanEnd
  <1> QED BY <1>2, <1>3, <1>5, <1>7 DEF LifeInv

\* Clicks: the loop one starts is among those to be stopped, or counted as late.
LEMMA ClickingStep == LifeInv /\ LC!Clicking => LifeInv'
  <1> SUFFICES ASSUME LifeInv, NEW k \in User,
                      LC!Arrive(k) \/ LC!Call(k) \/ LC!Record(k) \/ LC!Ready(k)
                        \/ LC!StartLoop(k)
               PROVE  LifeInv'
    BY DEF LC!Clicking
  <1>1. CASE LC!Arrive(k) \/ LC!Record(k) \/ LC!Ready(k)
    <2>1. UNCHANGED <<mode, step, gateway, running, loops, doomed, queue, client, cogs,
                      late, reopened>>
      BY <1>1 DEF LC!Arrive, LC!Record, LC!Ready
    <2> QED BY <2>1 DEF LifeInv, LifeType, StartedBy, GatewayOpen,
       StoppedBy, LC!TasksHaveStores, LC!CleanEnd
  <1>2. CASE LC!Call(k)
    BY <1>2, UseStep DEF LC!Call
  <1>3. CASE LC!StartLoop(k)
    <2>1. /\ gateway /\ loops' = loops \cup {press[k].ch}
          /\ late' = IF press[k].ch \notin loops /\ Listed
                     THEN late \cup {press[k].ch} ELSE late
          /\ UNCHANGED <<mode, step, gateway, running, doomed, queue, client, cogs,
                         reopened>>
      BY <1>3, PastAt DEF LC!StartLoop
    <2>2. LifeType' /\ StartedBy' /\ GatewayOpen'
      BY <2>1 DEF LifeInv, LifeType, StartedBy, GatewayOpen
    <2>3. StoppedBy'
      BY <2>1 DEF LifeInv, LifeType, StoppedBy, Listed
    <2>4. LC!TasksHaveStores'
      BY <2>1 DEF LifeInv, LifeType, StartedBy, GatewayOpen, StoppedBy,
         LC!TasksHaveStores, Listed
    <2>5. LC!CleanEnd'
      BY <2>1 DEF LifeInv, LC!CleanEnd, Listed
    <2> QED BY <2>2, <2>3, <2>4, <2>5 DEF LifeInv
  <1> QED BY <1>1, <1>2, <1>3

LEMMA PollStep == LifeInv /\ LC!Poll => LifeInv'
  BY UseStep DEF LC!Poll

\* The end.
LEMMA EndingStep == LifeInv /\ LC!Ending => LifeInv'
  <1> SUFFICES ASSUME LifeInv, LC!Ending PROVE LifeInv'
    OBVIOUS
  <1> USE StoppingAt, ClosingOrder DEF LC!Stopped, LC!clickVars, LifeInv
  <1>1. CASE \E t \in LC!Tasks : LC!StopTask(t)
    <2>1. PICK t \in LC!Tasks : LC!StopTask(t)
      BY <1>1
    <2>2. /\ mode = "closing" /\ running' = running \ {t} /\ step' = step + 1
          /\ \/ t = "watcher" /\ step = 1
             \/ t = "sweeper" /\ step = 2
             \/ t = "health" /\ step = 5
          /\ UNCHANGED <<mode, gateway, loops, doomed, queue, client, cogs, press, late,
                         reopened, half>>
      BY <2>1 DEF LC!StopTask, LC!Tasks
    <2> QED BY <2>2 DEF LifeType, StartedBy, GatewayOpen,
       StoppedBy, LC!TasksHaveStores, LC!CleanEnd
  <1>2. CASE LC!ListLoops
    BY <1>2 DEF LC!ListLoops, LifeType, StartedBy, GatewayOpen,
       StoppedBy, LC!TasksHaveStores, LC!CleanEnd
  <1>3. CASE \E ch \in Channel : LC!StopLoop(ch)
    <2>1. PICK ch \in Channel : LC!StopLoop(ch)
      BY <1>3
    <2> QED BY <2>1 DEF LC!StopLoop, LifeType, StartedBy, GatewayOpen,
       StoppedBy, LC!TasksHaveStores, LC!CleanEnd
  <1>4. CASE LC!LoopsStopped
    BY <1>4 DEF LC!LoopsStopped, LifeType, StartedBy, GatewayOpen,
       StoppedBy, LC!TasksHaveStores, LC!CleanEnd
  <1>5. CASE LC!StopQueue
    BY <1>5 DEF LC!StopQueue, LifeType, StartedBy, GatewayOpen,
       StoppedBy, LC!TasksHaveStores, LC!CleanEnd
  <1>6. CASE LC!Drained
    BY <1>6 DEF LC!Drained, LifeType, StartedBy, GatewayOpen,
       StoppedBy, LC!TasksHaveStores, LC!CleanEnd
  <1>7. CASE LC!CloseClient
    BY <1>7 DEF LC!CloseClient, LifeType, StartedBy, GatewayOpen,
       StoppedBy, LC!TasksHaveStores, LC!CleanEnd
  <1>8. CASE LC!CloseGateway
    <2>1. /\ mode = "closing" /\ step = 9 /\ mode' = "closed" /\ ~gateway' /\ ~cogs'
          /\ UNCHANGED <<step, running, loops, doomed, queue, client, late, reopened>>
          /\ gateway' \in BOOLEAN /\ cogs' \in BOOLEAN
      BY <1>8 DEF LC!CloseGateway
    <2>2. LifeType' /\ StartedBy' /\ GatewayOpen'
      BY <2>1 DEF LifeType, StartedBy, GatewayOpen
    <2>3. loops \subseteq late /\ running = {}
      BY <2>1 DEF LifeType, StoppedBy, LC!Tasks
    <2>4. StoppedBy'
      BY <2>1 DEF StoppedBy
    <2>5. LC!TasksHaveStores'
      BY <2>1, <2>3 DEF LC!TasksHaveStores
    <2>6. LC!CleanEnd'
      BY <2>1, <2>3 DEF StoppedBy, LC!CleanEnd
    <2> QED BY <2>2, <2>4, <2>5, <2>6
  <1> QED BY <1>1, <1>2, <1>3, <1>4, <1>5, <1>6, <1>7, <1>8 DEF LC!Ending

LEMMA LifeFrame == LifeInv /\ UNCHANGED LC!vars => LifeInv'
  BY DEF LC!vars, LifeInv, LifeType, StartedBy, GatewayOpen,
       StoppedBy, LC!TasksHaveStores, LC!CleanEnd

LEMMA LifeNext == LifeInv /\ [LC!Next]_LC!vars => LifeInv'
  BY StartingStep, QuitStep, ClickingStep, PollStep, EndingStep, LifeFrame DEF LC!Next

-----------------------------------------------------------------------------
(* The monsters' choice of a target: SmartDriver. *)

\* A choice that names its first target among its ids.
Named == {c \in SD!Choice : c.first \in c.ids}
Asked == Key \cup {SD!NoAsk.key}
Spans == [{"all", "smart", "fallback", "refusal"} -> Nat]
Truths == [{"random", "cached", "answered", "failed", "refused"} -> Nat]

ChoiceType ==
    /\ cache \in Seq([key : Asked, choice : Named])
    /\ ask \in [Slot -> [on : BOOLEAN, key : Asked, among : SUBSET User]]
    /\ spans \in Spans /\ truth \in Truths

ChoiceInv == ChoiceType /\ SD!KpisTellTruth /\ SD!TargetIsCandidate

LEMMA ChoiceInit == SD!Init => ChoiceInv
  <1> SUFFICES ASSUME SD!Init PROVE ChoiceInv
    OBVIOUS
  <1>1. ChoiceType
    BY DEF SD!Init, ChoiceType, SD!NoAsk, Asked, Spans, Truths
  <1>2. SD!KpisTellTruth
    BY DEF SD!Init, SD!KpisTellTruth
  <1>3. SD!TargetIsCandidate
    BY TableAssumption DEF SD!Init, SD!TargetIsCandidate, SD!Nobody
  <1> QED BY <1>1, <1>2, <1>3 DEF ChoiceInv

\* One more decision, counted once by the span and once by what it really was.
LEMMA CountedOnce ==
    ASSUME spans \in Spans, truth \in Truths, SD!KpisTellTruth,
           \/ SD!Record("random", {}) /\ truth' = [truth EXCEPT !["random"] = @ + 1]
           \/ SD!Record("cache", {}) /\ truth' = [truth EXCEPT !["cached"] = @ + 1]
           \/ SD!Record("smart", {}) /\ truth' = [truth EXCEPT !["answered"] = @ + 1]
           \/ SD!Record("random", {"refusal"}) /\ truth' = [truth EXCEPT !["refused"] = @ + 1]
           \/ \E why \in SD!Reason \ {"refusal"} :
                 SD!Record("random", {why}) /\ truth' = [truth EXCEPT !["failed"] = @ + 1]
    PROVE  spans' \in Spans /\ truth' \in Truths /\ SD!KpisTellTruth'
  <1> USE DEF SD!Record, SD!KpisTellTruth, SD!Reason, Spans, Truths
  <1>1. CASE SD!Record("random", {}) /\ truth' = [truth EXCEPT !["random"] = @ + 1]
    BY <1>1
  <1>2. CASE SD!Record("cache", {}) /\ truth' = [truth EXCEPT !["cached"] = @ + 1]
    BY <1>2
  <1>3. CASE SD!Record("smart", {}) /\ truth' = [truth EXCEPT !["answered"] = @ + 1]
    BY <1>3
  <1>4. CASE SD!Record("random", {"refusal"}) /\ truth' = [truth EXCEPT !["refused"] = @ + 1]
    BY <1>4
  <1>5. ASSUME NEW why \in SD!Reason \ {"refusal"},
               SD!Record("random", {why}), truth' = [truth EXCEPT !["failed"] = @ + 1]
        PROVE  spans' \in Spans /\ truth' \in Truths /\ SD!KpisTellTruth'
    BY <1>5
  <1> QED BY <1>1, <1>2, <1>3, <1>4, <1>5

\* The cache keeps choices of its kind.
LEMMA PutType ==
    ASSUME cache \in Seq([key : Asked, choice : Named]),
           NEW k \in Asked, NEW c \in Named
    PROVE  SD!Put(k, c) \in Seq([key : Asked, choice : Named])
  <1> DEFINE E == [key : Asked, choice : Named]
             New == [key |-> k, choice |-> c]
             Over == [i \in 1 .. Len(cache) |-> IF cache[i].key = k THEN New ELSE cache[i]]
             s == IF SD!Cached(k) # {} THEN Over ELSE Append(cache, New)
  <1>1. New \in E
    OBVIOUS
  <1>2. Over \in Seq(E)
    <2>1. Over \in [1 .. Len(cache) -> E]
      <3> HIDE DEF New
      <3>1. \A i \in 1 .. Len(cache) : cache[i] \in E
        BY ElementOfSeq
      <3> QED BY <1>1, <3>1
    <2>2. Len(cache) \in Nat
      OBVIOUS
    <2> HIDE DEF Over, E
    <2> QED BY <2>1, <2>2
  <1>3. Append(cache, New) \in Seq(E)
    BY <1>1
  <1>4. s \in Seq(E)
    BY <1>2, <1>3
  <1>5. SD!Put(k, c) = IF Len(s) > CacheMax THEN Tail(s) ELSE s
    BY DEF SD!Put
  <1>6. Len(s) > CacheMax => Tail(s) \in Seq(E)
    <2> HIDE DEF s, E
    <2> QED BY <1>4, TableAssumption
  <1> QED BY <1>4, <1>5, <1>6

LEMMA ChoiceNext == ChoiceInv /\ [SD!Next]_SD!vars => ChoiceInv'
  <1> SUFFICES ASSUME ChoiceInv, [SD!Next]_SD!vars PROVE ChoiceInv'
    OBVIOUS
  <1> USE DEF ChoiceInv, ChoiceType
  <1>1. ASSUME NEW k \in Key, NEW among \in SUBSET User \ {{}}, SD!ByChance(k, among)
        PROVE  ChoiceInv'
    <2>1. SD!TargetIsCandidate'
      BY <1>1 DEF SD!ByChance, SD!Decided, SD!TargetIsCandidate
    <2>2. /\ SD!Record("random", {}) /\ truth' = [truth EXCEPT !["random"] = @ + 1]
          /\ UNCHANGED <<cache, ask>>
      BY <1>1 DEF SD!ByChance, SD!Decided
    <2> QED BY <2>1, <2>2, CountedOnce
  <1>2. ASSUME NEW k \in Key, NEW among \in SUBSET User \ {{}}, SD!FromCache(k, among)
        PROVE  ChoiceInv'
    <2>1. PICK i \in 1 .. Len(cache) :
             /\ cache[i].choice.ids \subseteq among
             /\ SD!Decided("cached", cache[i].choice.first, among)
      BY <1>2 DEF SD!FromCache, SD!Cached
    <2>2. cache[i].choice.first \in cache[i].choice.ids
      <3>1. cache[i] \in [key : Asked, choice : Named]
        BY ElementOfSeq
      <3> QED BY <3>1 DEF Named
    <2>3. SD!TargetIsCandidate'
      BY <2>1, <2>2 DEF SD!Decided, SD!TargetIsCandidate
    <2>4. /\ SD!Record("cache", {}) /\ truth' = [truth EXCEPT !["cached"] = @ + 1]
          /\ UNCHANGED <<cache, ask>>
      BY <1>2 DEF SD!FromCache, SD!Decided
    <2> QED BY <2>3, <2>4, CountedOnce
  <1>3. ASSUME NEW k \in Key, NEW among \in SUBSET User \ {{}}, NEW s \in Slot,
               SD!AskModel(s, k, among)
        PROVE  ChoiceInv'
    BY <1>3 DEF SD!AskModel, Asked, SD!KpisTellTruth, SD!TargetIsCandidate
  <1>4. ASSUME NEW s \in Slot, SD!ModelAnswers(s) PROVE ChoiceInv'
    <2>1. PICK ids \in SUBSET ask[s].among \ {{}} : \E first \in ids :
             /\ cache' = SD!Put(ask[s].key, [ids |-> ids, first |-> first])
             /\ SD!Decided("answered", first, ask[s].among)
      BY <1>4 DEF SD!ModelAnswers
    <2>2. PICK first \in ids :
             /\ cache' = SD!Put(ask[s].key, [ids |-> ids, first |-> first])
             /\ SD!Decided("answered", first, ask[s].among)
      BY <2>1
    <2>3. SD!TargetIsCandidate'
      BY <2>1, <2>2 DEF SD!Decided, SD!TargetIsCandidate
    <2>4. [ids |-> ids, first |-> first] \in Named /\ ask[s].key \in Asked
      BY DEF Named, SD!Choice
    <2>5. cache' \in Seq([key : Asked, choice : Named])
      BY <2>2, <2>4, PutType
    <2>6. ask' \in [Slot -> [on : BOOLEAN, key : Asked, among : SUBSET User]]
      BY <1>4 DEF SD!ModelAnswers, SD!Answered, SD!NoAsk, Asked
    <2>7. SD!Record("smart", {}) /\ truth' = [truth EXCEPT !["answered"] = @ + 1]
      BY <1>4 DEF SD!ModelAnswers, SD!Decided
    <2> QED BY <2>3, <2>5, <2>6, <2>7, CountedOnce
  <1>5. ASSUME NEW s \in Slot, SD!ModelFails(s) PROVE ChoiceInv'
    <2>1. PICK why \in SD!Reason : \E p \in ask[s].among :
             /\ SD!Decided(IF why = "refusal" THEN "refused" ELSE "failed", p, ask[s].among)
             /\ SD!Record("random", {why})
      BY <1>5 DEF SD!ModelFails
    <2>2. SD!TargetIsCandidate'
      BY <2>1 DEF SD!Decided, SD!TargetIsCandidate
    <2>3. ask' \in [Slot -> [on : BOOLEAN, key : Asked, among : SUBSET User]]
      BY <1>5 DEF SD!ModelFails, SD!Answered, SD!NoAsk, Asked
    <2>4. UNCHANGED cache
      BY <1>5 DEF SD!ModelFails
    <2>5. CASE why = "refusal"
      <3>1. SD!Record("random", {"refusal"}) /\ truth' = [truth EXCEPT !["refused"] = @ + 1]
        BY <2>1, <2>5 DEF SD!Decided
      <3> QED BY <2>2, <2>3, <2>4, <3>1, CountedOnce
    <2>6. CASE why # "refusal"
      <3>1. SD!Record("random", {why}) /\ truth' = [truth EXCEPT !["failed"] = @ + 1]
        BY <2>1, <2>6 DEF SD!Decided
      <3> QED BY <2>2, <2>3, <2>4, <2>6, <3>1, CountedOnce
    <2> QED BY <2>5, <2>6
  <1>6. CASE UNCHANGED SD!vars
    BY <1>6 DEF SD!vars, SD!KpisTellTruth, SD!TargetIsCandidate
  <1> QED BY <1>1, <1>2, <1>3, <1>4, <1>5, <1>6 DEF SD!Next

-----------------------------------------------------------------------------
(* The combat screen and its buttons: CombatTurn. *)

\* In a combat that is not over, x is not ahead of dm20.
NotAhead(x) == x.fight < fights \/ (x.fight = fights /\ x.turn <= turn)

Place == [fight : Nat, turn : Nat, view : {{}} \cup {CT!View(t) : t \in Nat}]

CombatType ==
    /\ turn \in Nat /\ fights \in Nat /\ screens \in Nat
    /\ coal \in 0 .. screens
    /\ posted \in [CT!Card -> Place]
    /\ given \in [CT!Card -> Seq(Place)]
    /\ latest \in [CT!Card -> Nat] /\ shown \in [CT!Card -> Nat]
    /\ bare \in [CT!Card -> BOOLEAN]

\* Which callback of the cog runs, and what it has left of the screen.
CallbackInv ==
    /\ session \in {"EXPLORATION", "COMBAT"}
    /\ watch \in {"idle", "entering", "posting", "stripping", "closing", "resolving"}
    /\ watch \in {"entering", "posting", "resolving"} => session = "COMBAT"
    /\ watch \in {"stripping", "closing"} => session = "EXPLORATION"
    /\ watch \in {"idle", "resolving"} /\ session = "COMBAT"
          => coal = screens \/ screens \in blank
    /\ watch \in {"idle", "entering"} /\ session = "EXPLORATION" => coal = 0

\* Screens are given in the order of dm20's turns, the one a message was sent with
\* first, and messages that are not made yet have none.
InOrder(k) ==
    /\ NotAhead(posted[k])
    /\ k > screens => posted[k] = CT!NoRender /\ given[k] = <<>>
    /\ latest[k] = Len(given[k]) /\ shown[k] <= latest[k]
    /\ \A i \in 1 .. Len(given[k]) :
          /\ NotAhead(given[k][i])
          /\ ~CT!Earlier(given[k][i], posted[k])
          /\ \A j \in 1 .. i : ~CT!Earlier(given[k][i], given[k][j])

ScreenInv == CombatType /\ CallbackInv /\ \A k \in CT!Card : InOrder(k)

\* The screen that message k displays, but for its buttons.
Source(k) == IF shown[k] = 0 THEN posted[k] ELSE given[k][shown[k]]

\* dm20's combats and turns go on.
Onward ==
    /\ fights' \in Nat /\ turn' \in Nat
    /\ fights < fights' \/ (fights = fights' /\ turn <= turn')

\* What a step can do to message k: nothing but to its buttons, ...
Left(k) ==
    /\ \/ posted'[k] = posted[k]
       \/ k <= screens /\ posted'[k].fight = posted[k].fight
                       /\ posted'[k].turn = posted[k].turn
    /\ given'[k] = given[k] /\ latest'[k] = latest[k] /\ shown'[k] = shown[k]

\* ... display a later update, ...
Advances(k) ==
    /\ posted'[k] = posted[k] /\ given'[k] = given[k] /\ latest'[k] = latest[k]
    /\ shown'[k] \in CT!SC!Fresh(k)

\* ... be given one, ...
Receives(k) ==
    /\ k <= screens /\ posted'[k] = posted[k] /\ shown'[k] = shown[k]
    /\ given'[k] = Append(given[k], CT!Rendered) /\ latest'[k] = latest[k] + 1
    /\ UNCHANGED <<turn, fights>>

\* ... or be sent.
Sent(k) ==
    /\ k = screens + 1 /\ screens' = screens + 1 /\ posted'[k] = CT!Rendered
    /\ given'[k] = given[k] /\ latest'[k] = latest[k] /\ shown'[k] = shown[k]
    /\ UNCHANGED <<turn, fights>>

Forward(k) == ~CT!Earlier(Source(k)', Source(k))

LEMMA PlaceFields == \A x \in Place : x.fight \in Nat /\ x.turn \in Nat
  BY DEF Place

LEMMA RenderedPlace == ASSUME CombatType PROVE CT!Rendered \in Place
  BY DEF CombatType, CT!Rendered, Place

LEMMA SourcePlace ==
    ASSUME CombatType, NEW k \in CT!Card, InOrder(k)
    PROVE  Source(k) \in Place /\ NotAhead(Source(k))
  <1>1. CASE shown[k] = 0
    BY <1>1 DEF Source, CombatType, InOrder
  <1>2. CASE shown[k] # 0
    <2>1. shown[k] \in 1 .. Len(given[k]) /\ given[k] \in Seq(Place)
      BY <1>2 DEF CombatType, InOrder
    <2>2. given[k][shown[k]] \in Place
      BY <2>1, ElementOfSeq
    <2> QED BY <1>2, <2>1, <2>2 DEF Source, InOrder
  <1> QED BY <1>1, <1>2

LEMMA DisplayedSource ==
    ASSUME CombatType, NEW k \in CT!Card, InOrder(k)
    PROVE  /\ CT!Displayed(k).fight = Source(k).fight
           /\ CT!Displayed(k).turn = Source(k).turn
  <1>1. PICK s \in Place : s = Source(k)
    BY SourcePlace
  <1>2. CT!Displayed(k) = IF bare[k] THEN [s EXCEPT !.view = {}] ELSE s
    BY <1>1 DEF CT!Displayed, Source
  <1>3. [s EXCEPT !.view = {}].fight = s.fight /\ [s EXCEPT !.view = {}].turn = s.turn
    BY DEF Place
  <1> QED BY <1>1, <1>2, <1>3

\* What a message displays is of the turn of its source.
ShowSources ==
    \A k \in CT!Card :
       /\ CT!Displayed(k).fight = Source(k).fight
       /\ CT!Displayed(k).turn = Source(k).turn
       /\ Source(k) \in Place /\ NotAhead(Source(k))

\* A message keeps its order, and what it displays goes forward.
LEMMA MessageStep ==
    ASSUME CombatType, NEW k \in CT!Card, InOrder(k), Onward,
           screens' \in Nat, screens <= screens',
           Left(k) \/ Advances(k) \/ Receives(k) \/ Sent(k)
    PROVE  InOrder(k)' /\ Forward(k)
  <1> USE DEF CombatType
  <1>1. ASSUME NEW x \in Place, NotAhead(x)
        PROVE  x.fight < fights' \/ (x.fight = fights' /\ x.turn <= turn')
    BY <1>1, PlaceFields DEF NotAhead, Onward
  <1>2. posted[k] \in Place /\ given[k] \in Seq(Place) /\ k \in Nat
    BY DEF CT!Card
  <1>3. \A i \in 1 .. Len(given[k]) : given[k][i] \in Place
    BY <1>2, ElementOfSeq
  <1>4. CASE Left(k)
    <2>1. NotAhead(posted[k])'
      BY <1>1, <1>2, <1>4 DEF Left, InOrder, NotAhead
    <2>2. ASSUME NEW i \in 1 .. Len(given[k])
          PROVE  /\ NotAhead(given[k][i])' /\ ~CT!Earlier(given[k][i], posted'[k])
                 /\ \A j \in 1 .. i : ~CT!Earlier(given[k][i], given[k][j])
      <3>1. given[k][i] \in Place /\ given'[k][i] = given[k][i]
        BY <1>3, <1>4 DEF Left
      <3>2. NotAhead(given[k][i])'
        BY <1>1, <3>1 DEF InOrder, NotAhead
      <3> QED BY <1>2, <1>4, <3>1, <3>2 DEF Left, InOrder, CT!Earlier
    <2>3. k > screens' => posted'[k] = CT!NoRender /\ given'[k] = <<>>
      BY <1>2, <1>4 DEF Left, InOrder
    <2>4. InOrder(k)'
      BY <1>4, <2>1, <2>2, <2>3 DEF Left, InOrder
    <2>5. Forward(k)
      <3>1. Source(k)'.fight = Source(k).fight /\ Source(k)'.turn = Source(k).turn
        BY <1>4 DEF Left, Source
      <3>2. Source(k).fight \in Nat /\ Source(k).turn \in Nat
        BY SourcePlace, PlaceFields
      <3> QED BY <3>1, <3>2 DEF Forward, CT!Earlier
    <2> QED BY <2>4, <2>5
  <1>5. CASE Advances(k)
    <2>1. shown'[k] \in 1 .. Len(given[k]) /\ shown[k] < shown'[k]
      BY <1>5 DEF Advances, CT!SC!Fresh, InOrder
    <2>2. InOrder(k)'
      <3>1. /\ posted'[k] = posted[k] /\ given'[k] = given[k] /\ latest'[k] = latest[k]
            /\ shown'[k] <= latest[k]
        BY <1>2, <1>5, <2>1 DEF Advances, InOrder
      <3>2. NotAhead(posted[k])'
        BY <1>1, <1>2, <3>1 DEF InOrder, NotAhead
      <3>3. \A i \in 1 .. Len(given[k]) : NotAhead(given[k][i])'
        BY <1>1, <1>3, <3>1 DEF InOrder, NotAhead
      <3>4. ~(k > screens')
        BY <1>2, <2>1 DEF InOrder
      <3> QED BY <3>1, <3>2, <3>3, <3>4 DEF InOrder
    <2>3. Forward(k)
      BY <1>5, <2>1 DEF Advances, Forward, Source, InOrder
    <2> QED BY <2>2, <2>3
  <1>6. CASE Receives(k)
    <2>1. PICK r \in Place : /\ r = CT!Rendered /\ r.fight = fights /\ r.turn = turn
                             /\ given'[k] = Append(given[k], r)
      BY <1>6, RenderedPlace DEF CT!Rendered, Receives
    <2> DEFINE n == Len(given[k]) + 1
    <2>2. n \in Nat /\ fights \in Nat /\ turn \in Nat
      BY <1>2
    <2>3. /\ Len(given'[k]) = n /\ given'[k][n] = r
          /\ \A i \in 1 .. Len(given[k]) : given'[k][i] = given[k][i]
      BY <1>2, <2>1, AppendProperties
    <2>4. /\ NotAhead(r)
          /\ \A x \in Place : NotAhead(x) => ~CT!Earlier(r, x)
      BY <2>1, <2>2, PlaceFields DEF NotAhead, CT!Earlier
    <2>5. ~CT!Earlier(r, posted[k])
      BY <1>2, <2>4 DEF InOrder
    <2>6. \A j \in 1 .. Len(given[k]) : ~CT!Earlier(r, given[k][j])
      BY <1>3, <2>4 DEF InOrder
    <2>7. ~CT!Earlier(r, r)
      BY <2>4
    <2>8. InOrder(k)'
      <3>1. fights' = fights /\ turn' = turn /\ posted'[k] = posted[k]
        BY <1>6 DEF Receives
      <3>2. NotAhead(posted[k])'
        BY <3>1 DEF InOrder, NotAhead
      <3>3. ~(k > screens')
        BY <1>2, <1>6 DEF Receives
      <3>4. latest'[k] = Len(given'[k]) /\ shown'[k] <= latest'[k]
        BY <1>2, <1>6, <2>3 DEF Receives, InOrder
      <3>5. ASSUME NEW i \in 1 .. n
            PROVE  /\ NotAhead(given[k][i])' /\ ~CT!Earlier(given'[k][i], posted[k])
                   /\ \A j \in 1 .. i : ~CT!Earlier(given'[k][i], given'[k][j])
        <4>1. CASE i = n
          <5>1. \A j \in 1 .. n : j = n \/ j \in 1 .. Len(given[k])
            BY <1>2
          <5>2. \A j \in 1 .. n : ~CT!Earlier(r, given'[k][j])
            BY <2>3, <2>6, <2>7, <5>1
          <5>3. NotAhead(given[k][i])'
            BY <2>3, <2>4, <3>1, <4>1 DEF NotAhead
          <5> QED BY <2>3, <2>5, <4>1, <5>2, <5>3
        <4>2. CASE i \in 1 .. Len(given[k])
          <5>1. /\ given'[k][i] = given[k][i]
                /\ \A j \in 1 .. i : given'[k][j] = given[k][j]
            BY <1>2, <2>3, <4>2
          <5>2. /\ NotAhead(given[k][i]) /\ ~CT!Earlier(given[k][i], posted[k])
                /\ \A j \in 1 .. i : ~CT!Earlier(given[k][i], given[k][j])
            BY <4>2 DEF InOrder
          <5>3. NotAhead(given[k][i])'
            BY <3>1, <5>1, <5>2 DEF NotAhead
          <5> QED BY <5>1, <5>2, <5>3
        <4>3. i = n \/ i \in 1 .. Len(given[k])
          BY <2>2
        <4> QED BY <4>1, <4>2, <4>3
      <3> QED BY <2>3, <3>1, <3>2, <3>3, <3>4, <3>5 DEF InOrder
    <2>9. Source(k)' = Source(k)
      <3>1. shown[k] = 0 \/ shown[k] \in 1 .. Len(given[k])
        BY <1>2 DEF InOrder
      <3> QED BY <1>6, <2>3, <3>1 DEF Source, Receives
    <2>10. Source(k).fight \in Nat /\ Source(k).turn \in Nat
      BY SourcePlace, PlaceFields
    <2> QED BY <2>8, <2>9, <2>10 DEF Forward, CT!Earlier
  <1>7. CASE Sent(k)
    <2>1. /\ given[k] = <<>> /\ posted[k] = CT!NoRender
          /\ latest[k] = 0 /\ shown[k] = 0
      BY <1>2, <1>7 DEF Sent, InOrder
    <2>2. InOrder(k)'
      BY <1>2, <1>7, <2>1 DEF Sent, InOrder, NotAhead, CT!Rendered
    <2>3. Forward(k)
      BY <1>7, <2>1 DEF Sent, Forward, Source, CT!Earlier, CT!Rendered, CT!NoRender
    <2> QED BY <2>2, <2>3
  <1> QED BY <1>4, <1>5, <1>6, <1>7

\* What a step does to the messages.
Moves ==
    /\ Onward /\ screens' \in Nat /\ screens <= screens'
    /\ \A k \in CT!Card : Left(k) \/ Advances(k) \/ Receives(k) \/ Sent(k)

\* dm20 and the buttons leave the screens alone.
ScreensStill ==
    /\ Onward
    /\ UNCHANGED <<screens, session, watch, coal, posted, given, bare, latest, shown,
                   blank>>

LEMMA StillMoves ==
    ASSUME CombatType, CallbackInv, ScreensStill
    PROVE  CombatType' /\ CallbackInv' /\ Moves
  BY DEF CombatType, CallbackInv, ScreensStill, Onward, Moves, Left

LEMMA TurnMoves ==
    ASSUME CombatType, CT!NextTurn \/ UNCHANGED CT!dm20Vars
    PROVE  Onward
  BY DEF CombatType, CT!NextTurn, CT!dm20Vars, Onward

LEMMA ClickMoves ==
    ASSUME CombatType, NEW c \in Click, CT!ClickStep(c)
    PROVE  ScreensStill
  <1> USE DEF CT!screenVars, CT!cogVars, ScreensStill
  <1>1. UNCHANGED CT!dm20Vars => Onward
    BY TurnMoves
  <1>2. ASSUME NEW kind, CT!Clicked(c, kind) PROVE ScreensStill
    BY <1>1, <1>2 DEF CT!Clicked
  <1>3. ASSUME NEW kind, NEW next, CT!Gate(c, kind, next) PROVE ScreensStill
    BY <1>1, <1>3 DEF CT!Gate
  <1>4. CASE CT!CastGate(c) \/ CT!GateFails(c) \/ CT!WeaponSubmitted(c)
               \/ CT!AttackDispatched(c) \/ CT!DodgeRow(c) \/ CT!DodgeEffect(c)
    BY <1>1, <1>4 DEF CT!CastGate, CT!GateFails, CT!WeaponSubmitted,
                      CT!AttackDispatched, CT!DodgeRow, CT!DodgeEffect
  <1>5. CASE CT!EndTurn(c) \/ CT!DodgeAdvance(c)
    BY <1>5, TurnMoves DEF CT!EndTurn, CT!DodgeAdvance
  <1> QED
    BY <1>2, <1>3, <1>4, <1>5
       DEF CT!ClickStep, CT!EndTurnClicked, CT!AttackClicked, CT!DodgeClicked,
           CT!CastClicked, CT!EndTurnGate, CT!AttackGate, CT!DodgeGate

\* Closing a coalescer lets an update through, or none.
LEMMA CloseMoves ==
    ASSUME CombatType, CT!SC!Close(coal) \/ UNCHANGED <<latest, shown, sealed>>
    PROVE  /\ latest' = latest /\ shown' \in [CT!Card -> Nat]
           /\ \A k \in CT!Card : shown'[k] = shown[k] \/ shown'[k] \in CT!SC!Fresh(k)
  BY DEF CombatType, CT!SC!Close, CT!SC!Fresh

LEMMA CogMoves ==
    ASSUME CombatType, CallbackInv, CT!CogStep
    PROVE  CombatType' /\ CallbackInv' /\ Moves
  <1> USE DEF CombatType, CallbackInv, CT!Goto, CT!Fault
  <1>1. UNCHANGED CT!dm20Vars => Onward
    BY TurnMoves
  <1>2. ASSUME UNCHANGED <<CT!dm20Vars, screens, posted, given, latest, shown>>
        PROVE  Moves
    BY <1>1, <1>2 DEF Moves, Left
  <1>3. CASE CT!NoticeFight \/ CT!NoticeEnd \/ CT!Resolved
    <2>1. UNCHANGED <<CT!dm20Vars, CT!cogVars, CT!screenVars, blank>>
      BY <1>3 DEF CT!NoticeFight, CT!NoticeEnd, CT!Resolved
    <2>2. CallbackInv'
      BY <1>3, <2>1 DEF CT!NoticeFight, CT!NoticeEnd, CT!Resolved, CT!cogVars,
                        CT!screenVars
    <2> QED BY <1>2, <2>1, <2>2 DEF CT!cogVars, CT!screenVars, CT!dm20Vars
  <1>4. CASE CT!EnterCombat
    <2>1. screens' = screens + 1 /\ UNCHANGED <<CT!dm20Vars, session, coal, given, bare,
                                                latest, shown>>
      BY <1>4 DEF CT!EnterCombat, CT!cogVars
    <2>2. \/ posted' = [posted EXCEPT ![screens'] = CT!Rendered] /\ watch' = "posting"
                /\ UNCHANGED blank
          \/ posted' = posted /\ watch' = "idle" /\ blank' = blank \cup {screens'}
      BY <1>4 DEF CT!EnterCombat
    <2>3. CombatType'
      <3>1. PICK r \in Place : r = CT!Rendered
        BY RenderedPlace
      <3>2. posted' \in [CT!Card -> Place]
        BY <2>2, <3>1
      <3> QED BY <2>1, <2>2, <3>2 DEF CT!dm20Vars
    <2>4. CallbackInv'
      BY <1>4, <2>1, <2>2 DEF CT!EnterCombat
    <2>5. ASSUME NEW k \in CT!Card PROVE Left(k) \/ Sent(k)
      BY <2>1, <2>2 DEF Left, Sent, CT!dm20Vars
    <2> QED BY <1>1, <2>1, <2>3, <2>4, <2>5 DEF Moves
  <1>5. ASSUME UNCHANGED <<CT!dm20Vars, screens, posted, given>>,
               CT!SC!Close(coal) \/ UNCHANGED <<latest, shown, sealed>>
        PROVE  Moves /\ latest' = latest /\ shown' \in [CT!Card -> Nat]
    BY <1>1, <1>5, CloseMoves DEF Moves, Left, Advances
  <1>6. CASE CT!Posted
    <2>1. UNCHANGED <<CT!dm20Vars, session, screens, given, bare>> /\ watch' = "idle"
      BY <1>6 DEF CT!Posted
    <2>2. CASE /\ coal' = screens /\ UNCHANGED <<posted, blank>>
               /\ CT!SC!Close(coal) \/ UNCHANGED <<latest, shown, sealed>>
      <3>1. Moves /\ latest' = latest /\ shown' \in [CT!Card -> Nat]
        BY <1>5, <2>1, <2>2
      <3>2. CombatType' /\ CallbackInv'
        BY <1>6, <2>1, <2>2, <3>1 DEF CT!Posted, CT!dm20Vars
      <3> QED BY <3>1, <3>2
    <2>3. CASE /\ blank' = blank \cup {screens} /\ UNCHANGED <<coal, latest, shown>>
               /\ posted' = [posted EXCEPT ![screens].view = {}]
      <3>1. \A p \in Place : [p EXCEPT !.view = {}] \in Place
        BY DEF Place
      <3>2. /\ posted' \in [CT!Card -> Place]
            /\ \A k \in CT!Card : Left(k)
        <4>1. \A k \in CT!Card : posted[k] \in Place
          OBVIOUS
        <4>2. \A k \in CT!Card :
                 posted'[k] = IF k = screens THEN [posted[k] EXCEPT !.view = {}]
                                             ELSE posted[k]
          BY <2>3
        <4>3. posted' \in [CT!Card -> Place]
          BY <2>3, <3>1, <4>1
        <4>4. ASSUME NEW k \in CT!Card PROVE Left(k)
          <5>1. CASE k = screens
            BY <2>1, <2>3, <4>1, <4>2, <5>1 DEF Left, Place
          <5>2. CASE k # screens
            BY <2>1, <2>3, <4>2, <5>2 DEF Left
          <5> QED BY <5>1, <5>2
        <4> QED BY <4>3, <4>4
      <3>3. CombatType' /\ CallbackInv'
        BY <1>6, <2>1, <2>3, <3>2 DEF CT!Posted, CT!dm20Vars
      <3> QED BY <1>1, <2>1, <3>2, <3>3 DEF Moves
    <2> QED BY <1>6, <2>1, <2>2, <2>3 DEF CT!Posted, CT!cogVars
  <1>7. CASE CT!StripButtons
    <2>1. UNCHANGED <<CT!dm20Vars, session, coal, screens, posted, given, latest, shown,
                      blank>>
          /\ watch' = "closing" /\ session = "EXPLORATION"
          /\ bare' \in [CT!Card -> BOOLEAN]
      BY <1>7 DEF CT!StripButtons
    <2>2. CombatType' /\ CallbackInv'
      BY <2>1 DEF CT!dm20Vars
    <2> QED BY <1>2, <2>1, <2>2
  <1>8. CASE CT!CloseScreen
    <2>1. /\ UNCHANGED <<CT!dm20Vars, screens, posted, given>>
          /\ CT!SC!Close(coal) \/ UNCHANGED <<latest, shown, sealed>>
      BY <1>8 DEF CT!CloseScreen
    <2>2. Moves /\ latest' = latest /\ shown' \in [CT!Card -> Nat]
      BY <1>5, <2>1
    <2>3. /\ watch' = "idle" /\ session = "EXPLORATION" /\ coal' = 0
          /\ UNCHANGED <<session, blank>> /\ bare' \in [CT!Card -> BOOLEAN]
      BY <1>8 DEF CT!CloseScreen
    <2>4. CombatType'
      BY <2>1, <2>2, <2>3 DEF CT!dm20Vars
    <2>5. CallbackInv'
      BY <2>1, <2>3
    <2> QED BY <2>2, <2>4, <2>5
  <1>9. CASE CT!Refresh
    <2>1. UNCHANGED <<CT!dm20Vars, session, coal, screens, posted, bare, blank, shown>>
          /\ watch' = "idle" /\ session = "COMBAT" /\ (coal = screens \/ screens \in blank)
      BY <1>9 DEF CT!Refresh, CT!SC!Give, CT!cogVars
    <2>2. CallbackInv'
      BY <2>1
    <2>3. CASE UNCHANGED <<given, latest>>
      BY <1>2, <2>1, <2>2, <2>3 DEF CT!dm20Vars
    <2>4. CASE /\ given' = [given EXCEPT ![coal] = Append(@, CT!Rendered)]
               /\ latest' = [latest EXCEPT ![coal] = @ + 1]
      <3>1. CombatType'
        <4>1. PICK r \in Place : r = CT!Rendered
          BY RenderedPlace
        <4>2. given' \in [CT!Card -> Seq(Place)]
          <5>1. \A k \in CT!Card : Append(given[k], r) \in Seq(Place)
            BY <4>1, AppendProperties
          <5>2. given' = [given EXCEPT ![coal] = Append(given[coal], r)]
            BY <2>4, <4>1
          <5> QED BY <5>1, <5>2
        <4>3. latest' \in [CT!Card -> Nat]
          <5>1. \A k \in CT!Card : latest[k] + 1 \in Nat
            OBVIOUS
          <5>2. latest' = [latest EXCEPT ![coal] = latest[coal] + 1]
            BY <2>4
          <5> QED BY <5>1, <5>2
        <4> QED BY <2>1, <4>2, <4>3 DEF CT!dm20Vars
      <3>2. ASSUME NEW k \in CT!Card PROVE Left(k) \/ Receives(k)
        <4>1. CASE k = coal
          BY <2>1, <2>4, <4>1 DEF Receives, CT!dm20Vars
        <4>2. CASE k # coal
          BY <2>1, <2>4, <4>2 DEF Left
        <4> QED BY <4>1, <4>2
      <3> QED BY <1>1, <2>1, <2>2, <3>1, <3>2 DEF Moves
    <2> QED BY <1>9, <2>3, <2>4 DEF CT!Refresh, CT!SC!Give
  <1> QED
    BY <1>3, <1>4, <1>6, <1>7, <1>8, <1>9 DEF CT!CogStep

LEMMA FightMoves ==
    ASSUME CombatType, CallbackInv, CT!Next \/ UNCHANGED CT!vars
    PROVE  CombatType' /\ CallbackInv' /\ Moves
  <1>1. CASE CT!FightBegins \/ CT!FightEnds \/ CT!MonsterEndsTurn \/ UNCHANGED CT!vars
    <2>1. ScreensStill
      BY <1>1 DEF CombatType, CT!FightBegins, CT!FightEnds, CT!MonsterEndsTurn, CT!vars,
                  CT!dm20Vars, CT!cogVars, CT!screenVars, ScreensStill, Onward
    <2> QED BY <2>1, StillMoves
  <1>2. CASE CT!CogStep
    BY <1>2, CogMoves
  <1>3. ASSUME NEW k \in CT!Card, CT!RenderTask(k)
        PROVE  CombatType' /\ CallbackInv' /\ Moves
    <2>1. UNCHANGED <<CT!dm20Vars, session, watch, coal, screens, posted, given, latest,
                      blank>>
          /\ bare' = [bare EXCEPT ![k] = FALSE]
      BY <1>3 DEF CT!RenderTask, CT!SC!Show, CT!cogVars
    <2>2. PICK v \in CT!SC!Fresh(k) : shown' = [shown EXCEPT ![k] = v]
      BY <1>3 DEF CT!RenderTask, CT!SC!Show
    <2>3. v \in Nat
      BY <2>2 DEF CT!SC!Fresh
    <2>4. CombatType'
      BY <2>1, <2>2, <2>3 DEF CombatType, CT!dm20Vars
    <2>5. CallbackInv'
      BY <2>1 DEF CallbackInv
    <2>6. ASSUME NEW q \in CT!Card PROVE Left(q) \/ Advances(q)
      BY <2>1, <2>2 DEF CombatType, Left, Advances
    <2>7. Onward
      BY <2>1, TurnMoves
    <2> QED BY <2>1, <2>4, <2>5, <2>6, <2>7 DEF Moves, CombatType
  <1>4. ASSUME NEW c \in Click, CT!ClickStep(c)
        PROVE  CombatType' /\ CallbackInv' /\ Moves
    BY <1>4, ClickMoves, StillMoves
  <1>5. CASE CT!Restart
    <2>1. UNCHANGED <<CT!dm20Vars, session, screens, posted, given, bare, latest, shown>>
          /\ watch' = "idle" /\ coal' = 0 /\ blank' = blank \cup ({screens} \ {0})
      BY <1>5 DEF CT!Restart, CT!screenVars
    <2>2. CombatType' /\ CallbackInv'
      BY <2>1 DEF CombatType, CallbackInv, CT!dm20Vars
    <2>3. \A k \in CT!Card : Left(k)
      BY <2>1 DEF Left
    <2>4. Onward
      BY <2>1, TurnMoves
    <2> QED BY <2>1, <2>2, <2>3, <2>4 DEF Moves, CombatType
  <1> QED BY <1>1, <1>2, <1>3, <1>4, <1>5 DEF CT!Next

LEMMA ScreenNext ==
    ASSUME ScreenInv, CT!Next \/ UNCHANGED CT!vars
    PROVE  ScreenInv' /\ \A k \in CT!Card : Forward(k)
  <1>1. CombatType' /\ CallbackInv' /\ Moves
    BY FightMoves DEF ScreenInv
  <1>2. ASSUME NEW k \in CT!Card PROVE InOrder(k)' /\ Forward(k)
    BY <1>1, MessageStep DEF ScreenInv, Moves
  <1> QED BY <1>1, <1>2 DEF ScreenInv

LEMMA ScreenInit == CT!Init => ScreenInv
  <1> SUFFICES ASSUME CT!Init PROVE ScreenInv
    OBVIOUS
  <1>1. CT!NoRender \in Place
    BY DEF Place, CT!NoRender
  <1>2. CombatType
    BY <1>1 DEF CT!Init, CT!SC!Init, CombatType
  <1>3. CallbackInv
    BY DEF CT!Init, CallbackInv
  <1>4. \A k \in CT!Card : InOrder(k)
    BY DEF CT!Init, CT!SC!Init, InOrder, NotAhead, CT!NoRender
  <1> QED BY <1>2, <1>3, <1>4 DEF ScreenInv

\* What a click has seen, and what a row says, is of a turn dm20 has come to.
HasSeen(r) == r.fight < fights \/ (r.fight = fights /\ r.through <= turn)

ClickType(r) ==
    /\ r = [at |-> r.at, kind |-> r.kind, btn |-> r.btn, user |-> r.user,
            through |-> r.through, fight |-> r.fight]
    /\ r.through \in Nat /\ r.fight \in Nat

DodgeType ==
    /\ turn \in Nat /\ turn <= MaxTurn /\ fights \in Nat /\ fighting \in BOOLEAN
    /\ DOMAIN click = Click /\ DOMAIN cond = CT!Actor
    /\ \A c \in Click : ClickType(click[c])
    /\ \A a \in CT!Actor : cond[a].turn \in Nat /\ cond[a].fight \in Nat

DodgeInv ==
    /\ DodgeType
    /\ \A c \in Click : HasSeen(click[c])
    /\ \A a \in CT!Actor : NotAhead(cond[a])
    /\ CT!DodgeEndsTurn

\* Click c is another one now, the rest are as they were.
OnlyClick(c) ==
    /\ DOMAIN click' = Click /\ ClickType(click'[c]) /\ HasSeen(click'[c])
    /\ \A d \in Click \ {c} : click'[d] = click[d]

\* The turn is the same, or has gone on.
SameTurn == UNCHANGED <<turn, fights>>
TurnGone == /\ turn' \in Nat /\ turn' <= MaxTurn /\ fights' \in Nat
            /\ fights < fights' \/ (fights = fights' /\ turn < turn')

\* No dodge is lost, but what cuts it off is remembered.
DodgesKept ==
    \A c \in Click :
       CT!Dodging(c) /\ click[c].fight = fights /\ click[c].through = turn
         => \/ /\ CT!Dodging(c)'
               /\ click'[c].fight = fights /\ click'[c].through = turn
            \/ <<fights, turn>> \in stalled'

LEMMA IdleClick == ASSUME DodgeType PROVE ClickType(CT!Idle) /\ HasSeen(CT!Idle)
  BY DEF DodgeType, CT!Idle, ClickType, HasSeen

LEMMA ClickTo ==
    ASSUME DodgeType, NEW c \in Click, NEW r, ClickType(r), HasSeen(r),
           click' = [click EXCEPT ![c] = r]
    PROVE  OnlyClick(c) /\ click'[c] = r
  <1>1. click'[c] = r /\ DOMAIN click' = Click
    BY DEF DodgeType
  <1>2. \A d \in Click \ {c} : click'[d] = click[d]
    BY DEF DodgeType
  <1> QED BY <1>1, <1>2 DEF OnlyClick

LEMMA ClickAt ==
    ASSUME DodgeType, NEW c \in Click, NEW phase, HasSeen(click[c]), CT!At(c, phase)
    PROVE  /\ OnlyClick(c)
           /\ click'[c].at = phase /\ click'[c].kind = click[c].kind
           /\ click'[c].fight = click[c].fight /\ click'[c].through = click[c].through
  <1>1. ClickType(click[c])
    BY DEF DodgeType
  <1>2. PICK r : r = [click[c] EXCEPT !.at = phase]
    OBVIOUS
  <1>3. /\ r.at = phase /\ r.kind = click[c].kind /\ r.fight = click[c].fight
        /\ r.through = click[c].through /\ ClickType(r)
    BY <1>1, <1>2 DEF ClickType
  <1>4. HasSeen(r)
    BY <1>3 DEF HasSeen
  <1>5. click' = [click EXCEPT ![c] = r]
    BY <1>2 DEF CT!At
  <1> QED BY <1>3, <1>4, <1>5, ClickTo

\* A step that writes no row.
LEMMA DodgeStep ==
    ASSUME DodgeInv, SameTurn \/ TurnGone, UNCHANGED cond, fighting' \in BOOLEAN,
           SameTurn => DodgesKept /\ stalled \subseteq stalled' /\ (fighting' => fighting),
           DOMAIN click' = Click,
           \A c \in Click : ClickType(click'[c]) /\ HasSeen(click'[c])
    PROVE  DodgeInv'
  <1> USE DEF DodgeInv
  <1>1. turn' \in Nat /\ turn' <= MaxTurn /\ fights' \in Nat /\ Onward
    BY DEF DodgeType, SameTurn, TurnGone, Onward
  <1>2. DodgeType'
    BY <1>1 DEF DodgeType, ClickType
  <1>3. ASSUME NEW c \in Click PROVE HasSeen(click[c])'
    BY <1>1 DEF DodgeType, HasSeen, Onward, ClickType
  <1>4. ASSUME NEW a \in CT!Actor PROVE NotAhead(cond[a])'
    BY <1>1 DEF DodgeType, NotAhead, Onward
  <1>5. CT!DodgeEndsTurn'
    <2>1. CASE TurnGone
      BY <2>1 DEF TurnGone, DodgeType, NotAhead, CT!DodgeEndsTurn
    <2>2. CASE SameTurn
      BY <2>2 DEF SameTurn, DodgesKept, CT!DodgeEndsTurn
    <2> QED BY <2>1, <2>2
  <1> QED BY <1>2, <1>3, <1>4, <1>5

\* A click that was no dodge yet goes on, or ends.
LEMMA OtherClick ==
    ASSUME DodgeInv, NEW c \in Click, ~CT!Dodging(c), OnlyClick(c),
           SameTurn \/ TurnGone, UNCHANGED <<cond, fighting, stalled>>
    PROVE  DodgeInv'
  <1>1. \A d \in Click : ClickType(click'[d]) /\ HasSeen(click'[d])
    BY DEF OnlyClick, DodgeInv, DodgeType
  <1>2. DodgesKept
    BY DEF DodgesKept, OnlyClick, CT!Dodging
  <1>3. DOMAIN click' = Click /\ fighting' \in BOOLEAN
    BY DEF OnlyClick, DodgeInv, DodgeType
  <1> QED BY <1>1, <1>2, <1>3, DodgeStep

\* next_turn goes on, unless the combat is over or the bound is reached.
LEMMA NextTurnGoes ==
    ASSUME DodgeType, CT!NextTurn \/ UNCHANGED CT!dm20Vars
    PROVE  /\ SameTurn \/ TurnGone
           /\ UNCHANGED fighting
           /\ CT!NextTurn /\ SameTurn => ~fighting \/ turn = MaxTurn
  BY TableAssumption DEF DodgeType, CT!NextTurn, CT!dm20Vars, SameTurn, TurnGone

LEMMA DodgeClickStep ==
    ASSUME DodgeInv, NEW c \in Click, CT!ClickStep(c)
    PROVE  DodgeInv'
  <1>0. /\ DodgeType /\ HasSeen(click[c]) /\ ClickType(click[c])
        /\ ClickType(CT!Idle) /\ HasSeen(CT!Idle)
    BY IdleClick DEF DodgeInv, DodgeType
  <1>1. ASSUME NEW kind, CT!Clicked(c, kind) PROVE DodgeInv'
    <2>1. click[c] = CT!Idle /\ UNCHANGED <<CT!dm20Vars, cond, stalled>>
      BY <1>1 DEF CT!Clicked
    <2>2. PICK b, u :
             click' = [click EXCEPT ![c] = [CT!Idle EXCEPT !.at = "asked", !.kind = kind,
                                                          !.btn = b, !.user = u]]
      BY <1>1 DEF CT!Clicked
    <2>3. PICK r : r = [CT!Idle EXCEPT !.at = "asked", !.kind = kind, !.btn = b, !.user = u]
      OBVIOUS
    <2>4. ClickType(r) /\ HasSeen(r)
      BY <1>0, <2>3 DEF CT!Idle, ClickType, HasSeen
    <2>5. OnlyClick(c)
      BY <1>0, <2>2, <2>3, <2>4, ClickTo
    <2>6. ~CT!Dodging(c)
      BY <2>1 DEF CT!Dodging, CT!Idle
    <2> QED BY <2>1, <2>5, <2>6, OtherClick DEF CT!dm20Vars, SameTurn
  <1>2. ASSUME NEW kind, NEW next, CT!Gate(c, kind, next) PROVE DodgeInv'
    <2>1. click[c].at = "asked" /\ UNCHANGED <<CT!dm20Vars, cond, stalled>>
      BY <1>2 DEF CT!Gate
    <2>2. PICK r : /\ click' = [click EXCEPT ![c] = r]
                   /\ \/ r = CT!Idle
                      \/ r = [click[c] EXCEPT !.at = next, !.user = CT!NoUser,
                                              !.through = turn, !.fight = fights]
      BY <1>2 DEF CT!Gate
    <2>3. ClickType(r) /\ HasSeen(r)
      <3>1. CASE r = CT!Idle
        BY <1>0, <3>1
      <3>2. CASE r = [click[c] EXCEPT !.at = next, !.user = CT!NoUser,
                                      !.through = turn, !.fight = fights]
        <4>1. turn \in Nat /\ fights \in Nat
          BY <1>0 DEF DodgeType
        <4>2. r.through = turn /\ r.fight = fights /\ ClickType(r)
          BY <1>0, <3>2, <4>1 DEF ClickType
        <4> QED BY <4>1, <4>2 DEF HasSeen
      <3> QED BY <2>2, <3>1, <3>2
    <2>4. OnlyClick(c)
      BY <1>0, <2>2, <2>3, ClickTo
    <2>5. ~CT!Dodging(c)
      BY <2>1 DEF CT!Dodging
    <2> QED BY <2>1, <2>4, <2>5, OtherClick DEF CT!dm20Vars, SameTurn
  <1>3. ASSUME click[c].at \notin {"rowed", "affected"} \/ click[c].kind # "dodge",
               CT!Done(c), SameTurn \/ TurnGone, UNCHANGED <<cond, fighting, stalled>>
        PROVE  DodgeInv'
    <2>1. OnlyClick(c)
      BY <1>0, <1>3, ClickTo DEF CT!Done
    <2> QED BY <1>3, <2>1, OtherClick DEF CT!Dodging
  <1>4. CASE CT!CastGate(c) \/ CT!GateFails(c) \/ CT!AttackDispatched(c)
    <2>1. /\ click[c].at \notin {"rowed", "affected"} /\ CT!Done(c)
          /\ UNCHANGED <<CT!dm20Vars, cond, stalled>>
      BY <1>4 DEF CT!CastGate, CT!GateFails, CT!AttackDispatched
    <2> QED BY <1>3, <2>1 DEF CT!dm20Vars, SameTurn
  <1>5. CASE CT!WeaponSubmitted(c)
    <2>1. /\ click[c].at = "form" /\ CT!At(c, "aimed")
          /\ UNCHANGED <<CT!dm20Vars, cond, stalled>>
      BY <1>5 DEF CT!WeaponSubmitted
    <2>2. OnlyClick(c)
      BY <1>0, <2>1, ClickAt
    <2> QED BY <2>1, <2>2, OtherClick DEF CT!dm20Vars, SameTurn, CT!Dodging
  <1>6. CASE CT!EndTurn(c)
    <2>1. /\ click[c].at = "passed" /\ CT!Done(c) /\ UNCHANGED <<cond, stalled>>
          /\ CT!NextTurn \/ UNCHANGED CT!dm20Vars
      BY <1>6 DEF CT!EndTurn
    <2> QED BY <1>0, <1>3, <2>1, NextTurnGoes
  <1>7. ASSUME UNCHANGED <<CT!dm20Vars, stalled>>,
               NEW phase, phase \in {"rowed", "affected"}, CT!At(c, phase)
        PROVE  /\ DodgesKept /\ SameTurn /\ UNCHANGED fighting /\ DOMAIN click' = Click
               /\ \A d \in Click : ClickType(click'[d]) /\ HasSeen(click'[d])
               /\ click'[c].kind = click[c].kind /\ click'[c].at = phase
               /\ click'[c].fight = click[c].fight /\ click'[c].through = click[c].through
    <2>1. /\ OnlyClick(c)
          /\ click'[c].at = phase /\ click'[c].kind = click[c].kind
          /\ click'[c].fight = click[c].fight /\ click'[c].through = click[c].through
      BY <1>0, <1>7, ClickAt
    <2>2. \A d \in Click : ClickType(click'[d]) /\ HasSeen(click'[d])
      BY <2>1 DEF OnlyClick, DodgeInv, DodgeType
    <2>3. DodgesKept
      BY <1>7, <2>1 DEF OnlyClick, DodgesKept, CT!Dodging
    <2> QED BY <1>7, <2>1, <2>2, <2>3 DEF OnlyClick, SameTurn, CT!dm20Vars
  <1>8. CASE CT!DodgeRow(c)
    <2>1. /\ click[c].at = "passed" /\ click[c].kind = "dodge" /\ CT!At(c, "rowed")
          /\ UNCHANGED <<CT!dm20Vars, stalled>>
      BY <1>8 DEF CT!DodgeRow
    <2>2. CASE UNCHANGED cond
      BY <1>7, <2>1, <2>2, DodgeStep DEF DodgeInv, DodgeType
    <2>3. CASE \E e : cond' = [cond EXCEPT ![click[c].btn.actor] =
                        [expires |-> e, turn |-> click[c].through, fight |-> click[c].fight]]
      <3>1. PICK e : cond' = [cond EXCEPT ![click[c].btn.actor] =
                        [expires |-> e, turn |-> click[c].through, fight |-> click[c].fight]]
        BY <2>3
      <3>2. /\ DOMAIN cond' = CT!Actor
            /\ \A a \in CT!Actor :
                  cond'[a] = IF a = click[c].btn.actor
                             THEN [expires |-> e, turn |-> click[c].through,
                                   fight |-> click[c].fight]
                             ELSE cond[a]
        BY <1>0, <3>1 DEF DodgeType
      <3>3. \A a \in CT!Actor :
               \/ cond'[a] = cond[a]
               \/ cond'[a].turn = click[c].through /\ cond'[a].fight = click[c].fight
        BY <3>2
      <3>4. UNCHANGED <<turn, fights, fighting, stalled>>
        BY <2>1 DEF CT!dm20Vars
      <3>5. DodgeType'
        BY <1>0, <1>7, <2>1, <3>2, <3>3, <3>4 DEF DodgeType, ClickType
      <3>6. \A a \in CT!Actor : NotAhead(cond[a])'
        BY <1>0, <3>3, <3>4 DEF DodgeInv, NotAhead, HasSeen
      <3>7. \A d \in Click : HasSeen(click[d])'
        BY <1>7, <2>1, <3>4 DEF HasSeen
      <3>8. DodgesKept /\ CT!Dodging(c)' /\ click'[c].fight = click[c].fight
              /\ click'[c].through = click[c].through
        BY <1>7, <2>1 DEF CT!Dodging
      <3>9. CT!DodgeEndsTurn'
        BY <3>3, <3>4, <3>8 DEF DodgeInv, CT!DodgeEndsTurn, DodgesKept
      <3> QED BY <3>5, <3>6, <3>7, <3>9 DEF DodgeInv
    <2> QED BY <1>8, <2>2, <2>3 DEF CT!DodgeRow
  <1>9. CASE CT!DodgeEffect(c)
    <2>1. CT!At(c, "affected") /\ UNCHANGED <<CT!dm20Vars, stalled, cond>>
      BY <1>9 DEF CT!DodgeEffect
    <2> QED BY <1>7, <2>1, DodgeStep DEF DodgeInv, DodgeType
  <1>10. CASE CT!DodgeAdvance(c)
    <2>1. /\ CT!Done(c) /\ UNCHANGED cond /\ (CT!NextTurn \/ UNCHANGED CT!dm20Vars)
          /\ stalled \subseteq stalled'
          /\ CT!NextTurn \/ <<click[c].fight, click[c].through>> \in stalled'
      BY <1>10 DEF CT!DodgeAdvance
    <2>2. OnlyClick(c)
      BY <1>0, <2>1, ClickTo DEF CT!Done
    <2>3. \A d \in Click : ClickType(click'[d]) /\ HasSeen(click'[d])
      BY <2>2 DEF OnlyClick, DodgeInv, DodgeType
    <2>4. SameTurn \/ TurnGone
      BY <1>0, <2>1, NextTurnGoes
    <2>5. CASE CT!NextTurn /\ SameTurn
      <3>1. /\ ~fighting \/ turn = MaxTurn
            /\ UNCHANGED <<turn, fights, fighting, cond>>
        BY <1>0, <2>1, <2>5, NextTurnGoes DEF SameTurn
      <3>2. CT!DodgeEndsTurn'
        BY <3>1 DEF CT!DodgeEndsTurn
      <3>3. DodgeType'
        BY <1>0, <2>2, <2>3, <3>1 DEF DodgeType, ClickType, OnlyClick
      <3>4. /\ \A d \in Click : HasSeen(click[d])'
            /\ \A a \in CT!Actor : NotAhead(cond[a])'
        BY <2>3, <3>1 DEF DodgeInv, HasSeen, NotAhead
      <3> QED BY <3>2, <3>3, <3>4 DEF DodgeInv
    <2>6. CASE SameTurn /\ <<click[c].fight, click[c].through>> \in stalled'
      <3>1. DodgesKept
        BY <2>2, <2>6 DEF DodgesKept, OnlyClick, CT!Dodging
      <3>2. UNCHANGED fighting
        BY <1>0, <2>1, NextTurnGoes
      <3> QED BY <1>0, <2>1, <2>2, <2>3, <2>6, <3>1, <3>2, DodgeStep
              DEF OnlyClick, DodgeType
    <2>7. CASE TurnGone
      <3>1. UNCHANGED fighting /\ ~SameTurn
        BY <1>0, <2>1, <2>7, NextTurnGoes DEF SameTurn, TurnGone, DodgeType
      <3> QED BY <1>0, <2>1, <2>2, <2>3, <2>7, <3>1, DodgeStep DEF OnlyClick, DodgeType
    <2> QED BY <2>1, <2>4, <2>5, <2>6, <2>7
  <1> QED
    BY <1>1, <1>2, <1>4, <1>5, <1>6, <1>8, <1>9, <1>10
       DEF CT!ClickStep, CT!EndTurnClicked, CT!AttackClicked, CT!DodgeClicked,
           CT!CastClicked, CT!EndTurnGate, CT!AttackGate, CT!DodgeGate

LEMMA DodgeNext == DodgeInv /\ [CT!Next]_CT!vars => DodgeInv'
  <1> SUFFICES ASSUME DodgeInv, CT!Next \/ UNCHANGED CT!vars PROVE DodgeInv'
    OBVIOUS
  <1>0. \A c \in Click : ClickType(click[c]) /\ HasSeen(click[c])
    BY DEF DodgeInv, DodgeType
  <1>1. ASSUME UNCHANGED <<click, cond, stalled>>, fighting' \in BOOLEAN,
               TurnGone \/ (SameTurn /\ (fighting' => fighting))
        PROVE  DodgeInv'
    <2>1. SameTurn => DodgesKept
      BY <1>1 DEF DodgesKept, CT!Dodging
    <2>2. SameTurn /\ TurnGone => FALSE
      BY DEF DodgeInv, DodgeType, SameTurn, TurnGone
    <2> QED BY <1>0, <1>1, <2>1, <2>2, DodgeStep DEF DodgeInv, DodgeType
  <1>2. CASE CT!FightBegins
    <2>1. TurnGone /\ fighting' \in BOOLEAN
      BY <1>2, TableAssumption DEF CT!FightBegins, TurnGone, DodgeInv, DodgeType
    <2> QED BY <1>1, <1>2, <2>1 DEF CT!FightBegins
  <1>3. CASE CT!FightEnds
    BY <1>1, <1>3 DEF CT!FightEnds, SameTurn
  <1>4. CASE CT!MonsterEndsTurn
    <2>1. TurnGone /\ fighting' \in BOOLEAN
      BY <1>4, TableAssumption DEF CT!MonsterEndsTurn, TurnGone, DodgeInv, DodgeType
    <2> QED BY <1>1, <1>4, <2>1 DEF CT!MonsterEndsTurn
  <1>5. CASE CT!CogStep \/ (\E k \in CT!Card : CT!RenderTask(k)) \/ UNCHANGED CT!vars
    <2>1. UNCHANGED <<turn, fights, fighting, click, cond, stalled>>
      BY <1>5 DEF CT!CogStep, CT!NoticeFight, CT!EnterCombat, CT!Posted, CT!NoticeEnd,
                  CT!StripButtons, CT!CloseScreen, CT!Resolved, CT!Refresh, CT!RenderTask,
                  CT!dm20Vars, CT!vars
    <2> QED BY <1>1, <2>1 DEF SameTurn, DodgeInv, DodgeType
  <1>6. ASSUME NEW c \in Click, CT!ClickStep(c) PROVE DodgeInv'
    BY <1>6, DodgeClickStep
  <1>7. CASE CT!Restart
    <2>1. /\ UNCHANGED <<turn, fights, fighting, cond>>
          /\ click' = [c \in Click |-> CT!Idle]
          /\ stalled \subseteq stalled'
          /\ \A d \in Click : CT!Dodging(d)
                => <<click[d].fight, click[d].through>> \in stalled'
      BY <1>7 DEF CT!Restart, CT!dm20Vars
    <2>2. DodgesKept
      BY <2>1 DEF DodgesKept
    <2>3. \A c \in Click : ClickType(click'[c]) /\ HasSeen(click'[c])
      BY <2>1, IdleClick DEF DodgeInv
    <2> QED BY <2>1, <2>2, <2>3, DodgeStep DEF SameTurn, DodgeInv, DodgeType
  <1> QED BY <1>2, <1>3, <1>4, <1>5, <1>6, <1>7 DEF CT!Next

LEMMA DodgeInit == CT!Init => DodgeInv
  <1> SUFFICES ASSUME CT!Init PROVE DodgeInv
    OBVIOUS
  <1>0. turn = 0 /\ fights = 0 /\ fighting = FALSE
    BY DEF CT!Init
  <1>1. click = [c \in Click |-> CT!Idle] /\ cond = [a \in CT!Actor |-> CT!NoRow]
    BY DEF CT!Init
  <1>2. DodgeType
    <2>1. ClickType(CT!Idle)
      BY DEF ClickType, CT!Idle
    <2>2. \A a \in CT!Actor : cond[a].turn \in Nat /\ cond[a].fight \in Nat
      BY <1>1 DEF CT!NoRow
    <2>3. DOMAIN click = Click /\ DOMAIN cond = CT!Actor
            /\ \A c \in Click : ClickType(click[c])
      BY <1>1, <2>1
    <2>4. turn \in Nat /\ turn <= MaxTurn /\ fights \in Nat
      BY <1>0, TableAssumption
    <2>5. fighting \in BOOLEAN
      BY <1>0
    <2> QED BY <2>2, <2>3, <2>4, <2>5 DEF DodgeType
  <1>3. CT!DodgeEndsTurn
    BY <1>0 DEF CT!DodgeEndsTurn
  <1>4. \A c \in Click : HasSeen(click[c])
    BY <1>1, <1>2, IdleClick
  <1>5. \A a \in CT!Actor : NotAhead(cond[a])
    BY <1>0, <1>1 DEF NotAhead, CT!NoRow
  <1> QED BY <1>2, <1>3, <1>4, <1>5 DEF DodgeInv
-----------------------------------------------------------------------------
(* The coalescers: CoalescerProofs is about Coalescer's own names. *)

CP == INSTANCE CoalescerProofs
         WITH hand <- sending, latest <- newest, shown <- displayed,
              sealed <- closed

LEMMA SameSlots ==
    /\ CO!Init => CP!Init
    /\ [CO!Next]_CO!vars => [CP!Next]_CP!vars
    /\ CP!NothingForgotten => CO!NothingForgotten
  <1> USE DEF CO!Set, CP!Set, CO!channelVars, CP!channelVars
  <1>1. CO!Init => CP!Init
    BY DEF CO!Init, CP!Init
  <1>2. UNCHANGED CO!vars => UNCHANGED CP!vars
    BY DEF CO!vars, CP!vars
  <1>3. CO!Tick => CP!Tick
    BY DEF CO!Tick, CP!Tick
  <1>4. ASSUME NEW m \in Message
        PROVE  /\ CO!Update(m) => CP!Update(m)
               /\ CO!Close(m) => CP!Close(m)
               /\ CO!RenderStep(m) => CP!RenderStep(m)
    <2>1. CO!Update(m) => CP!Update(m)
      BY DEF CO!Update, CP!Update
    <2>2. CO!Close(m) => CP!Close(m)
      <3>1. CO!RemoveFirst(line, m) = CP!RemoveFirst(line, m)
        BY DEF CO!RemoveFirst, CP!RemoveFirst, CO!RemoveAt, CP!RemoveAt, CO!SelectInSeq,
               CP!SelectInSeq, CO!Min, CP!Min
      <3> QED BY <3>1 DEF CO!Close, CP!Close
    <2>3. CO!Wake(m) => CP!Wake(m)
      BY DEF CO!Wake, CP!Wake
    <2>4. CO!Take(m) => CP!Take(m)
      BY DEF CO!Take, CP!Take
    <2>5. CO!Acquire(m) => CP!Acquire(m)
      BY DEF CO!Acquire, CP!Acquire
    <2>6. CO!EditEnds(m) => CP!EditEnds(m)
      BY DEF CO!EditEnds, CP!EditEnds, CO!Edited, CP!Edited, CO!EditFails, CP!EditFails,
             CO!EditRefused, CP!EditRefused, CO!EditRaises, CP!EditRaises,
             CO!EditError, CP!EditError
    <2> QED BY <2>1, <2>2, <2>3, <2>4, <2>5, <2>6 DEF CO!RenderStep, CP!RenderStep
  <1>5. CP!NothingForgotten => CO!NothingForgotten
    BY DEF CP!NothingForgotten, CO!NothingForgotten
  <1> QED BY <1>1, <1>2, <1>3, <1>4, <1>5 DEF CO!Next, CP!Next

LEMMA SlotsNext ==
    CP!SlotInv /\ [CO!Next]_CO!vars => CP!SlotInv' /\ [CO!SC!Next]_(CO!SC!vars)
  <1>1. [CP!SC!Next]_(CP!SC!vars) => [CO!SC!Next]_(CO!SC!vars)
    BY DEF CP!SC!Next, CO!SC!Next, CP!SC!vars, CO!SC!vars, CP!SC!Give, CO!SC!Give,
           CP!SC!Show, CO!SC!Show, CP!SC!Close, CO!SC!Close, CP!SC!Fresh, CO!SC!Fresh
  <1> QED BY <1>1, SameSlots, CP!SlotNext, CP!ScreenStep

\* ... and its budget, its line and its clock.
LEMMA EditBounds ==
    /\ CO!Init => CP!BudgetInv /\ CP!ClockInv
    /\ CP!BudgetInv /\ CP!ClockInv /\ [CO!Next]_CO!vars => CP!BudgetInv' /\ CP!ClockInv'
    /\ CP!SlotInv /\ CP!BudgetInv /\ CP!ClockInv => CO!TypeOK
  <1>1. CP!Limits
    BY TableAssumption DEF TableAssumption, EditConstants, CP!Limits
  <1>2. CO!Init => CP!BudgetInv /\ CP!ClockInv
    BY <1>1, SameSlots, CP!ClockInit
  <1>3. CP!BudgetInv /\ CP!ClockInv /\ [CO!Next]_CO!vars => CP!BudgetInv' /\ CP!ClockInv'
    BY <1>1, SameSlots, CP!BudgetNext, CP!ClockNext
  <1>4. CP!TypeOK => CO!TypeOK
    BY DEF CP!TypeOK, CO!TypeOK, CP!Phases, CO!Phases
  <1> QED BY <1>2, <1>3, <1>4, CP!CoalescerTypes

-----------------------------------------------------------------------------
(* What the types of the parts add to these invariants. *)

\* The bounds of the start; the rest of its type is BootType.
BootBounds ==
    /\ column \in BOOLEAN
    /\ starts \in 0 .. MaxStarts /\ bootFaults \in 0 .. MaxBootFaults

LEMMA BootBoundsStart ==
    ASSUME TableAssumption, BT!Init
    PROVE  BootBounds
  <1>1. MaxStarts \in Nat /\ MaxBootFaults \in Nat
    BY DEF TableAssumption, BootConstants
  <1>2. column \in {FALSE, tables = BT!Tables} /\ starts = 0 /\ bootFaults = 0
    BY DEF BT!Init
  <1>3. column \in BOOLEAN
    BY <1>2, Zenon
  <1>4. starts \in 0 .. MaxStarts /\ bootFaults \in 0 .. MaxBootFaults
    BY <1>1, <1>2
  <1> QED BY <1>3, <1>4 DEF BootBounds

LEMMA BootBoundsNext ==
    ASSUME TableAssumption, BootBounds, [BT!Next]_BT!vars
    PROVE  BootBounds'
  <1>0. MaxStarts \in Nat /\ MaxBootFaults \in Nat
    BY DEF TableAssumption, BootConstants
  <1>1. column' \in BOOLEAN
    <2>1. column' = column \/ column' = TRUE
      BY DEF BT!Next, BT!vars, BT!Launch, BT!NoToken, BT!Token, BT!Create, BT!Alter,
             BT!Refused, BT!AskOmlx, BT!NoDm20, BT!AskDm20, BT!End, BT!Kill,
             BT!ServiceTurns
    <2> QED BY <2>1 DEF BootBounds
  <1>2. starts' \in 0 .. MaxStarts
    <2>1. starts' = starts \/ (starts < MaxStarts /\ starts' = starts + 1)
      BY DEF BT!Next, BT!vars, BT!Launch, BT!NoToken, BT!Token, BT!Create, BT!Alter,
             BT!Refused, BT!AskOmlx, BT!NoDm20, BT!AskDm20, BT!End, BT!Kill,
             BT!ServiceTurns
    <2> QED BY <1>0, <2>1 DEF BootBounds
  <1>3. bootFaults' \in 0 .. MaxBootFaults
    <2>1. \/ bootFaults' = bootFaults
          \/ bootFaults < MaxBootFaults /\ bootFaults' = bootFaults + 1
      BY DEF BT!Next, BT!vars, BT!Launch, BT!NoToken, BT!Token, BT!Create, BT!Alter,
             BT!Refused, BT!AskOmlx, BT!NoDm20, BT!AskDm20, BT!End, BT!Kill,
             BT!ServiceTurns, BT!Fault
    <2> QED BY <1>0, <2>1 DEF BootBounds
  <1> QED BY <1>1, <1>2, <1>3 DEF BootBounds

LEMMA BootTypeOK == BootInv /\ BootBounds => BT!TypeOK
  BY DEF BootInv, BootType, Job, BootBounds, BT!TypeOK

\* Where clicks and loops are; the rest of the type of Lifecycle is LifeType.
Press == [at : {"none", "calling", "recording", "readying", "starting", "over"},
          ch : Channel]
LifeBounds ==
    /\ step \in 1 .. 12
    /\ loops \subseteq Channel /\ doomed \subseteq Channel /\ late \subseteq Channel
    /\ press \in [User -> Press] /\ half \subseteq User

LEMMA LifeBoundsStart ==
    ASSUME TableAssumption, LC!Init
    PROVE  LifeBounds
  <1>1. LC!Rest \in Press
    BY DEF TableAssumption, LC!Rest, Press
  <1> QED BY <1>1 DEF LC!Init, LifeBounds

LEMMA PressMoves ==
    ASSUME LifeBounds, NEW k \in User,
           NEW a \in {"none", "calling", "recording", "readying", "starting", "over"},
           LC!Move(k, a)
    PROVE  press' \in [User -> Press]
  <1>1. press[k] \in Press /\ press \in [User -> Press]
    BY DEF LifeBounds
  <1>2. PICK r : r = [press[k] EXCEPT !.at = a]
    OBVIOUS
  <1>3. r \in Press
    BY <1>1, <1>2 DEF Press
  <1>4. press' = [press EXCEPT ![k] = r]
    BY <1>2 DEF LC!Move
  <1> QED BY <1>1, <1>3, <1>4

LEMMA LifeBoundsNext ==
    ASSUME LifeInv, LifeBounds, [LC!Next]_LC!vars
    PROVE  LifeBounds'
  <1>1. CASE LC!Starting
    <2>1. UNCHANGED <<doomed, press, late, half>> /\ step' = step + 1
          /\ (loops' = loops \/ loops' \subseteq Channel)
      BY <1>1 DEF LC!Starting, LC!StartQuiet, LC!StartViews, LC!StartDriver,
                  LC!StartQueue, LC!StartClient, LC!StartTask, LC!StartCogs, LC!Resume,
                  LC!Done, LC!clickVars
    <2>2. mode = "setup"
      BY <1>1 DEF LC!Starting, LC!StartQuiet, LC!StartViews, LC!StartDriver,
                  LC!StartQueue, LC!StartClient, LC!StartTask, LC!StartCogs, LC!Resume,
                  LC!Due
    <2>3. step \in 1 .. 11
      BY <2>2, SetupOrder DEF LifeInv, StartedBy
    <2>4. step' \in 1 .. 12
      BY <2>1, <2>3
    <2> QED BY <2>1, <2>4 DEF LifeBounds
  <1>2. CASE LC!Quit
    BY <1>2 DEF LC!Quit, LC!clickVars, LifeBounds
  <1>3. ASSUME NEW k \in User,
               LC!Arrive(k) \/ LC!Call(k) \/ LC!Record(k) \/ LC!Ready(k) \/ LC!StartLoop(k)
        PROVE  LifeBounds'
    <2>1. press' \in [User -> Press]
      <3>1. CASE LC!Arrive(k)
        BY <3>1 DEF LC!Arrive, LifeBounds, Press
      <3>2. CASE LC!Call(k)
        BY <3>2, PressMoves DEF LC!Call
      <3>3. CASE LC!Record(k)
        BY <3>3, PressMoves DEF LC!Record
      <3>4. CASE LC!Ready(k)
        BY <3>4, PressMoves DEF LC!Ready
      <3>5. CASE LC!StartLoop(k)
        BY <3>5, PressMoves DEF LC!StartLoop
      <3> QED BY <1>3, <3>1, <3>2, <3>3, <3>4, <3>5
    <2>2. step' = step /\ doomed' = doomed
      BY <1>3 DEF LC!Arrive, LC!Call, LC!Record, LC!Ready, LC!StartLoop
    <2>3. press[k].ch \in Channel
      BY DEF LifeBounds, Press
    <2>4. loops' \subseteq loops \cup {press[k].ch} /\ late' \subseteq late \cup {press[k].ch}
      BY <1>3 DEF LC!Arrive, LC!Call, LC!Record, LC!Ready, LC!StartLoop
    <2>5. half' \subseteq half \cup {k}
      BY <1>3 DEF LC!Arrive, LC!Call, LC!Record, LC!Ready, LC!StartLoop
    <2> QED BY <2>1, <2>2, <2>3, <2>4, <2>5 DEF LifeBounds
  <1>4. CASE LC!Poll
    BY <1>4 DEF LC!Poll, LifeBounds
  <1>5. CASE LC!Ending
    <2>1. UNCHANGED <<press, late, half>> /\ loops' \subseteq loops
          /\ doomed' \subseteq doomed \cup loops
      BY <1>5 DEF LC!Ending, LC!StopTask, LC!ListLoops, LC!StopLoop, LC!LoopsStopped,
                  LC!StopQueue, LC!Drained, LC!CloseClient, LC!CloseGateway, LC!clickVars
    <2>2. mode = "closing" /\ step' \in {step, step + 1}
      BY <1>5 DEF LC!Ending, LC!StopTask, LC!ListLoops, LC!StopLoop, LC!LoopsStopped,
                  LC!StopQueue, LC!Drained, LC!CloseClient, LC!CloseGateway, LC!Stopped,
                  LC!Stopping
    <2>3. step \in 1 .. 9
      BY <2>2, ClosingOrder DEF LifeInv, StoppedBy
    <2>4. step' \in 1 .. 12
      BY <2>2, <2>3
    <2> QED BY <2>1, <2>4 DEF LifeBounds
  <1>6. CASE UNCHANGED LC!vars
    BY <1>6 DEF LC!vars, LifeBounds
  <1> QED BY <1>1, <1>2, <1>3, <1>4, <1>5, <1>6 DEF LC!Next, LC!Clicking

LEMMA LifeTypeOK == LifeInv /\ LifeBounds => LC!TypeOK
  BY SetupOrder DEF LifeInv, LifeType, LifeBounds, Press, LC!TypeOK

\* The bounds of the choice; the rest of its type is ChoiceType, and what is
\* counted is bounded by the decisions made.
ChoiceBounds ==
    /\ coin \in [Key -> BOOLEAN] /\ Len(cache) <= CacheMax
    /\ spans["all"] <= MaxDecisions
    /\ target \in [pick : User, among : SUBSET User]

LEMMA ChoiceBoundsStart ==
    ASSUME TableAssumption, SD!Init
    PROVE  ChoiceBounds
  <1>1. MaxDecisions \in Nat /\ CacheMax \in Nat
    BY DEF TableAssumption, ChoiceConstants
  <1>2. SD!Nobody \in User
    BY DEF TableAssumption, SD!Nobody
  <1>3. Len(cache) <= CacheMax /\ spans["all"] <= MaxDecisions
    BY <1>1 DEF SD!Init
  <1>4. target \in [pick : User, among : SUBSET User]
    BY <1>2 DEF SD!Init
  <1> QED BY <1>3, <1>4 DEF SD!Init, ChoiceBounds

\* What is kept is at most one longer, and never longer than CacheMax.
LEMMA PutBound ==
    ASSUME cache \in Seq([key : Asked, choice : Named]), Len(cache) <= CacheMax,
           CacheMax \in Nat, NEW k \in Asked, NEW c \in Named
    PROVE  Len(SD!Put(k, c)) <= CacheMax
  <1> DEFINE E == [key : Asked, choice : Named]
             New == [key |-> k, choice |-> c]
             Over == [i \in 1 .. Len(cache) |-> IF cache[i].key = k THEN New ELSE cache[i]]
             s == IF SD!Cached(k) # {} THEN Over ELSE Append(cache, New)
  <1>1. New \in E
    OBVIOUS
  <1>2. Over \in Seq(E) /\ Len(Over) = Len(cache)
    <2>1. Over \in [1 .. Len(cache) -> E]
      <3> HIDE DEF New
      <3>1. \A i \in 1 .. Len(cache) : cache[i] \in E
        BY ElementOfSeq
      <3> QED BY <1>1, <3>1
    <2>2. Len(cache) \in Nat
      OBVIOUS
    <2> HIDE DEF Over, E
    <2>3. Over \in Seq(E)
      BY <2>1, <2>2
    <2>4. Len(Over) \in Nat /\ 1 .. Len(Over) = 1 .. Len(cache)
      BY <2>1, <2>3, LenProperties
    <2> QED BY <2>2, <2>3, <2>4
  <1>3. Append(cache, New) \in Seq(E) /\ Len(Append(cache, New)) = Len(cache) + 1
    <2> HIDE DEF New, E
    <2> QED BY <1>1, AppendProperties DEF E
  <1>4. s \in Seq(E) /\ Len(s) <= CacheMax + 1 /\ Len(s) \in Nat
    <2>1. Len(cache) \in Nat
      OBVIOUS
    <2> HIDE DEF Over, E
    <2> QED BY <1>2, <1>3, <2>1
  <1>5. SD!Put(k, c) = IF Len(s) > CacheMax THEN Tail(s) ELSE s
    BY DEF SD!Put
  <1> HIDE DEF s, E
  <1>6. Len(s) > CacheMax => Len(Tail(s)) = Len(s) - 1
    <2>1. Len(s) > CacheMax => s # <<>>
      BY <1>4
    <2> QED BY <1>4, <2>1, HeadTailProperties
  <1> QED BY <1>4, <1>5, <1>6

LEMMA ChoiceBoundsNext ==
    ASSUME TableAssumption, ChoiceInv, ChoiceBounds, [SD!Next]_SD!vars
    PROVE  ChoiceBounds'
  <1>0. /\ MaxDecisions \in Nat /\ CacheMax \in Nat /\ spans["all"] \in Nat /\ spans \in Spans
        /\ cache \in Seq([key : Asked, choice : Named])
        /\ ask \in [Slot -> [on : BOOLEAN, key : Asked, among : SUBSET User]]
    BY DEF TableAssumption, ChoiceConstants, ChoiceInv, ChoiceType, Spans
  <1>1. coin' \in [Key -> BOOLEAN]
    BY DEF SD!Next, SD!vars, SD!ByChance, SD!FromCache, SD!AskModel, SD!ModelAnswers,
           SD!ModelFails, ChoiceBounds
  <1>2. spans'["all"] <= MaxDecisions
    <2>1. \/ spans' = spans
          \/ /\ spans["all"] < MaxDecisions
             /\ \E path, why : SD!Record(path, why)
      BY DEF SD!Next, SD!vars, SD!ByChance, SD!FromCache, SD!AskModel, SD!ModelAnswers,
             SD!ModelFails, SD!Room
    <2>2. ASSUME NEW path, NEW why, SD!Record(path, why)
          PROVE  spans'["all"] = spans["all"] + 1
      BY <1>0, <2>2 DEF SD!Record, Spans
    <2> QED BY <1>0, <2>1, <2>2 DEF ChoiceBounds
  <1>3. Len(cache') <= CacheMax
    <2>1. CASE UNCHANGED cache
      BY <2>1 DEF ChoiceBounds
    <2>2. ASSUME NEW s \in Slot, SD!ModelAnswers(s)
          PROVE  Len(cache') <= CacheMax
      <3>1. PICK ids \in SUBSET ask[s].among \ {{}} : \E first \in ids :
               cache' = SD!Put(ask[s].key, [ids |-> ids, first |-> first])
        BY <2>2 DEF SD!ModelAnswers
      <3>2. PICK first \in ids : cache' = SD!Put(ask[s].key, [ids |-> ids, first |-> first])
        BY <3>1
      <3>3. [ids |-> ids, first |-> first] \in Named /\ ask[s].key \in Asked
        BY <1>0 DEF Named, SD!Choice
      <3> QED BY <1>0, <3>2, <3>3, PutBound DEF ChoiceBounds
    <2> QED BY <2>1, <2>2 DEF SD!Next, SD!vars, SD!ByChance, SD!FromCache, SD!AskModel,
                              SD!ModelFails
  <1>4. target' \in [pick : User, among : SUBSET User]
    <2>1. CASE UNCHANGED target
      BY <2>1 DEF ChoiceBounds
    <2>2. ASSUME NEW among \in SUBSET User, NEW how, NEW p \in among,
                 SD!Decided(how, p, among)
          PROVE  target' \in [pick : User, among : SUBSET User]
      BY <2>2 DEF SD!Decided
    <2>3. ASSUME NEW k \in Key, NEW among \in SUBSET User,
                 SD!ByChance(k, among) \/ SD!FromCache(k, among)
          PROVE  target' \in [pick : User, among : SUBSET User]
      <3>1. CASE SD!ByChance(k, among)
        BY <2>2, <3>1 DEF SD!ByChance
      <3>2. CASE SD!FromCache(k, among)
        <4>1. PICK i \in 1 .. Len(cache) :
                 /\ cache[i].choice.ids \subseteq among
                 /\ SD!Decided("cached", cache[i].choice.first, among)
          BY <3>2 DEF SD!FromCache, SD!Cached
        <4>2. cache[i].choice.first \in cache[i].choice.ids
          <5>1. cache[i] \in [key : Asked, choice : Named]
            BY <1>0, ElementOfSeq
          <5> QED BY <5>1 DEF Named
        <4> QED BY <2>2, <4>1, <4>2
      <3> QED BY <2>3, <3>1, <3>2
    <2>4. ASSUME NEW s \in Slot, SD!ModelAnswers(s) \/ SD!ModelFails(s)
          PROVE  target' \in [pick : User, among : SUBSET User]
      <3>1. ask[s].among \in SUBSET User
        BY <1>0
      <3>2. \E how : \E p \in ask[s].among : SD!Decided(how, p, ask[s].among)
        <4>1. CASE SD!ModelAnswers(s)
          <5>1. PICK ids \in SUBSET ask[s].among \ {{}} : \E first \in ids :
                   SD!Decided("answered", first, ask[s].among)
            BY <4>1 DEF SD!ModelAnswers
          <5> QED BY <5>1
        <4>2. CASE SD!ModelFails(s)
          <5>1. PICK why \in SD!Reason : \E p \in ask[s].among :
                   SD!Decided(IF why = "refusal" THEN "refused" ELSE "failed", p,
                              ask[s].among)
            BY <4>2 DEF SD!ModelFails
          <5> QED BY <5>1
        <4> QED BY <2>4, <4>1, <4>2
      <3> QED BY <2>2, <3>1, <3>2
    <2>5. ASSUME NEW k \in Key, NEW among, NEW s \in Slot, SD!AskModel(s, k, among)
          PROVE  UNCHANGED target
      BY <2>5 DEF SD!AskModel
    <2> QED BY <2>1, <2>3, <2>4, <2>5 DEF SD!Next, SD!vars
  <1> QED BY <1>1, <1>2, <1>3, <1>4 DEF ChoiceBounds

LEMMA ChoiceTypeOK ==
    ASSUME TableAssumption, ChoiceInv, ChoiceBounds
    PROVE  SD!TypeOK
  <1>1. Asked = Key
    BY DEF TableAssumption, ChoiceConstants, Asked, SD!NoAsk
  <1>2. cache \in Seq([key : Key, choice : SD!Choice])
    <2> DEFINE S == [key : Asked, choice : Named]
               T == [key : Key, choice : SD!Choice]
    <2>1. S \subseteq T
      BY <1>1 DEF Named
    <2>2. cache \in Seq(S)
      BY DEF ChoiceInv, ChoiceType
    <2> HIDE DEF S, T
    <2>3. cache \in [1 .. Len(cache) -> S] /\ Len(cache) \in Nat
      BY <2>2, LenProperties
    <2>4. cache \in [1 .. Len(cache) -> T]
      BY <2>1, <2>3
    <2>5. cache \in Seq(T)
      BY <2>3, <2>4, SeqDef
    <2> QED BY <2>5 DEF T
  <1>3. /\ spans \in Spans /\ truth \in Truths /\ SD!KpisTellTruth
        /\ spans["all"] <= MaxDecisions /\ MaxDecisions \in Nat
    BY DEF TableAssumption, ChoiceConstants, ChoiceInv, ChoiceType, ChoiceBounds
  <1>4. \A w \in {"random", "cached", "answered", "failed", "refused"} :
           truth[w] \in 0 .. MaxDecisions
    <2>1. /\ spans["all"] \in Nat /\ spans["smart"] \in Nat /\ spans["fallback"] \in Nat
          /\ truth["random"] \in Nat /\ truth["cached"] \in Nat /\ truth["answered"] \in Nat
          /\ truth["failed"] \in Nat /\ truth["refused"] \in Nat
      BY <1>3 DEF Spans, Truths
    <2> QED BY <1>3, <2>1 DEF SD!KpisTellTruth
  <1>5. \A c \in {"all", "smart", "fallback", "refusal"} : spans[c] \in 0 .. MaxDecisions
    <2>1. /\ spans["all"] \in Nat /\ spans["smart"] \in Nat /\ spans["fallback"] \in Nat
          /\ spans["refusal"] \in Nat
          /\ truth["random"] \in Nat /\ truth["cached"] \in Nat /\ truth["answered"] \in Nat
          /\ truth["failed"] \in Nat /\ truth["refused"] \in Nat
      BY <1>3 DEF Spans, Truths
    <2> QED BY <1>3, <2>1 DEF SD!KpisTellTruth
  <1>6. /\ spans \in [{"all", "smart", "fallback", "refusal"} -> 0 .. MaxDecisions]
        /\ truth \in [{"random", "cached", "answered", "failed", "refused"}
                        -> 0 .. MaxDecisions]
    BY <1>3, <1>4, <1>5 DEF Spans, Truths
  <1> QED BY <1>1, <1>2, <1>6 DEF ChoiceInv, ChoiceType, ChoiceBounds, SD!TypeOK

\* A turn is of an actor, and of a round no later than the last.
LEMMA TurnOf ==
    ASSUME TableAssumption, NEW t \in 0 .. MaxTurn
    PROVE  CT!ActorAt(t) \in CT!Actor /\ CT!RoundOf(t) \in 1 .. CT!RoundOf(MaxTurn)
  <1>1. Len(Order) \in Nat \ {0} /\ MaxTurn \in Nat
    BY DEF TableAssumption, CombatConstants
  <1>2. PICK n \in Nat \ {0} : n = Len(Order)
    BY <1>1
  <1>3. t % n \in 0 .. n - 1
    BY <1>2
  <1>4. t \div n \in Nat /\ MaxTurn \div n \in Nat
    BY <1>1, <1>2
  <1>5. t \div n <= MaxTurn \div n
    BY <1>1, <1>2
  <1>6. CT!ActorAt(t) \in CT!Actor
    <2>1. (t % n) + 1 \in 1 .. Len(Order)
      BY <1>2, <1>3
    <2> QED BY <1>2, <2>1 DEF CT!ActorAt, CT!Actor
  <1>7. CT!RoundOf(t) \in 1 .. CT!RoundOf(MaxTurn)
    BY <1>2, <1>4, <1>5 DEF CT!RoundOf
  <1> QED BY <1>6, <1>7

\* Combats are counted, and there is one while somebody fights.
FightBounds ==
    /\ fights <= MaxFights /\ (fighting => fights # 0)
    /\ combatFaults \in 0 .. MaxCombatFaults

LEMMA FightBoundsNext ==
    ASSUME TableAssumption, ScreenInv, DodgeInv, FightBounds, [CT!Next]_CT!vars
    PROVE  FightBounds'
  <1>0. /\ MaxFights \in Nat /\ MaxCombatFaults \in Nat /\ fights \in Nat
        /\ fighting \in BOOLEAN
    BY DEF TableAssumption, CombatConstants, ScreenInv, CombatType, DodgeInv, DodgeType
  <1>1. \/ UNCHANGED fights /\ (fighting' = fighting \/ fighting' = FALSE)
        \/ fights < MaxFights /\ fights' = fights + 1 /\ fighting' = TRUE
    <2>1. CASE CT!FightBegins \/ CT!FightEnds \/ CT!MonsterEndsTurn
      BY <2>1 DEF CT!FightBegins, CT!FightEnds, CT!MonsterEndsTurn
    <2>2. CASE CT!CogStep
      BY <2>2 DEF CT!CogStep, CT!NoticeFight, CT!EnterCombat, CT!Posted, CT!NoticeEnd,
                  CT!StripButtons, CT!CloseScreen, CT!Resolved, CT!Refresh, CT!dm20Vars
    <2>3. ASSUME NEW c \in Click, CT!ClickStep(c)
          PROVE  UNCHANGED <<fights, fighting>>
      BY <2>3 DEF CT!ClickStep, CT!EndTurnClicked, CT!AttackClicked, CT!DodgeClicked,
                  CT!CastClicked, CT!Clicked, CT!EndTurnGate, CT!AttackGate,
                  CT!DodgeGate, CT!Gate, CT!CastGate, CT!GateFails, CT!WeaponSubmitted,
                  CT!AttackDispatched, CT!EndTurn, CT!DodgeRow, CT!DodgeEffect,
                  CT!DodgeAdvance, CT!NextTurn, CT!dm20Vars
    <2>4. CASE CT!Restart \/ (\E k \in CT!Card : CT!RenderTask(k)) \/ UNCHANGED CT!vars
      BY <2>4 DEF CT!Restart, CT!RenderTask, CT!vars, CT!dm20Vars
    <2> QED BY <2>1, <2>2, <2>3, <2>4 DEF CT!Next
  <1>2. \/ combatFaults' = combatFaults
        \/ combatFaults < MaxCombatFaults /\ combatFaults' = combatFaults + 1
    <2> USE DEF CT!Fault
    <2>1. CASE CT!FightBegins \/ CT!FightEnds \/ CT!MonsterEndsTurn
      BY <2>1 DEF CT!FightBegins, CT!FightEnds, CT!MonsterEndsTurn
    <2>2. CASE CT!CogStep
      BY <2>2 DEF CT!CogStep, CT!NoticeFight, CT!EnterCombat, CT!Posted, CT!NoticeEnd,
                  CT!StripButtons, CT!CloseScreen, CT!Resolved, CT!Refresh
    <2>3. ASSUME NEW c \in Click, CT!ClickStep(c)
          PROVE  \/ combatFaults' = combatFaults
                 \/ combatFaults < MaxCombatFaults /\ combatFaults' = combatFaults + 1
      BY <2>3 DEF CT!ClickStep, CT!EndTurnClicked, CT!AttackClicked, CT!DodgeClicked,
                  CT!CastClicked, CT!Clicked, CT!EndTurnGate, CT!AttackGate,
                  CT!DodgeGate, CT!Gate, CT!CastGate, CT!GateFails, CT!WeaponSubmitted,
                  CT!AttackDispatched, CT!EndTurn, CT!DodgeRow, CT!DodgeEffect,
                  CT!DodgeAdvance
    <2>4. CASE CT!Restart \/ (\E k \in CT!Card : CT!RenderTask(k)) \/ UNCHANGED CT!vars
      BY <2>4 DEF CT!Restart, CT!RenderTask, CT!vars
    <2> QED BY <2>1, <2>2, <2>3, <2>4 DEF CT!Next
  <1> QED BY <1>0, <1>1, <1>2 DEF FightBounds

\* A message is made ready for each combat at most: once the row says COMBAT, the
\* next one waits for the end of this combat and for another to begin.
ScreenBounds ==
    /\ screens <= fights
    /\ watch = "entering" => screens < fights
    /\ watch = "posting" => screens # 0
    /\ session = "EXPLORATION" /\ fighting => screens < fights
    /\ message \in 0 .. MaxFights /\ blank \subseteq CT!Card
    /\ posted \in [CT!Card -> CT!Render]
    /\ given \in [CT!Card -> Seq(CT!Render)]

\* What is rendered is of a turn and a combat within the bounds.
LEMMA RenderedRender ==
    ASSUME TableAssumption, ScreenInv, DodgeInv, FightBounds
    PROVE  CT!Rendered \in CT!Render
  <1>1. /\ turn \in 0 .. MaxTurn /\ fights \in 0 .. MaxFights
    BY DEF TableAssumption, CombatConstants, ScreenInv, CombatType, DodgeInv, DodgeType,
           FightBounds
  <1>2. CT!View(turn) \subseteq CT!Button
    BY <1>1, TurnOf DEF CT!View, CT!Button
  <1> QED BY <1>1, <1>2 DEF CT!Rendered, CT!Render

\* Without its buttons it still is.
LEMMA BareRender == \A r \in CT!Render : [r EXCEPT !.view = {}] \in CT!Render
  BY DEF CT!Render

LEMMA CogBounds ==
    ASSUME TableAssumption, ScreenInv, DodgeInv, FightBounds, ScreenBounds, CT!CogStep
    PROVE  ScreenBounds'
  <1>0. /\ MaxFights \in Nat /\ fights \in Nat /\ fights <= MaxFights /\ screens \in Nat
        /\ CallbackInv /\ screens <= fights /\ CT!Card = 1 .. MaxFights
        /\ coal \in 0 .. screens
    BY DEF TableAssumption, CombatConstants, ScreenInv, CombatType, FightBounds,
           ScreenBounds, CT!Card
  <1>1. UNCHANGED <<turn, fights, fighting>>
    BY DEF CT!CogStep, CT!NoticeFight, CT!EnterCombat, CT!Posted, CT!NoticeEnd,
           CT!StripButtons, CT!CloseScreen, CT!Resolved, CT!Refresh, CT!dm20Vars
  <1> USE DEF CT!Goto, CT!cogVars, CT!screenVars
  <1>2. CASE CT!NoticeFight
    BY <1>1, <1>2 DEF CT!NoticeFight, ScreenBounds
  <1>3. CASE CT!NoticeEnd
    BY <1>1, <1>3 DEF CT!NoticeEnd, ScreenBounds
  <1>4. CASE CT!EnterCombat
    <2>1. /\ screens' = screens + 1 /\ watch = "entering" /\ UNCHANGED <<session, message, given>>
          /\ watch' \in {"posting", "idle"}
          /\ blank' \subseteq blank \cup {screens + 1}
          /\ posted' = posted \/ posted' = [posted EXCEPT ![screens + 1] = CT!Rendered]
      BY <1>4 DEF CT!EnterCombat
    <2>2. screens < fights /\ session = "COMBAT"
      BY <1>0, <2>1 DEF ScreenBounds, CallbackInv
    <2>3. screens + 1 \in CT!Card
      BY <1>0, <2>2
    <2>4. posted' \in [CT!Card -> CT!Render]
      BY <2>1, RenderedRender DEF ScreenBounds
    <2>5. screens' <= fights' /\ screens' # 0 /\ session' = "COMBAT" /\ watch' # "entering"
      BY <1>0, <1>1, <2>1, <2>2
    <2>6. blank' \subseteq CT!Card
      BY <2>1, <2>3 DEF ScreenBounds
    <2> QED BY <2>1, <2>4, <2>5, <2>6 DEF ScreenBounds
  <1>5. CASE CT!Posted
    <2>1. /\ watch = "posting" /\ watch' = "idle" /\ UNCHANGED <<session, screens, given>>
          /\ message' \in {message, screens} /\ blank' \subseteq blank \cup {screens}
          /\ posted' = posted \/ posted' = [posted EXCEPT ![screens].view = {}]
      BY <1>5 DEF CT!Posted
    <2>2. screens \in CT!Card
      BY <1>0, <2>1 DEF ScreenBounds
    <2>3. posted' \in [CT!Card -> CT!Render]
      <3>1. posted[screens] \in CT!Render /\ posted \in [CT!Card -> CT!Render]
        BY <2>2 DEF ScreenBounds
      <3>2. PICK r \in CT!Render : r = [posted[screens] EXCEPT !.view = {}]
        BY <3>1, BareRender
      <3>3. posted' = posted \/ posted' = [posted EXCEPT ![screens] = r]
        BY <2>1, <3>2
      <3> QED BY <3>1, <3>3
    <2>4. message' \in 0 .. MaxFights
      BY <1>0, <2>1 DEF ScreenBounds
    <2>5. blank' \subseteq CT!Card
      BY <2>1, <2>2 DEF ScreenBounds
    <2>6. session = "COMBAT"
      BY <1>0, <2>1 DEF CallbackInv
    <2> QED BY <1>0, <1>1, <2>1, <2>3, <2>4, <2>5, <2>6 DEF ScreenBounds
  <1>6. CASE CT!StripButtons
    <2>1. 0 \in 0 .. MaxFights
      BY <1>0
    <2> QED BY <1>1, <1>6, <2>1 DEF CT!StripButtons, ScreenBounds
  <1>7. CASE CT!CloseScreen
    BY <1>1, <1>7 DEF CT!CloseScreen, ScreenBounds
  <1>8. CASE CT!Resolved
    BY <1>1, <1>8 DEF CT!Resolved, ScreenBounds
  <1>9. CASE CT!Refresh
    <2>1. /\ watch' = "idle" /\ UNCHANGED <<session, screens, message, blank, posted>>
          /\ \/ given' = given
             \/ given' = [given EXCEPT ![coal] = Append(@, CT!Rendered)]
      BY <1>9 DEF CT!Refresh
    <2>2. given' \in [CT!Card -> Seq(CT!Render)]
      <3>1. PICK r \in CT!Render : r = CT!Rendered
        BY RenderedRender
      <3>2. given \in [CT!Card -> Seq(CT!Render)]
        BY DEF ScreenBounds
      <3>3. CASE coal \in CT!Card
        <4>1. Append(given[coal], r) \in Seq(CT!Render)
          BY <3>2, <3>3, AppendProperties
        <4>2. given' = given \/ given' = [given EXCEPT ![coal] = Append(given[coal], r)]
          BY <2>1, <3>1
        <4> QED BY <3>2, <4>1, <4>2
      <3>4. CASE coal \notin CT!Card
        <4>1. given' = given \/ given' = [k \in CT!Card |-> given[k]]
          BY <2>1, <3>2, <3>4
        <4> QED BY <3>2, <4>1
      <3> QED BY <3>3, <3>4
    <2> QED BY <1>1, <2>1, <2>2 DEF ScreenBounds
  <1> QED BY <1>2, <1>3, <1>4, <1>5, <1>6, <1>7, <1>8, <1>9 DEF CT!CogStep

LEMMA ScreenBoundsNext ==
    ASSUME TableAssumption, ScreenInv, DodgeInv, FightBounds, ScreenBounds,
           [CT!Next]_CT!vars
    PROVE  ScreenBounds'
  <1>0. /\ MaxFights \in Nat /\ fights \in Nat /\ fights <= MaxFights /\ screens \in Nat
        /\ screens <= fights /\ CT!Card = 1 .. MaxFights
    BY DEF TableAssumption, CombatConstants, ScreenInv, CombatType, FightBounds,
           ScreenBounds, CT!Card
  <1>1. CASE CT!FightBegins \/ CT!FightEnds \/ CT!MonsterEndsTurn
    <2>1. /\ UNCHANGED <<watch, session, screens, message, blank, posted, given>>
          /\ fights' = fights + 1 \/ (fights' = fights /\ (fighting' => fighting))
      BY <1>1 DEF CT!FightBegins, CT!FightEnds, CT!MonsterEndsTurn, CT!cogVars,
                  CT!screenVars
    <2> QED BY <1>0, <2>1 DEF ScreenBounds
  <1>2. CASE CT!CogStep
    BY <1>2, CogBounds
  <1>3. CASE \/ \E c \in Click : CT!ClickStep(c)
             \/ \E k \in CT!Card : CT!RenderTask(k)
             \/ UNCHANGED CT!vars
    <2>1. UNCHANGED <<fights, fighting, watch, session, screens, message, blank, posted,
                      given>>
      <3>1. ASSUME NEW c \in Click, CT!ClickStep(c)
            PROVE  UNCHANGED <<fights, fighting, watch, session, screens, message, blank,
                               posted, given>>
        BY <3>1 DEF CT!ClickStep, CT!EndTurnClicked, CT!AttackClicked, CT!DodgeClicked,
                    CT!CastClicked, CT!Clicked, CT!EndTurnGate, CT!AttackGate,
                    CT!DodgeGate, CT!Gate, CT!CastGate, CT!GateFails, CT!WeaponSubmitted,
                    CT!AttackDispatched, CT!EndTurn, CT!DodgeRow, CT!DodgeEffect,
                    CT!DodgeAdvance, CT!NextTurn, CT!dm20Vars, CT!cogVars, CT!screenVars
      <3> QED BY <1>3, <3>1 DEF CT!RenderTask, CT!vars, CT!dm20Vars, CT!cogVars,
                                CT!screenVars
    <2> QED BY <2>1 DEF ScreenBounds
  <1>4. CASE CT!Restart
    <2>1. /\ UNCHANGED <<fights, fighting, session, screens, posted, given>>
          /\ watch' = "idle" /\ message' = 0 /\ blank' = blank \cup ({screens} \ {0})
      BY <1>4 DEF CT!Restart, CT!dm20Vars, CT!screenVars
    <2>2. {screens} \ {0} \subseteq CT!Card /\ 0 \in 0 .. MaxFights
      BY <1>0
    <2> QED BY <2>1, <2>2 DEF ScreenBounds
  <1> QED BY <1>1, <1>2, <1>3, <1>4 DEF CT!Next

\* A click on a button some message displays; once it has passed the gate, it knows
\* the combat it passed in.
ClickRow ==
    [at : {"idle", "asked", "passed", "form", "aimed", "rowed", "affected"},
     kind : CT!Kinds, btn : CT!Button, user : User \cup {CT!NoUser},
     through : 0 .. MaxTurn, fight : 0 .. MaxFights]
Past(r) == r.at \notin {"idle", "asked"} => r.fight # 0
ClicksBound == click \in [Click -> ClickRow] /\ \A c \in Click : Past(click[c])

CondRow == [expires : Nat, turn : Nat, fight : 0 .. MaxFights]

ClickBounds ==
    /\ ClicksBound
    /\ cond \in [CT!Actor -> CondRow]
    /\ stalled \subseteq (1 .. MaxFights) \X (0 .. MaxTurn)

\* Nobody is clicking.
LEMMA IdleRow == TableAssumption => CT!Idle \in ClickRow /\ Past(CT!Idle)
  <1> SUFFICES ASSUME TableAssumption PROVE CT!Idle \in ClickRow /\ Past(CT!Idle)
    OBVIOUS
  <1>1. MaxTurn \in Nat /\ MaxFights \in Nat /\ Len(Order) \in Nat \ {0}
    BY DEF TableAssumption, CombatConstants
  <1>2. Order[1] \in CT!Actor
    BY <1>1 DEF CT!Actor
  <1>3. 1 \in 1 .. CT!RoundOf(MaxTurn)
    <2>1. 0 \in 0 .. MaxTurn
      BY <1>1
    <2>2. CT!RoundOf(0) \in 1 .. CT!RoundOf(MaxTurn)
      BY <2>1, TurnOf
    <2>3. PICK n \in Nat \ {0} : n = Len(Order)
      BY <1>1
    <2>4. 0 \div n = 0
      BY <2>3
    <2>5. CT!RoundOf(0) = 1
      BY <2>3, <2>4 DEF CT!RoundOf
    <2> QED BY <2>2, <2>5
  <1>4. CT!NoButton \in CT!Button
    BY <1>2, <1>3 DEF CT!NoButton, CT!Button
  <1>5. 0 \in 0 .. MaxTurn /\ 0 \in 0 .. MaxFights
    BY <1>1
  <1> QED BY <1>4, <1>5 DEF CT!Idle, CT!Kinds, ClickRow, Past

\* The buttons a message offers are buttons.
LEMMA OfferedButtons ==
    ASSUME ScreenInv, ScreenBounds
    PROVE  CT!Offered \subseteq CT!Button
  <1>1. ASSUME NEW k \in CT!Card PROVE CT!Displayed(k).view \subseteq CT!Button
    <2>1. posted[k] \in CT!Render /\ given[k] \in Seq(CT!Render)
      BY DEF ScreenBounds
    <2>2. InOrder(k) /\ shown[k] \in Nat
      BY DEF ScreenInv, CombatType
    <2>3. Source(k) \in CT!Render
      <3>1. CASE shown[k] = 0
        BY <2>1, <3>1 DEF Source
      <3>2. CASE shown[k] # 0
        <4>1. shown[k] \in 1 .. Len(given[k])
          BY <2>1, <2>2, <3>2 DEF InOrder
        <4> QED BY <2>1, <3>2, <4>1, ElementOfSeq DEF Source
      <3> QED BY <3>1, <3>2
    <2>4. PICK s \in CT!Render : s = Source(k)
      BY <2>3
    <2>5. CT!Displayed(k) = s \/ CT!Displayed(k) = [s EXCEPT !.view = {}]
      BY <2>4 DEF CT!Displayed, Source
    <2>6. CT!Displayed(k) \in CT!Render
      BY <2>5, BareRender
    <2> QED BY <2>6 DEF CT!Render
  <1> QED BY <1>1 DEF CT!Offered

\* Click c goes on, the others wait.
LEMMA OneClickBound ==
    ASSUME ClicksBound, NEW c \in Click, NEW r \in ClickRow, Past(r),
           click' = [click EXCEPT ![c] = r]
    PROVE  ClicksBound'
  <1>1. click' \in [Click -> ClickRow]
    BY DEF ClicksBound
  <1>2. \A d \in Click : click'[d] = IF d = c THEN r ELSE click[d]
    BY DEF ClicksBound
  <1> QED BY <1>1, <1>2 DEF ClicksBound, Past

LEMMA AtBound ==
    ASSUME ClicksBound, NEW c \in Click, NEW phase \in {"aimed", "rowed", "affected"},
           click[c].at \notin {"idle", "asked"}, CT!At(c, phase)
    PROVE  ClicksBound'
  <1>1. click[c] \in ClickRow /\ click[c].fight # 0
    BY DEF ClicksBound, Past
  <1>2. PICK r : r = [click[c] EXCEPT !.at = phase]
    OBVIOUS
  <1>3. r \in ClickRow /\ Past(r)
    BY <1>1, <1>2 DEF ClickRow, Past
  <1>4. click' = [click EXCEPT ![c] = r]
    BY <1>2 DEF CT!At
  <1> QED BY <1>3, <1>4, OneClickBound

LEMMA GateBound ==
    ASSUME TableAssumption, DodgeInv, FightBounds, ClicksBound, NEW c \in Click,
           NEW k, NEW next \in {"passed", "form"}, CT!Gate(c, k, next)
    PROVE  ClicksBound'
  <1>1. PICK b : b = click[c]
    OBVIOUS
  <1>2. b \in ClickRow
    BY <1>1 DEF ClicksBound
  <1>3. PICK r : r = IF CT!Admitted(b.btn, b.user)
                     THEN [b EXCEPT !.at = next, !.user = CT!NoUser, !.through = turn,
                                    !.fight = fights]
                     ELSE CT!Idle
    OBVIOUS
  <1>4. click' = [click EXCEPT ![c] = r]
    BY <1>1, <1>3 DEF CT!Gate
  <1>5. r \in ClickRow /\ Past(r)
    <2>1. CASE CT!Admitted(b.btn, b.user)
      <3>1. fights # 0 /\ fights \in 0 .. MaxFights /\ turn \in 0 .. MaxTurn
        BY <2>1 DEF CT!Admitted, FightBounds, DodgeInv, DodgeType, TableAssumption,
                    CombatConstants
      <3>2. r = [b EXCEPT !.at = next, !.user = CT!NoUser, !.through = turn,
                          !.fight = fights]
        BY <1>3, <2>1
      <3> QED BY <1>2, <3>1, <3>2 DEF ClickRow, Past
    <2>2. CASE ~CT!Admitted(b.btn, b.user)
      BY <1>3, <2>2, IdleRow
    <2> QED BY <2>1, <2>2
  <1> QED BY <1>4, <1>5, OneClickBound

LEMMA ClickedBound ==
    ASSUME TableAssumption, ScreenInv, ScreenBounds, ClicksBound, NEW c \in Click,
           NEW k \in CT!Kinds, CT!Clicked(c, k)
    PROVE  ClicksBound'
  <1>1. PICK b \in CT!Offered, u \in User :
          click' = [click EXCEPT ![c] = [CT!Idle EXCEPT !.at = "asked", !.kind = k,
                                                       !.btn = b, !.user = u]]
    BY DEF CT!Clicked
  <1>2. b \in CT!Button
    BY OfferedButtons
  <1>3. PICK i : i = CT!Idle
    OBVIOUS
  <1>4. i \in ClickRow
    BY <1>3, IdleRow
  <1>5. PICK r : r = [i EXCEPT !.at = "asked", !.kind = k, !.btn = b, !.user = u]
    OBVIOUS
  <1>6. r \in ClickRow /\ Past(r)
    BY <1>2, <1>4, <1>5 DEF ClickRow, Past
  <1>7. click' = [click EXCEPT ![c] = r]
    BY <1>1, <1>3, <1>5
  <1> QED BY <1>6, <1>7, OneClickBound

LEMMA ClickStepBound ==
    ASSUME TableAssumption, ScreenInv, DodgeInv, FightBounds, ScreenBounds, ClickBounds,
           NEW c \in Click, CT!ClickStep(c)
    PROVE  ClickBounds'
  <1>0. /\ ClicksBound /\ click[c] \in ClickRow /\ Past(click[c])
        /\ cond \in [CT!Actor -> CondRow]
        /\ stalled \subseteq (1 .. MaxFights) \X (0 .. MaxTurn)
        /\ MaxFights \in Nat /\ MaxTurn \in Nat
    BY DEF ClickBounds, ClicksBound, TableAssumption, CombatConstants
  <1>1. ASSUME CT!Done(c) PROVE ClicksBound'
    BY <1>0, <1>1, IdleRow, OneClickBound DEF CT!Done
  <1>2. CASE \E k \in CT!Kinds : CT!Clicked(c, k)
    BY <1>0, <1>2, ClickedBound DEF CT!Clicked, ClickBounds
  <1>3. CASE CT!EndTurnGate(c) \/ CT!AttackGate(c) \/ CT!DodgeGate(c)
    <2>1. \E next \in {"passed", "form"}, k \in {"endturn", "attack", "dodge"} :
             CT!Gate(c, k, next)
      BY <1>3 DEF CT!EndTurnGate, CT!AttackGate, CT!DodgeGate
    <2>2. ClicksBound'
      BY <1>0, <2>1, GateBound
    <2>3. UNCHANGED <<cond, stalled>>
      BY <2>1 DEF CT!Gate
    <2> QED BY <2>2, <2>3 DEF ClickBounds
  <1>4. CASE CT!CastGate(c) \/ CT!GateFails(c) \/ CT!AttackDispatched(c) \/ CT!EndTurn(c)
    BY <1>1, <1>4 DEF CT!CastGate, CT!GateFails, CT!AttackDispatched, CT!EndTurn,
                      ClickBounds
  <1>5. CASE CT!WeaponSubmitted(c) \/ CT!DodgeEffect(c)
    <2>1. ClicksBound'
      BY <1>0, <1>5, AtBound DEF CT!WeaponSubmitted, CT!DodgeEffect
    <2> QED BY <1>5, <2>1 DEF CT!WeaponSubmitted, CT!DodgeEffect, ClickBounds
  <1>6. CASE CT!DodgeRow(c)
    <2>1. ClicksBound'
      BY <1>0, <1>6, AtBound DEF CT!DodgeRow
    <2>2. PICK t \in 0 .. MaxTurn : t = click[c].through
      BY <1>0 DEF ClickRow
    <2>3. PICK r : r = [expires |-> CT!RoundOf(t) + 1, turn |-> t,
                        fight |-> click[c].fight]
      OBVIOUS
    <2>4. r \in CondRow
      BY <1>0, <2>2, <2>3, TurnOf DEF ClickRow, CondRow
    <2>5. PICK a : a = click[c].btn.actor
      OBVIOUS
    <2>6. cond' = [cond EXCEPT ![a] = r] \/ cond' = cond
      BY <1>6, <2>2, <2>3, <2>5 DEF CT!DodgeRow
    <2>7. cond' \in [CT!Actor -> CondRow]
      BY <1>0, <2>4, <2>6
    <2> QED BY <1>6, <2>1, <2>7 DEF CT!DodgeRow, ClickBounds
  <1>7. CASE CT!DodgeAdvance(c)
    <2>1. CT!Done(c) /\ UNCHANGED cond /\ click[c].at = "affected"
            /\ stalled' \subseteq stalled \cup {<<click[c].fight, click[c].through>>}
      BY <1>7 DEF CT!DodgeAdvance
    <2>2. click[c].fight \in 1 .. MaxFights /\ click[c].through \in 0 .. MaxTurn
      BY <1>0, <2>1 DEF ClickRow, Past
    <2>3. stalled' \subseteq (1 .. MaxFights) \X (0 .. MaxTurn)
      BY <1>0, <2>1, <2>2
    <2> QED BY <1>0, <1>1, <2>1, <2>3 DEF ClickBounds
  <1> QED BY <1>2, <1>3, <1>4, <1>5, <1>6, <1>7
          DEF CT!ClickStep, CT!EndTurnClicked, CT!AttackClicked, CT!DodgeClicked,
              CT!CastClicked, CT!Kinds

LEMMA ClickBoundsNext ==
    ASSUME TableAssumption, ScreenInv, DodgeInv, FightBounds, ScreenBounds, ClickBounds,
           [CT!Next]_CT!vars
    PROVE  ClickBounds'
  <1>1. ASSUME UNCHANGED <<click, cond, stalled>> PROVE ClickBounds'
    BY <1>1 DEF ClickBounds, ClicksBound
  <1>2. CASE \/ CT!FightBegins \/ CT!FightEnds \/ CT!MonsterEndsTurn \/ CT!CogStep
             \/ \E k \in CT!Card : CT!RenderTask(k)
             \/ UNCHANGED CT!vars
    <2>1. UNCHANGED <<click, cond, stalled>>
      BY <1>2 DEF CT!FightBegins, CT!FightEnds, CT!MonsterEndsTurn, CT!CogStep,
                  CT!NoticeFight, CT!EnterCombat, CT!Posted, CT!NoticeEnd,
                  CT!StripButtons, CT!CloseScreen, CT!Resolved, CT!Refresh,
                  CT!RenderTask, CT!vars
    <2> QED BY <1>1, <2>1
  <1>3. CASE \E c \in Click : CT!ClickStep(c)
    BY <1>3, ClickStepBound
  <1>4. CASE CT!Restart
    <2>1. /\ UNCHANGED cond /\ click' = [c \in Click |-> CT!Idle]
          /\ stalled' = stalled \cup {<<click[c].fight, click[c].through>> :
                                        c \in {d \in Click : CT!Dodging(d)}}
      BY <1>4 DEF CT!Restart
    <2>2. ASSUME NEW c \in Click, CT!Dodging(c)
          PROVE  <<click[c].fight, click[c].through>> \in (1 .. MaxFights) \X (0 .. MaxTurn)
      <3>1. click[c] \in ClickRow /\ Past(click[c])
        BY DEF ClickBounds, ClicksBound
      <3>2. click[c].at \in {"rowed", "affected"}
        BY <2>2 DEF CT!Dodging
      <3>3. MaxFights \in Nat
        BY DEF TableAssumption, CombatConstants
      <3>4. click[c].fight \in 1 .. MaxFights /\ click[c].through \in 0 .. MaxTurn
        BY <3>1, <3>2, <3>3 DEF ClickRow, Past
      <3> QED BY <3>4
    <2>3. stalled' \subseteq (1 .. MaxFights) \X (0 .. MaxTurn)
      BY <2>1, <2>2 DEF ClickBounds
    <2>4. ClicksBound'
      BY <2>1, IdleRow DEF ClicksBound
    <2> QED BY <2>1, <2>3, <2>4 DEF ClickBounds
  <1> QED BY <1>2, <1>3, <1>4 DEF CT!Next

LEMMA CombatBoundsStart ==
    ASSUME TableAssumption, CT!Init
    PROVE  FightBounds /\ ScreenBounds /\ ClickBounds
  <1>1. MaxFights \in Nat /\ MaxCombatFaults \in Nat /\ MaxTurn \in Nat
    BY DEF TableAssumption, CombatConstants
  <1>2. FightBounds
    BY <1>1 DEF CT!Init, FightBounds
  <1>3. CT!NoRender \in CT!Render /\ CT!NoRow \in CondRow
    BY <1>1 DEF CT!NoRender, CT!Render, CT!NoRow, CondRow
  <1>4. /\ screens = 0 /\ fights = 0 /\ watch = "idle" /\ fighting = FALSE /\ message = 0
        /\ blank = {}
    BY DEF CT!Init
  <1>5. posted \in [CT!Card -> CT!Render] /\ given \in [CT!Card -> Seq(CT!Render)]
    <2>1. posted = [k \in CT!Card |-> CT!NoRender] /\ given = [k \in CT!Card |-> <<>>]
      BY DEF CT!Init
    <2>2. <<>> \in Seq(CT!Render)
      OBVIOUS
    <2> QED BY <1>3, <2>1, <2>2
  <1>6. ScreenBounds
    BY <1>1, <1>4, <1>5 DEF ScreenBounds
  <1>7. ClicksBound
    BY IdleRow DEF CT!Init, ClicksBound
  <1>8. cond = [a \in CT!Actor |-> CT!NoRow] /\ stalled = {}
    BY DEF CT!Init
  <1> QED BY <1>2, <1>3, <1>6, <1>7, <1>8 DEF ClickBounds

LEMMA CombatTypeOK ==
    ASSUME TableAssumption, ScreenInv, DodgeInv, FightBounds, ScreenBounds, ClickBounds
    PROVE  CT!TypeOK
  <1>1. MaxFights \in Nat /\ MaxTurn \in Nat
    BY DEF TableAssumption, CombatConstants
  <1>2. turn \in 0 .. MaxTurn /\ fighting \in BOOLEAN /\ fights \in 0 .. MaxFights
    BY <1>1 DEF DodgeInv, DodgeType, FightBounds
  <1>3. screens \in 0 .. MaxFights /\ coal \in 0 .. MaxFights
    BY <1>1, <1>2 DEF ScreenInv, CombatType, ScreenBounds
  <1>4. \A k \in CT!Card : shown[k] <= latest[k] /\ latest[k] = Len(given[k])
    BY DEF ScreenInv, InOrder
  <1>5. click \in [Click -> [at : {"idle", "asked", "passed", "form", "aimed",
                                  "rowed", "affected"},
                             kind : CT!Kinds, btn : CT!Button,
                             user : User \cup {CT!NoUser},
                             through : Nat, fight : 0 .. MaxFights]]
    <2>1. ClickRow \subseteq [at : {"idle", "asked", "passed", "form", "aimed",
                                   "rowed", "affected"},
                              kind : CT!Kinds, btn : CT!Button,
                              user : User \cup {CT!NoUser},
                              through : Nat, fight : 0 .. MaxFights]
      BY <1>1 DEF ClickRow
    <2> QED BY <2>1 DEF ClickBounds, ClicksBound
  <1>6. /\ session \in {"EXPLORATION", "COMBAT"} /\ bare \in [CT!Card -> BOOLEAN]
        /\ watch \in {"idle", "entering", "posting", "stripping", "closing", "resolving"}
    BY DEF ScreenInv, CombatType, CallbackInv
  <1>7. /\ message \in 0 .. MaxFights /\ blank \subseteq CT!Card
        /\ posted \in [CT!Card -> CT!Render] /\ given \in [CT!Card -> Seq(CT!Render)]
    BY DEF ScreenBounds
  <1>8. /\ cond \in [CT!Actor -> [expires : Nat, turn : Nat, fight : 0 .. MaxFights]]
        /\ stalled \subseteq (1 .. MaxFights) \X (0 .. MaxTurn)
        /\ combatFaults \in 0 .. MaxCombatFaults
    BY DEF ClickBounds, CondRow, FightBounds
  <1> QED BY <1>2, <1>3, <1>4, <1>5, <1>6, <1>7, <1>8 DEF CT!TypeOK

-----------------------------------------------------------------------------
(* The whole: a step of the table is a step of a part, and leaves what the     *)
(* others have alone.                                                          *)

LEMMA PartsStart ==
    TableInit => CT!Init /\ CO!Init /\ SD!Init /\ LC!Init /\ BT!Init
  BY DEF TableInit

LEMMA OnePartMoves ==
    ASSUME TableNext \/ UNCHANGED tableVars
    PROVE  /\ [CT!Next]_CT!vars /\ [CO!Next]_CO!vars /\ [SD!Next]_SD!vars
           /\ [LC!Next]_LC!vars /\ [BT!Next]_BT!vars
  <1>1. Fighting \/ UNCHANGED combatVars
    BY DEF TableNext, Playing, Editing, Choosing, Living, Booting, Only, tableVars
  <1>2. Editing \/ UNCHANGED editVars
    BY DEF TableNext, Playing, Fighting, Choosing, Living, Booting, Only, tableVars
  <1>3. Choosing \/ UNCHANGED choiceVars
    BY DEF TableNext, Playing, Fighting, Editing, Living, Booting, Only, tableVars
  <1>4. Living \/ UNCHANGED lifeVars
    BY DEF TableNext, Playing, Fighting, Editing, Choosing, Booting, Only, tableVars
  <1>5. Booting \/ UNCHANGED bootVars
    BY DEF TableNext, Playing, Fighting, Editing, Choosing, Living, Only, tableVars
  <1>6. [CT!Next]_CT!vars
    BY <1>1 DEF Fighting, combatVars, CT!vars, CT!dm20Vars, CT!cogVars, CT!screenVars
  <1>7. [CO!Next]_CO!vars
    BY <1>2 DEF Editing, editVars, CO!vars, CO!channelVars
  <1>8. [SD!Next]_SD!vars
    BY <1>3 DEF Choosing, choiceVars, SD!vars
  <1>9. [LC!Next]_LC!vars
    BY <1>4 DEF Living, lifeVars, LC!vars
  <1>10. [BT!Next]_BT!vars
    BY <1>5 DEF Booting, bootVars, BT!vars
  <1> QED BY <1>6, <1>7, <1>8, <1>9, <1>10

\* The inductive invariants of the parts, together.
TableInv == BootInv /\ LifeInv /\ ChoiceInv /\ ScreenInv /\ DodgeInv /\ CP!SlotInv

LEMMA TableInvInit == TableInit => TableInv
  BY PartsStart, BootInit, LifeInit, ChoiceInit, ScreenInit, DodgeInit, SameSlots,
     CP!SlotInit DEF TableInv

LEMMA TableInvNext == TableInv /\ [TableNext]_tableVars => TableInv'
  <1> SUFFICES ASSUME TableInv, TableNext \/ UNCHANGED tableVars PROVE TableInv'
    OBVIOUS
  <1>1. /\ [CT!Next]_CT!vars /\ [CO!Next]_CO!vars /\ [SD!Next]_SD!vars
        /\ [LC!Next]_LC!vars /\ [BT!Next]_BT!vars
    BY OnePartMoves
  <1> QED BY <1>1, BootNext, LifeNext, ChoiceNext, ScreenNext, DodgeNext, SlotsNext
          DEF TableInv

THEOREM TableInvariant == TableSpec => []TableInv
  BY TableInvInit, TableInvNext, PTL DEF TableSpec, TableNext

\* A bot that is up has its whole schema, whatever start was interrupted
\* (preflight_or_exit, run_migrations); a background task finds the stores and the
\* client it uses; after close(), nothing runs but what a click began too late to
\* be stopped (setup_hook, close).
THEOREM TableOrderlyEnds == TableSpec => []OrderlyEnds
  <1>1. TableInv => OrderlyEnds
    BY BootSchemaFirst DEF TableInv, LifeInv, OrderlyEnds
  <1> QED BY <1>1, TableInvariant, PTL

\* Each target choice is counted for what it was, whatever the model and the
\* cache did, and the target is one of the candidates (SmartMonsterDriver).
THEOREM TableKpisTellTruth == TableSpec => []KpisTellTruth
  <1>1. TableInv => KpisTellTruth
    BY DEF TableInv, ChoiceInv, KpisTellTruth
  <1> QED BY <1>1, TableInvariant, PTL

\* The last update a combat or exploration embed was given is on the screen or on
\* its way, unless an error, close() or the end of the message took it.
THEOREM TableNothingForgotten == TableSpec => []NothingForgotten
  <1>1. TableInv => NothingForgotten
    <2>1. CP!SlotInv => CP!NothingForgotten
      BY DEF CP!SlotInv, CP!Kept, CP!NothingForgotten
    <2> QED BY <2>1, SameSlots DEF TableInv, NothingForgotten
  <1> QED BY <1>1, TableInvariant, PTL

\* The coalescers implement the screens the cogs rely on: a message never goes
\* back to an older update, and shows nothing of before close() after it.
THEOREM TableImplementsScreen == TableSpec => ImplementsScreen
  <1>1. TableInit => CO!SC!Init
    BY PartsStart DEF CO!Init, CO!SC!Init
  <1>2. TableInv /\ [TableNext]_tableVars => [CO!SC!Next]_(CO!SC!vars)
    BY OnePartMoves, SlotsNext DEF TableInv
  <1> QED BY <1>1, <1>2, TableInvariant, PTL
          DEF TableSpec, TableNext, ImplementsScreen, CO!ImplementsScreen, CO!SC!Spec

\* Between the callbacks of the cog, a channel in combat has its one, latest
\* screen, unless it could not be posted or a restart lost it (_enter_combat,
\* _exit_combat, on_resolved_combat).
THEOREM TableScreenPerCombat == TableSpec => []ScreenPerCombat
  <1>1. TableInv => ScreenPerCombat
    BY DEF TableInv, ScreenInv, CallbackInv, ScreenPerCombat, CT!ScreenPerCombat
  <1> QED BY <1>1, TableInvariant, PTL

\* A combat message never goes back to an earlier turn, nor ahead of dm20,
\* whatever the render task, the clicks and dm20 do in between.
THEOREM TableScreenForward == TableSpec => ScreenForward
  <1>1. TableInv => ShowSources
    BY DisplayedSource, SourcePlace DEF TableInv, ScreenInv, ShowSources
  <1>2. ASSUME TableInv, [TableNext]_tableVars, ShowSources, ShowSources'
        PROVE  \A k \in CT!Card : /\ ~CT!Earlier(CT!Displayed(k)', CT!Displayed(k))
                                  /\ ~CT!Earlier(CT!Rendered', CT!Displayed(k)')
    <2>1. ScreenInv /\ ScreenInv' /\ \A k \in CT!Card : Forward(k)
      BY <1>2, OnePartMoves, ScreenNext DEF TableInv
    <2>2. ASSUME NEW k \in CT!Card
          PROVE  /\ ~CT!Earlier(CT!Displayed(k)', CT!Displayed(k))
                 /\ ~CT!Earlier(CT!Rendered', CT!Displayed(k)')
      <3>1. ~CT!Earlier(CT!Displayed(k)', CT!Displayed(k))
        BY <1>2, <2>1 DEF Forward, CT!Earlier, ShowSources
      <3>2. ~CT!Earlier(CT!Rendered', CT!Displayed(k)')
        <4>1. /\ CT!Displayed(k)'.fight \in Nat /\ CT!Displayed(k)'.turn \in Nat
              /\ \/ CT!Displayed(k)'.fight < fights'
                 \/ CT!Displayed(k)'.fight = fights' /\ CT!Displayed(k)'.turn <= turn'
          BY <1>2, PlaceFields DEF ShowSources, NotAhead
        <4>2. /\ CT!Rendered'.fight = fights' /\ CT!Rendered'.turn = turn'
              /\ fights' \in Nat /\ turn' \in Nat
          BY <2>1 DEF CT!Rendered, ScreenInv, CombatType
        <4> QED BY <4>1, <4>2 DEF CT!Earlier
      <3> QED BY <3>1, <3>2
    <2> QED BY <2>2
  <1> QED BY <1>1, <1>2, TableInvariant, PTL
          DEF TableSpec, TableNext, ScreenForward, CT!ScreenForward

\* A dodge whose turn still goes on is on its way to ending it, or could not, or
\* was cut off, whatever of it failed before (DodgeButton.callback).
THEOREM TableDodgeEndsTurn == TableSpec => []DodgeEndsTurn
  <1>1. TableInv => DodgeEndsTurn
    BY DEF TableInv, DodgeInv, DodgeEndsTurn
  <1> QED BY <1>1, TableInvariant, PTL

-----------------------------------------------------------------------------
(* The types of the whole. *)

\* What PartyMode does not do leaves its variables alone.
LEMMA PartyMoves ==
    ASSUME TableNext \/ UNCHANGED tableVars
    PROVE  [Next]_vars
  <1>1. Playing \/ UNCHANGED partyVars
    BY DEF TableNext, Fighting, Editing, Choosing, Living, Booting, Only, tableVars
  <1> QED BY <1>1 DEF Playing, partyVars, vars, batchVars, taskVars, dm20Vars, histVars

\* The bounds of the parts, together with PartyMode's type.
TableBounds ==
    /\ TypeInv /\ BootBounds /\ LifeBounds /\ ChoiceBounds
    /\ FightBounds /\ ScreenBounds /\ ClickBounds
    /\ CP!BudgetInv /\ CP!ClockInv

LEMMA TableBoundsInit == TableInit => TableBounds
  <1> SUFFICES ASSUME TableInit PROVE TableBounds
    OBVIOUS
  <1>1. Init /\ CT!Init /\ CO!Init /\ SD!Init /\ LC!Init /\ BT!Init
    BY DEF TableInit
  <1>2. TypeInv /\ CP!BudgetInv /\ CP!ClockInv
    BY <1>1, TypeInit, EditBounds
  <1>3. BootBounds /\ LifeBounds /\ ChoiceBounds
    BY <1>1, TableAssumption, BootBoundsStart, LifeBoundsStart, ChoiceBoundsStart
  <1>4. FightBounds /\ ScreenBounds /\ ClickBounds
    BY <1>1, TableAssumption, CombatBoundsStart
  <1> QED BY <1>2, <1>3, <1>4 DEF TableBounds

LEMMA TableBoundsNext ==
    TableInv /\ TableBounds /\ [TableNext]_tableVars => TableBounds'
  <1> SUFFICES ASSUME TableInv, TableBounds, TableNext \/ UNCHANGED tableVars
               PROVE  TableBounds'
    OBVIOUS
  <1>1. /\ [CT!Next]_CT!vars /\ [CO!Next]_CO!vars /\ [SD!Next]_SD!vars
        /\ [LC!Next]_LC!vars /\ [BT!Next]_BT!vars /\ [Next]_vars
    BY OnePartMoves, PartyMoves
  <1>2. TypeInv'
    BY <1>1, TypeStep, SawStep DEF TableBounds, TypeInv
  <1>3. CP!BudgetInv' /\ CP!ClockInv'
    BY <1>1, EditBounds DEF TableBounds
  <1>4. BootBounds' /\ LifeBounds' /\ ChoiceBounds'
    BY <1>1, TableAssumption, BootBoundsNext, LifeBoundsNext, ChoiceBoundsNext
       DEF TableInv, TableBounds
  <1>5. FightBounds' /\ ScreenBounds' /\ ClickBounds'
    BY <1>1, TableAssumption, FightBoundsNext, ScreenBoundsNext, ClickBoundsNext
       DEF TableInv, TableBounds
  <1> QED BY <1>2, <1>3, <1>4, <1>5 DEF TableBounds

\* Every part keeps its type: among others, a channel edits no more often than its
\* budget (EditBudget.acquire), a message is made for each combat at most, a click
\* acts for a button that was offered, and the choices kept never outgrow the cache.
THEOREM TableKeepsTypes == TableSpec => []TableTypeOK
  <1>1. TableInv /\ TableBounds => TableTypeOK
    <2> SUFFICES ASSUME TableInv, TableBounds PROVE TableTypeOK
      OBVIOUS
    <2>1. TypeOK /\ BT!TypeOK /\ LC!TypeOK
      BY BootTypeOK, LifeTypeOK DEF TableInv, TableBounds, TypeInv
    <2>2. CT!TypeOK
      BY TableAssumption, CombatTypeOK DEF TableInv, TableBounds
    <2>3. SD!TypeOK
      BY TableAssumption, ChoiceTypeOK DEF TableInv, TableBounds
    <2>4. CO!TypeOK
      BY EditBounds DEF TableInv, TableBounds
    <2> QED BY <2>1, <2>2, <2>3, <2>4 DEF TableTypeOK
  <1>2. TableSpec => [](TableInv /\ TableBounds)
    BY TableInvInit, TableInvNext, TableBoundsInit, TableBoundsNext, PTL
       DEF TableSpec, TableNext
  <1> QED BY <1>1, <1>2, PTL
=============================================================================
