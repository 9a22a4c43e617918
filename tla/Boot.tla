-------------------------------- MODULE Boot --------------------------------
(***************************************************************************)
(* run.py, bot/__main__.py and bootstrap.py: what happens before the bot   *)
(* is connected.  A process checks the token, brings the schema of the     *)
(* database up to date, looks whether oMLX and dm20 answer, and brings the *)
(* schema up to date once more in setup_hook; or it ends with a code that  *)
(* says why.  Processes share the database: an operator runs the check     *)
(* while the supervisor starts the bot.  Any of them may be killed.        *)
(***************************************************************************)
EXTENDS Naturals, Sequences

CONSTANTS Proc,
          MaxStarts,  \* bound: processes started
          MaxFaults   \* bound: kills, refusals of the database, services that come and go

VARIABLES tables,  \* tables of the database
          column,  \* riposte_timers has consumed_in_round
          omlx,    \* /v1/models answers
          dm20,    \* /v1/mcp/tools lists dm20's tools
          job,     \* job[p]: how p was started and where it is
          code,    \* code[p]: how p ended last
          seen,    \* history: the stages of the preflight p has passed
          starts, faults

vars == <<tables, column, omlx, dm20, job, code, seen, starts, faults>>

-----------------------------------------------------------------------------
\* Two tables of schema.sql, the second with a foreign key to the first.
Script == <<"sessions", "timers">>
Tables == {Script[i] : i \in 1 .. Len(Script)}

\* run.py --check-only or bootstrap.py itself; run.py; run.py --no-preflight or
\* ELDRITCH_ALLOW_OFFLINE_START, and python -m eldritch_dm.bot.
Way == {"check", "run", "bare"}

OK == 0
OMLX_UNREACHABLE == 1
DM20_NOT_LOADED == 2
SCHEMA_FAIL == 3
MISSING_TOKEN == 4
BOT_FAILED == 2
Still == 5   \* no code: not ended, or killed

Off == [at |-> "off", way |-> "check", hook |-> FALSE, line |-> 1]

TypeOK ==
    /\ tables \subseteq Tables /\ column \in BOOLEAN /\ omlx \in BOOLEAN /\ dm20 \in BOOLEAN
    /\ job \in [Proc -> [at : {"off", "token", "ddl", "alter", "omlx", "dm20", "up"},
                         way : Way, hook : BOOLEAN, line : 1 .. Len(Script)]]
    /\ code \in [Proc -> OK .. Still]
    /\ seen \in [Proc -> SUBSET {"schema", "omlx", "dm20"}]
    /\ starts \in 0 .. MaxStarts /\ faults \in 0 .. MaxFaults

\* No database, one from before the column, or one that is up to date.
Init ==
    /\ tables \in {{}, Tables} /\ column \in {FALSE, tables = Tables}
    /\ omlx \in BOOLEAN /\ dm20 \in BOOLEAN
    /\ job = [p \in Proc |-> Off]
    /\ code = [p \in Proc |-> Still]
    /\ seen = [p \in Proc |-> {}]
    /\ starts = 0 /\ faults = 0

Fault == faults < MaxFaults /\ faults' = faults + 1
Go(p, place) == job' = [job EXCEPT ![p].at = place]
Exit(p, c) == job' = [job EXCEPT ![p] = Off] /\ code' = [code EXCEPT ![p] = c]
Pass(p, stage) == seen' = [seen EXCEPT ![p] = @ \cup {stage}]

\* bootstrap(), of the preflight or of setup_hook.
Schema(p, inHook) ==
    job' = [job EXCEPT ![p].at = "ddl", ![p].line = 1, ![p].hook = inHook]

-----------------------------------------------------------------------------
\* The check needs no token.
Launch(p, way) ==
    /\ job[p] = Off /\ starts < MaxStarts /\ starts' = starts + 1
    /\ job' = [job EXCEPT ![p] = [Off EXCEPT !.at = IF way = "check" THEN "ddl" ELSE "token",
                                             !.way = way]]
    /\ code' = [code EXCEPT ![p] = Still] /\ seen' = [seen EXCEPT ![p] = {}]
    /\ UNCHANGED <<tables, column, omlx, dm20, faults>>

\* require_token_or_exit, before the preflight.
NoToken(p) ==
    /\ job[p].at = "token" /\ Exit(p, MISSING_TOKEN)
    /\ UNCHANGED <<tables, column, omlx, dm20, seen, starts, faults>>

Token(p) ==
    /\ job[p].at = "token" /\ Schema(p, job[p].way = "bare")
    /\ UNCHANGED <<tables, column, omlx, dm20, code, seen, starts, faults>>

\* Variant: a database with all its tables is taken to be up to date.
CreateNew(p) ==
    /\ job[p].at = "ddl"
    /\ tables' = tables \cup {Script[job[p].line]}
    /\ IF tables = Tables
       THEN Go(p, IF job[p].hook THEN "up" ELSE "omlx")
       ELSE IF job[p].line = Len(Script) THEN Go(p, "alter")
                                         ELSE job' = [job EXCEPT ![p].line = @ + 1]
    /\ UNCHANGED <<column, omlx, dm20, code, seen, starts, faults>>

\* CREATE TABLE IF NOT EXISTS, statement by statement, each committed.
Create(p) ==
    /\ job[p].at = "ddl"
    /\ tables' = tables \cup {Script[job[p].line]}
    /\ IF job[p].line = Len(Script) THEN Go(p, "alter")
                                    ELSE job' = [job EXCEPT ![p].line = @ + 1]
    /\ UNCHANGED <<column, omlx, dm20, code, seen, starts, faults>>

\* ALTER TABLE; that the column is there already is no error.
Alter(p) ==
    /\ job[p].at = "alter"
    /\ column' = TRUE
    /\ IF job[p].hook THEN Go(p, "up") /\ UNCHANGED seen
                      ELSE Go(p, "omlx") /\ Pass(p, "schema")
    /\ UNCHANGED <<tables, omlx, dm20, code, starts, faults>>

\* The database cannot be opened, is locked for longer than busy_timeout, or full.
Refused(p) ==
    /\ job[p].at \in {"ddl", "alter"} /\ Fault
    /\ Exit(p, IF job[p].hook THEN BOT_FAILED ELSE SCHEMA_FAIL)
    /\ UNCHANGED <<tables, column, omlx, dm20, seen, starts>>

\* That the model is not loaded is only a warning.
AskOmlx(p) ==
    /\ job[p].at = "omlx"
    /\ IF omlx THEN Go(p, "dm20") /\ Pass(p, "omlx") /\ UNCHANGED code
               ELSE Exit(p, OMLX_UNREACHABLE) /\ UNCHANGED seen
    /\ UNCHANGED <<tables, column, omlx, dm20, starts, faults>>

\* No answer, or one without a dm20 tool.
NoDm20(p) ==
    /\ job[p].at = "dm20" /\ ~dm20 /\ Exit(p, DM20_NOT_LOADED)
    /\ UNCHANGED <<tables, column, omlx, dm20, seen, starts, faults>>

\* The check ends here; the bot goes on to setup_hook.
AskDm20(p) ==
    /\ job[p].at = "dm20" /\ dm20 /\ Pass(p, "dm20")
    /\ IF job[p].way = "check" THEN Exit(p, OK) ELSE Schema(p, TRUE) /\ UNCHANGED code
    /\ UNCHANGED <<tables, column, omlx, dm20, starts, faults>>

-----------------------------------------------------------------------------
\* Ctrl-C or SIGTERM ends a bot in order; what else it raises is logged.
End(p) ==
    /\ job[p].at = "up"
    /\ \E c \in {OK, BOT_FAILED} : Exit(p, c)
    /\ UNCHANGED <<tables, column, omlx, dm20, seen, starts, faults>>

Kill(p) ==
    /\ job[p] # Off /\ Fault
    /\ job' = [job EXCEPT ![p] = Off]
    /\ UNCHANGED <<tables, column, omlx, dm20, code, seen, starts>>

ServiceTurns ==
    /\ Fault
    /\ \/ omlx' = ~omlx /\ UNCHANGED dm20
       \/ dm20' = ~dm20 /\ UNCHANGED omlx
    /\ UNCHANGED <<tables, column, job, code, seen, starts>>

Next == \/ \E p \in Proc : \/ \E way \in Way : Launch(p, way)
                           \/ NoToken(p) \/ Token(p) \/ Create(p) \/ Alter(p) \/ Refused(p)
                           \/ AskOmlx(p) \/ NoDm20(p) \/ AskDm20(p) \/ End(p) \/ Kill(p)
        \/ ServiceTurns

Spec == Init /\ [][Next]_vars

-----------------------------------------------------------------------------
(* Properties. *)

Current == tables = Tables /\ column

\* Whatever was killed halfway or runs beside it, a bot that is up, and a process
\* that goes on to ask for oMLX or ends because of it or of dm20, have the whole
\* schema with its column; one that stopped at the database has passed nothing.
\* 2 is also the code of a bot that failed, in its own bootstrap or later.
SchemaFirst ==
    \A p \in Proc :
       /\ job[p].at \in {"omlx", "dm20", "up"} => Current
       /\ code[p] = OMLX_UNREACHABLE => Current /\ seen[p] = {"schema"}
       /\ code[p] = SCHEMA_FAIL => seen[p] = {}
       /\ job[p].at = "up" /\ job[p].way = "run" => seen[p] = {"schema", "omlx", "dm20"}
=============================================================================
