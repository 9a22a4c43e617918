------------------------------ MODULE Backfill ------------------------------
(***************************************************************************)
(* persistence/pc_classes_repo.py and tools/backfill_pc_classes.py: the    *)
(* table that says which class and subclass a character has, and the tool  *)
(* that fills it for the characters dm20 has already.  The tool is a       *)
(* process of its own; uploads in the bot (Ingest) and operators write the *)
(* same rows, nobody in a transaction that spans a read and a write.       *)
(***************************************************************************)
EXTENDS FiniteSets, Naturals

CONSTANTS Char, Channel,
          Home,        \* Home[c]: the channel whose campaign c plays in
          MaxRuns,     \* bound: runs of the tool
          MaxFaults    \* bound: calls of dm20 or SQLite that fail

VARIABLES known,   \* characters dm20 has
          row,     \* row[c]: "none", "bare" (no subclass), "full"
          phase,   \* the tool: "off", "collect", "apply"
          force, dry,
          toList,  \* channels to ask dm20 about
          failed,  \* channels dm20 gave no answer for
          todo,    \* characters collected and not yet dealt with
          found,   \* characters collected
          at,      \* the character being dealt with, and its row as it was read
          errors,  \* characters SQLite refused
          exit,    \* exit code of the last run, 9 before
          due,     \* history: characters dm20 had when the tool was started
          lost,    \* history: characters whose subclass the tool took
          raced,   \* history: those whose row came between its look and its write
          runs, faults

tool == <<phase, force, dry, toList, failed, todo, found, at, errors, exit,
          due>>
vars == <<known, row, tool, lost, raced, runs, faults>>

-----------------------------------------------------------------------------
Row == {"none", "bare", "full"}
Off == [char |-> CHOOSE c \in Char : TRUE, had |-> "off"]

TypeOK ==
    /\ known \subseteq Char /\ row \in [Char -> Row]
    /\ phase \in {"off", "collect", "apply"} /\ force \in BOOLEAN /\ dry \in BOOLEAN
    /\ toList \subseteq Channel /\ failed \subseteq Channel
    /\ todo \subseteq found /\ found \subseteq Char
    /\ at \in [char : Char, had : Row \cup {"off"}] /\ errors \subseteq Char
    /\ exit \in {0, 1, 2, 3, 9} /\ due \subseteq Char /\ lost \subseteq Char /\ raced \subseteq Char
    /\ runs \in 0 .. MaxRuns /\ faults \in 0 .. MaxFaults

Init ==
    /\ known = {} /\ row = [c \in Char |-> "none"]
    /\ phase = "off" /\ force = FALSE /\ dry = FALSE
    /\ toList = {} /\ failed = {} /\ todo = {} /\ found = {} /\ errors = {}
    /\ at = Off /\ exit = 9 /\ lost = {} /\ raced = {} /\ due = {} /\ runs = 0 /\ faults = 0

Fault == faults < MaxFaults /\ faults' = faults + 1

-----------------------------------------------------------------------------
(* The bot and the operator. *)

\* An upload: dm20 has the character; the row is written after it, or is not.
Create(c) ==
    /\ c \notin known /\ known' = known \cup {c}
    /\ UNCHANGED <<row, tool, lost, raced, runs, faults>>

\* upsert by an upload (with a subclass or without) or by hand.
Upsert(c) ==
    /\ c \in known
    /\ \E r \in {"bare", "full"} : row' = [row EXCEPT ![c] = r]
    /\ UNCHANGED <<known, tool, lost, raced, runs, faults>>

-----------------------------------------------------------------------------
(* The tool. *)

Start ==
    /\ phase = "off" /\ runs < MaxRuns /\ runs' = runs + 1
    /\ phase' = "collect" /\ force' \in BOOLEAN /\ dry' \in BOOLEAN
    /\ toList' = Channel /\ failed' = {} /\ todo' = {} /\ found' = {} /\ errors' = {}
    /\ exit' = 9 /\ at' = Off /\ due' = known
    /\ UNCHANGED <<known, row, lost, raced, faults>>

\* collect_rows, a channel at a time: a failing call is noted, not raised.
List(ch) ==
    /\ phase = "collect" /\ ch \in toList /\ toList' = toList \ {ch}
    /\ \/ /\ found' = found \cup {c \in known : Home[c] = ch} /\ todo' = found'
          /\ UNCHANGED <<failed, faults>>
       \/ Fault /\ failed' = failed \cup {ch} /\ UNCHANGED <<todo, found>>
    /\ UNCHANGED <<known, row, phase, force, dry, at, errors, exit, due, lost,
                   raced, runs>>

Collected ==
    /\ phase = "collect" /\ toList = {} /\ phase' = "apply"
    /\ UNCHANGED <<known, row, force, dry, toList, failed, todo, found, at, errors,
                   exit, due, lost, raced, runs, faults>>

\* Whether a row is left as it is.
Skipped(c) == row[c] # "none" /\ ~force

\* _apply_rows_dry_run, and repo.get: a row is left as it is or written next.
Look(c) ==
    /\ phase = "apply" /\ at = Off /\ c \in todo /\ todo' = todo \ {c}
    /\ at' = IF dry \/ Skipped(c) THEN Off ELSE [char |-> c, had |-> row[c]]
    /\ UNCHANGED <<known, row, phase, force, dry, toList, failed, found, errors,
                   exit, due, lost, raced, runs, faults>>

\* repo.upsert of the class alone, for the tool knows no subclass.
Apply ==
    /\ at # Off /\ at' = Off
    /\ row' = [row EXCEPT ![at.char] = "bare"]
    /\ lost' = IF row[at.char] = "full" THEN lost \cup {at.char} ELSE lost
    /\ raced' = IF row[at.char] # at.had THEN raced \cup {at.char} ELSE raced
    /\ UNCHANGED <<known, phase, force, dry, toList, failed, todo, found, errors,
                   exit, due, runs, faults>>

\* A locked database ends the run; another error is noted.
ApplyFails ==
    /\ at # Off /\ at' = Off /\ Fault
    /\ \/ errors' = errors \cup {at.char} /\ UNCHANGED <<phase, exit>>
       \/ phase' = "off" /\ exit' = 3 /\ UNCHANGED errors
    /\ UNCHANGED <<known, row, force, dry, toList, failed, todo, found, due, lost,
                   raced, runs>>

\* Variant: a run that wrote something has succeeded.
CodeHopeful == IF found = {} /\ failed # {} THEN 1 ELSE 0

\* The exit code: nothing says how many rows SQLite refused.
Code == IF failed = {} THEN 0 ELSE IF found = {} THEN 1 ELSE 2

Finish ==
    /\ phase = "apply" /\ todo = {} /\ at = Off
    /\ phase' = "off" /\ exit' = Code
    /\ UNCHANGED <<known, row, force, dry, toList, failed, todo, found, at, errors,
                   due, lost, raced, runs, faults>>

Next == \/ \E c \in Char : Create(c) \/ Upsert(c) \/ Look(c)
        \/ Start \/ (\E ch \in Channel : List(ch)) \/ Collected
        \/ Apply \/ ApplyFails \/ Finish

Spec == Init /\ [][Next]_vars

-----------------------------------------------------------------------------
(* Properties. *)

\* When the tool has reported success, every character dm20 had when it was
\* started has its row, whoever wrote it, or is on the list of errors.
GapClosed == exit = 0 /\ ~dry => \A c \in due : row[c] # "none" \/ c \in errors

\* Without --force the tool takes a subclass only from a row that was not there
\* when it looked.
SubclassKept == ~force => lost' \ lost \subseteq raced' \ raced
=============================================================================
