---------------------------- MODULE Eligibility ----------------------------
(***************************************************************************)
(* gameplay/eligibility_loader.py and its wiring in bot/bot.py: which      *)
(* classes may riposte.  The set is loaded from a YAML file at start-up,   *)
(* kept fresh by a task that compares the file's mtime, and handed to the  *)
(* monster driver once.  Operators edit the file while all this runs: what *)
(* the bot does without an await is atomic for its tasks, not for them.    *)
(***************************************************************************)
EXTENDS Naturals

CONSTANTS Homebrew,   \* texts of the file that add to the default set
          MaxEdits,   \* bound: edits
          MaxFaults   \* bound: failing reads, restarts

VARIABLES file,      \* the file: what it says and its mtime
          phase,     \* setup_hook, then poll_once
          current,   \* _current of the watcher, and bot.eligibility_set
          driver,    \* the set the monster driver was built with
          watched,   \* _path: the file was there when the watcher was built
          seen,      \* _last_mtime_ns
          look,      \* the file as it was at the stat of this poll
          missed,    \* history: mtimes whose text was not what was read
          faults

vars == <<file, phase, current, driver, watched, seen, look, missed, faults>>

-----------------------------------------------------------------------------
\* "default": a file that says no more than the built-in set does.
Text == Homebrew \cup {"default", "broken", "missing"}
Sets == Homebrew \cup {"default"}
File == [text : Text, mtime : 0 .. MaxEdits]

TypeOK ==
    /\ file \in File /\ look \in File
    /\ phase \in {"start", "built", "idle", "changed"}
    /\ current \in Sets /\ driver \in Sets \cup {"none"}
    /\ watched \in BOOLEAN /\ seen \in 0 .. MaxEdits
    /\ missed \subseteq 0 .. MaxEdits /\ faults \in 0 .. MaxFaults

Init ==
    /\ file \in [text : Text, mtime : {0}] /\ look = file
    /\ phase = "start" /\ current = "default" /\ driver = "none"
    /\ watched = FALSE /\ seen = 0 /\ missed = {} /\ faults = 0

\* load_eligibility never raises: whatever is wrong, it is the built-in set.
Load(text) == IF text \in Homebrew THEN text ELSE "default"

-----------------------------------------------------------------------------
\* setup_hook loads the set; the watcher looks at the file a moment later.
Boot ==
    /\ phase = "start" /\ phase' = "built"
    /\ current' = Load(file.text) /\ look' = file
    /\ UNCHANGED <<file, driver, watched, seen, missed, faults>>

Watch ==
    /\ phase = "built" /\ phase' = "idle"
    /\ watched' = (file.text # "missing") /\ seen' = file.mtime
    /\ missed' = IF file.mtime = look.mtime THEN {} ELSE {file.mtime}
    /\ UNCHANGED <<file, current, driver, look, faults>>

\* The driver is built with the set of that moment and keeps it.
Build ==
    /\ phase = "idle" /\ driver = "none" /\ driver' = current
    /\ UNCHANGED <<file, phase, current, watched, seen, look, missed, faults>>

\* poll_once: nothing to do without a file or with the mtime of the last time.
Stat ==
    /\ phase = "idle" /\ watched /\ file.text # "missing" /\ file.mtime # seen
    /\ phase' = "changed" /\ look' = file
    /\ UNCHANGED <<file, current, driver, watched, seen, missed, faults>>

\* The default set in place of another counts as a file that could not be read:
\* the last good one stays, and the mtime is remembered all the same.
Accept(set) == current' = IF set = "default" THEN current ELSE set

\* Variant: the mtime is taken when the text has been read.
ReloadLate ==
    /\ phase = "changed" /\ phase' = "idle" /\ seen' = file.mtime
    /\ Accept(Load(look.text)) /\ UNCHANGED <<missed, faults>>
    /\ UNCHANGED <<file, driver, watched, look>>

\* Variant: the mtime of a file that is of no use is not remembered.
ReloadAgain ==
    /\ phase = "changed" /\ phase' = "idle"
    /\ seen' = IF Load(file.text) = "default" THEN seen ELSE look.mtime
    /\ Accept(Load(file.text)) /\ UNCHANGED <<missed, faults>>
    /\ UNCHANGED <<file, driver, watched, look>>

Reload ==
    /\ phase = "changed" /\ phase' = "idle" /\ seen' = look.mtime
    /\ \/ Accept(Load(file.text)) /\ UNCHANGED <<missed, faults>>
       \/ /\ faults < MaxFaults /\ faults' = faults + 1
          /\ Accept("default") /\ missed' = missed \cup {look.mtime}
    /\ UNCHANGED <<file, driver, watched, look>>

-----------------------------------------------------------------------------
Edit ==
    /\ file.mtime < MaxEdits
    /\ \E text \in Text \ {file.text} :
          file' = [text |-> text, mtime |-> file.mtime + 1]
    /\ UNCHANGED <<phase, current, driver, watched, seen, look, missed, faults>>

Restart ==
    /\ phase \in {"built", "idle"} /\ faults < MaxFaults /\ faults' = faults + 1
    /\ phase' = "start" /\ current' = "default" /\ driver' = "none"
    /\ watched' = FALSE /\ seen' = 0 /\ missed' = {}
    /\ UNCHANGED <<file, look>>

Next == Boot \/ Watch \/ Build \/ Stat \/ Reload \/ Edit \/ Restart

\* Start-up goes on, and the task polls once a minute.
Fairness == WF_vars(Boot \/ Watch) /\ WF_vars(Stat \/ Reload)

Spec == Init /\ [][Next]_vars /\ Fairness

-----------------------------------------------------------------------------
(* Properties. *)

\* Between polls, a file whose mtime the watcher remembers is the set in effect,
\* if it adds to the built-in one, unless its read failed or the file changed
\* between the load at start-up and the watcher's first look.
SeenIsLoaded ==
    phase = "idle" /\ watched /\ file.mtime = seen /\ seen \notin missed
    /\ file.text \in Homebrew => current = file.text

\* Every edit is noticed in the end, if the file was there at start-up.
EditsAreSeen ==
    <>[](watched /\ file.text # "missing" => file.mtime = seen)

\* The set in effect follows the file.
FileFollowed == []SeenIsLoaded /\ EditsAreSeen
=============================================================================
