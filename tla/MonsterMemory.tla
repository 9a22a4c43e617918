--------------------------- MODULE MonsterMemory ---------------------------
(***************************************************************************)
(* gameplay/monster_memory.py with a repository (persistence/              *)
(* monster_memory_repo.py): what the monsters of one session remember of   *)
(* the hits they took, loaded on the first recall and written back by      *)
(* flush.  A memory is abstracted to the hits it counts.                   *)
(*                                                                         *)
(* The registry has no lock: recalls, flushes and the purge interleave at  *)
(* their awaits on the repository, each of which is one action.            *)
(***************************************************************************)
EXTENDS Naturals

CONSTANTS Monster,
          Task,       \* coroutines under way at a time
          MaxHits,    \* bound: hits a monster takes in one session
          MaxFaults   \* bound: failed calls of the repository, and crashes

VARIABLES entry,     \* _entries: hits remembered, Absent: no entry
          hydrated,  \* _hydrated
          row,       \* monster_memory_entries
          task,      \* task[t]: where a coroutine is
          hits,      \* history: hits taken since the purge that survived
          torn,      \* history: monsters whose memory a race or an error tore
          faults

memory == <<entry, hydrated>>
vars == <<memory, row, task, hits, torn, faults>>

-----------------------------------------------------------------------------
Absent == MaxHits + 1
Count == 0 .. Absent
Free == [at |-> "free", mon |-> CHOOSE m \in Monster : TRUE, snap |-> Absent]

TypeOK ==
    /\ entry \in [Monster -> Count] /\ row \in [Monster -> Count]
    /\ hydrated \subseteq Monster /\ torn \subseteq Monster
    /\ task \in [Task -> [at : {"free", "loading", "loaded", "flushing", "purging"},
                          mon : Monster, snap : Count]]
    /\ hits \in [Monster -> 0 .. MaxHits] /\ faults \in 0 .. MaxFaults

Init ==
    /\ entry = [m \in Monster |-> Absent] /\ row = [m \in Monster |-> Absent]
    /\ hydrated = {} /\ torn = {}
    /\ task = [t \in Task |-> Free]
    /\ hits = [m \in Monster |-> 0] /\ faults = 0

Become(t, where, m, s) ==
    task' = [task EXCEPT ![t] = [at |-> where, mon |-> m, snap |-> s]]
End(t) == task' = [task EXCEPT ![t] = Free]
Busy(m, where) == \E t \in Task : task[t].at \in where /\ task[t].mon = m

\* recall and the last lines of recall_async: an entry, new if there is none.
Kept(m) == IF entry[m] = Absent THEN 0 ELSE entry[m]

-----------------------------------------------------------------------------
\* recall_async: the key counts as loaded before the load is awaited.
Recall(t, m) ==
    /\ task[t].at = "free"
    /\ \/ /\ m \in hydrated
          /\ entry' = [entry EXCEPT ![m] = Kept(m)]
          /\ torn' = IF Busy(m, {"loading", "loaded"}) THEN torn \cup {m} ELSE torn
          /\ UNCHANGED <<hydrated, task>>
       \/ /\ m \notin hydrated
          /\ hydrated' = hydrated \cup {m}
          /\ Become(t, "loading", m, Absent)
          /\ UNCHANGED <<entry, torn>>
    /\ UNCHANGED <<row, hits, faults>>

\* repo.load: a row, or None, also when the read fails.
Load(t) ==
    /\ task[t].at = "loading"
    /\ \/ /\ Become(t, "loaded", task[t].mon, row[task[t].mon])
          /\ UNCHANGED <<torn, faults>>
       \/ /\ faults < MaxFaults /\ faults' = faults + 1
          /\ torn' = torn \cup {task[t].mon}
          /\ Become(t, "loaded", task[t].mon, Absent)
    /\ UNCHANGED <<memory, row, hits>>

\* The snapshot replaces whatever entry was made meanwhile.
Hydrate(t) ==
    /\ task[t].at = "loaded"
    /\ LET m == task[t].mon IN
         entry' = [entry EXCEPT ![m] = IF task[t].snap # Absent THEN task[t].snap
                                       ELSE Kept(m)]
    /\ End(t)
    /\ UNCHANGED <<hydrated, row, hits, torn, faults>>

\* observe_hit, on the memory the last recall returned.
Hit(m) ==
    /\ entry[m] # Absent /\ ~Busy(m, {"loading", "loaded"})
    /\ hits[m] < MaxHits /\ entry[m] < MaxHits
    /\ entry' = [entry EXCEPT ![m] = @ + 1]
    /\ hits' = [hits EXCEPT ![m] = @ + 1]
    /\ UNCHANGED <<hydrated, row, task, torn, faults>>

\* Variant: flush goes through recall, which makes an entry.
FlushRecalled(t, m) ==
    /\ task[t].at = "free"
    /\ entry' = [entry EXCEPT ![m] = Kept(m)]
    /\ Become(t, "flushing", m, Kept(m))
    /\ UNCHANGED <<hydrated, row, hits, torn, faults>>

\* flush, and flush_all for each entry: the snapshot is taken now.
Flush(t, m) ==
    /\ task[t].at = "free"
    /\ entry[m] # Absent
    /\ Become(t, "flushing", m, entry[m])
    /\ UNCHANGED <<memory, row, hits, torn, faults>>

\* repo.upsert commits it, or logs an error; a row written during a purge stays.
Upsert(t) ==
    /\ task[t].at = "flushing"
    /\ LET m == task[t].mon IN
         \/ /\ row' = [row EXCEPT ![m] = task[t].snap]
            /\ torn' = IF Busy(Free.mon, {"purging"}) THEN torn \cup {m} ELSE torn
            /\ UNCHANGED faults
         \/ /\ faults < MaxFaults /\ faults' = faults + 1
            /\ UNCHANGED <<row, torn>>
    /\ End(t)
    /\ UNCHANGED <<memory, hits>>

\* purge_session_async: the rows first; when that fails, they stay.
PurgeRows(t) ==
    /\ task[t].at = "free"
    /\ \/ /\ row' = [m \in Monster |-> Absent]
          /\ hits' = [m \in Monster |-> IF entry[m] = Absent THEN 0 ELSE hits[m]]
          /\ torn' = torn \cup {m \in Monster : Busy(m, {"loaded"})}
          /\ UNCHANGED faults
       \/ /\ faults < MaxFaults /\ faults' = faults + 1
          /\ torn' = torn \cup {m \in Monster : row[m] # Absent}
          /\ UNCHANGED <<row, hits>>
    /\ Become(t, "purging", Free.mon, Absent)
    /\ UNCHANGED memory

\* ... then the entries.
PurgeEntries(t) ==
    /\ task[t].at = "purging"
    /\ entry' = [m \in Monster |-> Absent]
    /\ hydrated' = {m \in hydrated : entry[m] = Absent}
    /\ hits' = [m \in Monster |-> 0]
    /\ torn' = torn \cup {m \in Monster : Busy(m, {"loaded", "flushing"})}
    /\ End(t)
    /\ UNCHANGED <<row, faults>>

\* The process dies: what was flushed survives.
Crash ==
    /\ faults < MaxFaults /\ faults' = faults + 1
    /\ entry' = [m \in Monster |-> Absent]
    /\ hydrated' = {}
    /\ task' = [t \in Task |-> Free]
    /\ hits' = [m \in Monster |-> IF row[m] = Absent THEN 0 ELSE row[m]]
    /\ UNCHANGED <<row, torn>>

Next == \/ \E t \in Task : \/ \E m \in Monster : Recall(t, m) \/ Flush(t, m)
                           \/ Load(t) \/ Hydrate(t) \/ Upsert(t)
                           \/ PurgeRows(t) \/ PurgeEntries(t)
        \/ \E m \in Monster : Hit(m)
        \/ Crash

Spec == Init /\ [][Next]_vars

-----------------------------------------------------------------------------
(* Properties. *)

\* Unless a recall, a purge or an error of the repository tore it, what a monster
\* remembers is every hit of the session once: across loads, flushes, purges and
\* restarts nothing is counted twice, dropped or brought back.
RemembersEachHit ==
    \A m \in Monster : m \in torn \/ entry[m] \in {Absent, hits[m]}
=============================================================================
