------------------------------ MODULE MCParts ------------------------------
(***************************************************************************)
(* WriterQueue and, beside it, the parts that keep something for later:    *)
(* the flag of degraded mode, the monsters' memories, two caches and the   *)
(* narration cache, the span buffer, uploaded characters, the table of     *)
(* their classes and the set of those that may riposte.  The parts share   *)
(* no state; each behaviour is one part's (part says which), while the     *)
(* others stay as they began.                                              *)
(***************************************************************************)
EXTENDS WriterQueue, Sequences

CONSTANTS w1, w2, w3,
          Rules, Window,
          Monster, Task, MaxHits, MaxMemoryFaults,
          CharTTL, MaxVersions,
          Key, Caller, Size1, TTL1, TTL2, MaxCacheFaults,
          Depth, Batch, MaxRows, MaxErrors,
          Upload, Form, Workers, MaxEvents,
          Char, Channel, Home, MaxRuns, MaxToolFaults,
          Homebrew, MaxEdits, MaxFileFaults,
          Prompt, Asker, NarrSize, NarrTTL, MaxCalls

\* What each part takes for granted of its constants: sizes, times and bounds are
\* numbers, there is something to remember, to fill in and to ask for, finitely many
\* calls are under way, every character plays somewhere, and a file that adds to the
\* default set differs from it.
DegradedConstants == Rules \in Seq(STRING) /\ Window \in Nat
MemoryConstants == Monster # {} /\ MaxHits \in Nat /\ MaxMemoryFaults \in Nat
SheetConstants == CharTTL \in Nat /\ MaxVersions \in Nat \ {0}
CacheConstants ==
    /\ Key # {} /\ Size1 \in Nat
    /\ TTL1 \in Nat /\ TTL2 \in Nat /\ MaxCacheFaults \in Nat
SpanConstants == Depth \in Nat /\ MaxRows \in Nat /\ MaxErrors \in Nat
ToolConstants ==
    /\ Home \in [Char -> Channel] /\ Char # {}
    /\ MaxRuns \in Nat /\ MaxToolFaults \in Nat
FileConstants == "default" \notin Homebrew /\ MaxEdits \in Nat /\ MaxFileFaults \in Nat
TalkConstants ==
    /\ NarrSize \in Nat /\ NarrTTL \in Nat /\ MaxCalls \in Nat
    /\ Prompt # {} /\ IsFiniteSet(Asker)

ASSUME PartsAssumption ==
    /\ DegradedConstants /\ MemoryConstants /\ SheetConstants /\ CacheConstants
    /\ SpanConstants /\ MaxEvents \in Nat
    /\ ToolConstants /\ FileConstants /\ TalkConstants

Degrading == <<"latency", "fallback">>
OwnChannel == [c \in Char |-> c]

VARIABLES part,
          active, reason, at, snap, breaches, recoveries, holds, day, over,
          budget, today, lastSeen,
          entry, hydrated, entries, tasks, hits, forgotten, memoryFaults,
          sheet, gone, row, fetching,
          l1, l2, l2conn, call, wipe, torn, cacheFaults,
          recorded, spans, hand, drainer, disk, limbo, dropped, stop, late,
          reader, errors,
          game, world, upload, camp, pool, busy, button, proof, made, home, mine,
          class, uploadFaults,
          known, classes, phase, force, dry, toList, failed, todo, found, looking,
          refused, exit, due, lost, raced, runs, toolFaults,
          file, poll, current, driver, watched, seen, look, missed, fileFaults,
          shelf, talk, off, tally, begun, broken

writerVars == <<queue, place, last, fut, pc, cur, mode, txn, store, stopPc,
                faults, cancels>>
degradedVars == <<active, reason, at, snap, breaches, recoveries, holds, day,
                  over, budget, today, lastSeen>>
memoryVars == <<entry, hydrated, entries, tasks, hits, forgotten, memoryFaults>>
sheetVars == <<sheet, gone, row, fetching>>
cacheVars == <<l1, l2, l2conn, call, wipe, torn, cacheFaults>>
spanVars == <<recorded, spans, hand, drainer, disk, limbo, dropped, stop, late,
              reader, errors>>
uploadVars == <<game, world, upload, camp, pool, busy, button, proof, made, home,
                mine, class, uploadFaults>>
toolVars == <<known, classes, phase, force, dry, toList, failed, todo, found, looking,
              refused, exit, due, lost, raced, runs, toolFaults>>
fileVars == <<file, poll, current, driver, watched, seen, look, missed, fileFaults>>
talkVars == <<shelf, talk, off, tally, begun, broken>>
partsVars == <<part, writerVars, degradedVars, memoryVars, sheetVars, cacheVars,
               spanVars, uploadVars, toolVars, fileVars, talkVars>>

DM == INSTANCE DegradedMode

MM == INSTANCE MonsterMemory
         WITH row <- entries, task <- tasks, torn <- forgotten,
              faults <- memoryFaults, MaxFaults <- MaxMemoryFaults

CC == INSTANCE CharacterCache WITH TTL <- CharTTL, call <- fetching

RC == INSTANCE ResponseCache
         WITH conn <- l2conn, faults <- cacheFaults, MaxFaults <- MaxCacheFaults

SB == INSTANCE SpanBuffer WITH queue <- spans

IG == INSTANCE Ingest
         WITH at <- upload, faults <- uploadFaults

BF == INSTANCE Backfill
         WITH row <- classes, at <- looking, errors <- refused,
              faults <- toolFaults, MaxFaults <- MaxToolFaults

EL == INSTANCE Eligibility
         WITH phase <- poll, faults <- fileFaults, MaxFaults <- MaxFileFaults

NC == INSTANCE NarrationCache WITH Size <- NarrSize, TTL <- NarrTTL

PartsInit ==
    /\ part \in {"writer", "degraded", "memory", "sheets", "cache", "spans", "upload",
                 "tool", "file", "talk"}
    /\ Init /\ DM!Init /\ MM!Init /\ CC!Init /\ RC!Init /\ SB!Init
    /\ IG!Init /\ BF!Init /\ EL!Init /\ NC!Init
    /\ part = "file" \/ file.text = "default"

\* What part does the others do not see.
Only(p, others) == part = p /\ UNCHANGED <<part, others>>

Writing ==
    Only("writer", <<degradedVars, memoryVars, sheetVars, cacheVars, spanVars,
               uploadVars, toolVars, fileVars, talkVars>>) /\ Next
Degraded(A) ==
    Only("degraded", <<writerVars, memoryVars, sheetVars, cacheVars, spanVars,
               uploadVars, toolVars, fileVars, talkVars>>) /\ A
Remembering ==
    Only("memory", <<writerVars, degradedVars, sheetVars, cacheVars, spanVars,
               uploadVars, toolVars, fileVars, talkVars>>) /\ MM!Next
Fetching ==
    Only("sheets", <<writerVars, degradedVars, memoryVars, cacheVars, spanVars,
               uploadVars, toolVars, fileVars, talkVars>>) /\ CC!Next
Caching ==
    Only("cache", <<writerVars, degradedVars, memoryVars, sheetVars, spanVars,
               uploadVars, toolVars, fileVars, talkVars>>) /\ RC!Next
Tracing ==
    Only("spans", <<writerVars, degradedVars, memoryVars, sheetVars, cacheVars,
               uploadVars, toolVars, fileVars, talkVars>>) /\ SB!Next
Uploading(A) ==
    Only("upload", <<writerVars, degradedVars, memoryVars, sheetVars, cacheVars,
               spanVars, toolVars, fileVars, talkVars>>) /\ A
Filling ==
    Only("tool", <<writerVars, degradedVars, memoryVars, sheetVars, cacheVars,
               spanVars, uploadVars, fileVars, talkVars>>) /\ BF!Next
Following(A) ==
    Only("file", <<writerVars, degradedVars, memoryVars, sheetVars, cacheVars,
               spanVars, uploadVars, toolVars, talkVars>>) /\ A
Narrating ==
    Only("talk", <<writerVars, degradedVars, memoryVars, sheetVars, cacheVars,
               spanVars, uploadVars, toolVars, fileVars>>) /\ NC!Next

PartsNext ==
    \/ Writing \/ Degraded(DM!Next) \/ Remembering \/ Fetching \/ Caching \/ Tracing
    \/ Uploading(IG!Next) \/ Filling \/ Following(EL!Next)
    \/ Narrating

\* The fairness of WriterQueue, whose actions are disabled in the initial state,
\* and of DegradedMode, Ingest and Eligibility.
PartsFairness ==
    /\ WF_vars(TaskStep) /\ WF_vars(StopStep)
    /\ WF_degradedVars(Degraded(DM!Sample))
    /\ WF_degradedVars(Degraded(DM!Judge))
    /\ WF_degradedVars(Degraded(DM!BudgetTick))
    /\ WF_degradedVars(Degraded(DM!Midnight))
    /\ \A u \in Upload : WF_uploadVars(Uploading(IG!Step(u)))
    /\ \A r \in Upload \cup Form : WF_uploadVars(Uploading(IG!Finish(r)))
    /\ WF_fileVars(Following(EL!Boot \/ EL!Watch))
    /\ WF_fileVars(Following(EL!Stat \/ EL!Reload))

PartsSpec == PartsInit /\ [][PartsNext]_partsVars /\ PartsFairness

-----------------------------------------------------------------------------
(* Properties of the parts; those of WriterQueue have their own names. *)

\* Every accepted write is answered while the task lives, and stop() returns.
WritesServed == AnsweredWhileServed /\ StopReturns

\* Every part keeps its type; the others are as they began.
PartsTypeOK ==
    /\ part = "writer" => TypeOK
    /\ part = "degraded" => DM!TypeOK
    /\ part = "memory" => MM!TypeOK
    /\ part = "sheets" => CC!TypeOK
    /\ part = "cache" => RC!TypeOK
    /\ part = "spans" => SB!TypeOK
    /\ part = "upload" => IG!TypeOK
    /\ part = "tool" => BF!TypeOK
    /\ part = "file" => EL!TypeOK
    /\ part = "talk" => NC!TypeOK

\* Degraded mode for a rule's reason is a mode that rule still counts towards
\* leaving, whoever replaced reasons and cleared the flag in between.
ReasonIsHeld == DM!ReasonIsHeld

\* When KPIs and budget stay good, the bot leaves degraded mode for good.
BackToNormal == DM!BackToNormal

\* Unless a race or an error tore it, a monster's memory is every hit once.
RemembersEachHit == MM!RemembersEachHit

\* A cached sheet was dm20's at the time it is stamped with, or later; no cached
\* response outlives both its layers or an invalidation; nothing mechanical comes
\* from the narration cache.
CachesHonest == CC!StampHonest /\ RC!ServedIsCurrent /\ NC!NarrationHonest

\* What flush() let a reader look at holds every span recorded before; no span is
\* lost between the queue, the drainer and the database, or there twice.
FlushedIsRead == SB!RowsAccounted /\ SB!FlushedIsRead

\* A form to confirm is offered for a sheet that earned it.
ReviewEarned == IG!ReviewEarned

\* Who is told that a character joined has it where the answer says.
ToldIsTrue == IG!ToldIsTrue

\* No upload and no form is left waiting in the end.
EveryUploadAnswered == IG!EveryUploadAnswered

\* After a successful run of the tool, the characters of its start have rows; a
\* subclass is taken by force or in a race.
RowsFilled == [][BF!GapClosed' /\ BF!SubclassKept]_toolVars

\* The set of who may riposte follows its file.
FileFollowed == EL!FileFollowed
=============================================================================
