------------------------------ MODULE Riposte ------------------------------
(***************************************************************************)
(* The timed Riposte reaction: the monster driver opens a window (a row of *)
(* riposte_timers and a public message with a button), players click the   *)
(* button, the sweeper expires rows past their deadline, and the bot may   *)
(* be killed and restarted between any two steps.                          *)
(*                                                                         *)
(* A task is interruptible where its coroutine awaits.  Taking the lock    *)
(* and the first database call made under it are one step: a task that     *)
(* has only just taken the lock has changed nothing others can see.  A row *)
(* is a timer id with its columns; Discord's side is whether the button's  *)
(* message is visible; dm20's side is the combat round and the attacks it  *)
(* resolved.  Time is the relation of a row's deadline_ts to now (due), so *)
(* no clock value is bounded.                                              *)
(***************************************************************************)
EXTENDS Naturals, FiniteSets

CONSTANTS Timer,      \* ids of riposte_timers rows
          PC,         \* player characters, each with one player
          Channel,    \* Discord channels
          ChannelOf,  \* ChannelOf[p]: the channel character p plays in
          Eligible,   \* characters whose (class, subclass) may riposte
          Click,      \* interactions the bot handles concurrently
          MaxRound,   \* bound: last combat round explored
          MaxFaults   \* bound: failed calls and crashes in a behaviour

ASSUME RiposteAssumption ==
    /\ ChannelOf \in [PC -> Channel]
    /\ Eligible \subseteq PC
    /\ MaxRound \in Nat \ {0}
    /\ MaxFaults \in Nat
    /\ Click \cap {"sweeper", "free"} = {}
    /\ "nobody" \notin PC
    /\ "norow" \notin Timer

\* The columns of riposte_timers.
VARIABLES status,     \* status[t], "absent" before the INSERT
          owner,      \* character_id (and with it channel_id and user_id)
          due,        \* deadline_ts lies in the past
          msgRef,     \* message_id has been back-filled
          usedRound   \* consumed_in_round, 0 when NULL or when written as 0

\* Outside the database.
VARIABLES posted,     \* the public message: "none", "live" or "gone"
          round,      \* dm20's round in the channel's combat
          lock,       \* SessionLocks: who holds riposte:{channel}
          \* handle_riposte_click, per interaction: where it is, its row, the
          \* message id and the round it read.
          clickPc, clickRow, clickRef, clickRound,
          \* MonsterDriver.drive, per channel: where it is, its target, the row
          \* it inserted and the round it read.
          drivePc, driveWho, driveRow, driveRound,
          \* RiposteSweeper._iterate_once: where it is, the listed rows still to
          \* do, those listed with a message id, and the row in hand.
          sweepPc, sweepTodo, sweepRefs, sweepRow

\* History.
VARIABLES attacks,    \* attacks[t]: counter-attacks dm20 resolved for row t
          unsaved,    \* unsaved[t]: of these, outcomes the bot failed to record
          abandoned,  \* abandoned[t]: a message deletion was skipped or failed
          reacted,    \* reacted[p]: counter-attacks of p in the current round
          faults      \* failed calls and crashes so far

rows == <<status, owner, due, msgRef, usedRound>>
history == <<attacks, unsaved, abandoned, reacted>>
click == <<clickPc, clickRow, clickRef, clickRound>>
drive == <<drivePc, driveWho, driveRow, driveRound>>
sweep == <<sweepPc, sweepTodo, sweepRefs, sweepRow>>
vars == <<rows, posted, round, lock, click, drive, sweep, history, faults>>

-----------------------------------------------------------------------------
NoPC == "nobody"
NoRow == "norow"
Free == "free"
Sweeper == "sweeper"

Rounds == 0 .. MaxRound
Statuses == {"absent", "pending", "consumed", "expired"}

\* Phases of handle_riposte_click; those in ClickLocked hold the lock.
ClickLocked == {"open", "armed", "struck"}
ClickPhases == {"idle", "waiting", "deleting"} \cup ClickLocked

\* Phases of MonsterDriver.drive and of RiposteSweeper._iterate_once.
DrivePhases == {"idle", "attacking", "checked", "inserted", "posted", "advancing"}
SweepPhases == {"asleep", "picking", "waiting", "marked"}

TypeOK ==
    /\ status \in [Timer -> Statuses]
    /\ owner \in [Timer -> PC \cup {NoPC}]
    /\ due \in [Timer -> BOOLEAN]
    /\ msgRef \in [Timer -> BOOLEAN]
    /\ usedRound \in [Timer -> Rounds]
    /\ posted \in [Timer -> {"none", "live", "gone"}]
    /\ round \in [Channel -> Rounds]
    /\ lock \in [Channel -> Click \cup {Sweeper, Free}]
    /\ clickPc \in [Click -> ClickPhases]
    /\ clickRow \in [Click -> Timer \cup {NoRow}]
    /\ clickRef \in [Click -> BOOLEAN]
    /\ clickRound \in [Click -> Rounds]
    /\ drivePc \in [Channel -> DrivePhases]
    /\ driveWho \in [Channel -> PC \cup {NoPC}]
    /\ driveRow \in [Channel -> Timer \cup {NoRow}]
    /\ driveRound \in [Channel -> Rounds]
    /\ sweepPc \in SweepPhases
    /\ sweepTodo \in SUBSET Timer
    /\ sweepRefs \in SUBSET Timer
    /\ sweepRow \in Timer \cup {NoRow}
    /\ attacks \in [Timer -> Nat]
    /\ unsaved \in [Timer -> Nat]
    /\ abandoned \in [Timer -> BOOLEAN]
    /\ reacted \in [PC -> Nat]
    /\ faults \in 0 .. MaxFaults

Init ==
    /\ status = [t \in Timer |-> "absent"]
    /\ owner = [t \in Timer |-> NoPC]
    /\ due = [t \in Timer |-> FALSE]
    /\ msgRef = [t \in Timer |-> FALSE]
    /\ usedRound = [t \in Timer |-> 0]
    /\ posted = [t \in Timer |-> "none"]
    /\ round = [ch \in Channel |-> 1]
    /\ lock = [ch \in Channel |-> Free]
    /\ clickPc = [c \in Click |-> "idle"]
    /\ clickRow = [c \in Click |-> NoRow]
    /\ clickRef = [c \in Click |-> FALSE]
    /\ clickRound = [c \in Click |-> 0]
    /\ drivePc = [ch \in Channel |-> "idle"]
    /\ driveWho = [ch \in Channel |-> NoPC]
    /\ driveRow = [ch \in Channel |-> NoRow]
    /\ driveRound = [ch \in Channel |-> 0]
    /\ sweepPc = "asleep"
    /\ sweepTodo = {}
    /\ sweepRefs = {}
    /\ sweepRow = NoRow
    /\ attacks = [t \in Timer |-> 0]
    /\ unsaved = [t \in Timer |-> 0]
    /\ abandoned = [t \in Timer |-> FALSE]
    /\ reacted = [p \in PC |-> 0]
    /\ faults = 0

\* A call that fails, or a crash, within the bound.
Fault == faults < MaxFaults /\ faults' = faults + 1

Acquire(ch, who) == lock[ch] = Free /\ lock' = [lock EXCEPT ![ch] = who]
Release(ch) == lock' = [lock EXCEPT ![ch] = Free]

\* The channel of a row: the row's channel_id column.
ChannelOfRow(t) == ChannelOf[owner[t]]

-----------------------------------------------------------------------------
(* MonsterDriver.drive, check_riposte_eligibility, surface_riposte_button. *)

\* check_riposte_eligibility: the class may riposte, no open window, and no
\* reaction recorded for round r.
MayRiposte(p, r) ==
    /\ p \in Eligible
    /\ \A t \in Timer : owner[t] = p => /\ status[t] # "pending"
                                        /\ usedRound[t] = 0 \/ usedRound[t] # r

DriveGoto(ch, pc) == /\ drivePc' = [drivePc EXCEPT ![ch] = pc]
                     /\ UNCHANGED <<driveWho, driveRow, driveRound>>
DriveEnd(ch) == /\ drivePc' = [drivePc EXCEPT ![ch] = "idle"]
                /\ driveWho' = [driveWho EXCEPT ![ch] = NoPC]
                /\ driveRow' = [driveRow EXCEPT ![ch] = NoRow]
                /\ driveRound' = [driveRound EXCEPT ![ch] = 0]

\* The state provider is read once, at the start: round_number is kept.
DriveStart(ch, p) ==
    /\ drivePc[ch] = "idle"
    /\ ChannelOf[p] = ch
    /\ drivePc' = [drivePc EXCEPT ![ch] = "attacking"]
    /\ driveWho' = [driveWho EXCEPT ![ch] = p]
    /\ driveRound' = [driveRound EXCEPT ![ch] = round[ch]]
    /\ UNCHANGED <<driveRow, rows, posted, round, lock, click, sweep, history,
                   faults>>

\* combat_action returned: a hit, an error, or a miss on a character that may
\* not riposte; the turn is advanced without a window.
DriveNoWindow(ch) ==
    /\ drivePc[ch] = "attacking"
    /\ DriveGoto(ch, "advancing")
    /\ UNCHANGED <<rows, posted, round, lock, click, sweep, history, faults>>

\* A miss on a character the eligibility check accepts.
DriveMiss(ch) ==
    /\ drivePc[ch] = "attacking"
    /\ MayRiposte(driveWho[ch], driveRound[ch])
    /\ DriveGoto(ch, "checked")
    /\ UNCHANGED <<rows, posted, round, lock, click, sweep, history, faults>>

\* An exception of the check is not caught: drive ends without next_turn.
DriveCheckFails(ch) ==
    /\ drivePc[ch] = "attacking"
    /\ Fault
    /\ DriveEnd(ch)
    /\ UNCHANGED <<rows, posted, round, lock, click, sweep, history>>

\* repo.insert with an empty message_id and a temporary deadline.
DriveInsert(ch) ==
    /\ drivePc[ch] = "checked"
    /\ \E t \in Timer :
         /\ status[t] = "absent"
         /\ status' = [status EXCEPT ![t] = "pending"]
         /\ owner' = [owner EXCEPT ![t] = driveWho[ch]]
         /\ drivePc' = [drivePc EXCEPT ![ch] = "inserted"]
         /\ driveRow' = [driveRow EXCEPT ![ch] = t]
    /\ UNCHANGED <<driveWho, driveRound, due, msgRef, usedRound, posted,
                   round, lock, click, sweep, history, faults>>

\* channel.send returned: the button is on screen.
DriveSend(ch) ==
    /\ drivePc[ch] = "inserted"
    /\ posted' = [posted EXCEPT ![driveRow[ch]] = "live"]
    /\ DriveGoto(ch, "posted")
    /\ UNCHANGED <<rows, round, lock, click, sweep, history, faults>>

\* update_message_ref: message_id and a new deadline, whatever the status is.
DriveBackfill(ch) ==
    /\ drivePc[ch] = "posted"
    /\ msgRef' = [msgRef EXCEPT ![driveRow[ch]] = TRUE]
    /\ due' = [due EXCEPT ![driveRow[ch]] = FALSE]
    /\ DriveGoto(ch, "advancing")
    /\ UNCHANGED <<status, owner, usedRound, posted, round, lock, click,
                   sweep, history, faults>>

\* insert, send or back-fill raised: caught by _maybe_surface_riposte, and no
\* message id will be written.  A send that raised may have been delivered.
DriveSurfaceFails(ch) ==
    /\ drivePc[ch] \in {"checked", "inserted", "posted"}
    /\ Fault
    /\ \/ UNCHANGED posted
       \/ /\ drivePc[ch] = "inserted"
          /\ posted' = [posted EXCEPT ![driveRow[ch]] = "live"]
    /\ DriveGoto(ch, "advancing")
    /\ UNCHANGED <<rows, round, lock, click, sweep, history>>

\* dm20 enters the next round of channel ch's combat, or a new combat starts at
\* round 1: either way every reaction of the channel is available again.
RoundMoves(ch) ==
    /\ \/ round[ch] < MaxRound /\ round' = [round EXCEPT ![ch] = @ + 1]
       \/ round[ch] > 1 /\ round' = [round EXCEPT ![ch] = 1]
    /\ reacted' = [p \in PC |-> IF ChannelOf[p] = ch THEN 0 ELSE reacted[p]]

\* _advance_turn: next_turn may end the round; its failure is swallowed.
DriveAdvance(ch) ==
    /\ drivePc[ch] = "advancing"
    /\ DriveEnd(ch)
    /\ RoundMoves(ch) \/ UNCHANGED <<round, reacted>>
    /\ UNCHANGED <<rows, posted, lock, click, sweep, attacks, unsaved,
                   abandoned, faults>>

\* The players' own turns, at any time.
RoundPasses(ch) ==
    /\ RoundMoves(ch)
    /\ UNCHANGED <<rows, posted, lock, click, drive, sweep, attacks, unsaved,
                   abandoned, faults>>

\* The row's deadline_ts is reached.
Deadline(t) ==
    /\ status[t] # "absent"
    /\ ~due[t]
    /\ due' = [due EXCEPT ![t] = TRUE]
    /\ UNCHANGED <<status, owner, msgRef, usedRound, posted, round, lock,
                   click, drive, sweep, history, faults>>

-----------------------------------------------------------------------------
(* handle_riposte_click. *)

ClickGoto(c, pc) == /\ clickPc' = [clickPc EXCEPT ![c] = pc]
                    /\ UNCHANGED <<clickRow, clickRef, clickRound>>
ClickEnd(c) == /\ clickPc' = [clickPc EXCEPT ![c] = "idle"]
               /\ clickRow' = [clickRow EXCEPT ![c] = NoRow]
               /\ clickRef' = [clickRef EXCEPT ![c] = FALSE]
               /\ clickRound' = [clickRound EXCEPT ![c] = 0]
Held(c) == ChannelOfRow(clickRow[c])

\* The targeted player clicks a visible button: the user gate and the first,
\* lock-free repo.get.  (Another player's click changes nothing.)
ClickArrive(c, t) ==
    /\ clickPc[c] = "idle"
    /\ posted[t] = "live"
    /\ clickPc' = [clickPc EXCEPT ![c] = "waiting"]
    /\ clickRow' = [clickRow EXCEPT ![c] = t]
    /\ UNCHANGED <<clickRef, clickRound, rows, posted, round, lock, drive,
                   sweep, history, faults>>

\* Variant: the WHERE clause is lost.
MarkExpiredAlways(t) == status' = [status EXCEPT ![t] = "expired"]

\* mark_expired WHERE status = 'pending'.
MarkExpired(t) ==
    status' = [status EXCEPT ![t] = IF @ = "pending" THEN "expired" ELSE @]

\* Under the lock the row is read again: someone resolved it already.
ClickResolved(c) ==
    /\ clickPc[c] = "waiting"
    /\ lock[Held(c)] = Free
    /\ status[clickRow[c]] # "pending"
    /\ ClickEnd(c)
    /\ UNCHANGED <<rows, posted, round, lock, drive, sweep, history, faults>>

\* ... it is pending but its deadline has passed: the click expires the row
\* itself (a failing write is swallowed) and releases the lock.
ClickLate(c) ==
    /\ clickPc[c] = "waiting"
    /\ lock[Held(c)] = Free
    /\ LET t == clickRow[c] IN
         /\ status[t] = "pending"
         /\ due[t]
         /\ \/ MarkExpired(t) /\ UNCHANGED faults
            \/ Fault /\ UNCHANGED status
         /\ clickRef' = [clickRef EXCEPT ![c] = msgRef[t]]
    /\ clickPc' = [clickPc EXCEPT ![c] = "deleting"]
    /\ UNCHANGED <<clickRow, clickRound, owner, due, msgRef, usedRound,
                   posted, round, lock, drive, sweep, history>>

\* Variant: the row is not read again under the lock.
ClickOpenWithoutReread(c) ==
    /\ clickPc[c] = "waiting"
    /\ ClickGoto(c, "open")
    /\ Acquire(Held(c), c)
    /\ UNCHANGED <<rows, posted, round, drive, sweep, history, faults>>

\* ... it is pending and in time: the lock is kept.
ClickOpen(c) ==
    /\ clickPc[c] = "waiting"
    /\ LET t == clickRow[c] IN
         /\ status[t] = "pending"
         /\ ~due[t]
         /\ clickRef' = [clickRef EXCEPT ![c] = msgRef[t]]
    /\ clickPc' = [clickPc EXCEPT ![c] = "open"]
    /\ Acquire(Held(c), c)
    /\ UNCHANGED <<clickRow, clickRound, rows, posted, round, drive, sweep,
                   history, faults>>

\* current_round_provider: dm20's round, 0 when it cannot be read.
ClickReadRound(c) ==
    /\ clickPc[c] = "open"
    /\ clickPc' = [clickPc EXCEPT ![c] = "armed"]
    /\ \/ /\ clickRound' = [clickRound EXCEPT ![c] = round[Held(c)]]
          /\ UNCHANGED faults
       \/ /\ clickRound' = [clickRound EXCEPT ![c] = 0]
          /\ Fault
    /\ UNCHANGED <<clickRow, clickRef, rows, posted, round, lock, drive,
                   sweep, history>>

\* dm20 resolves the counter-attack for the row.
Strikes(t) == /\ attacks' = [attacks EXCEPT ![t] = @ + 1]
              /\ reacted' = [reacted EXCEPT ![owner[t]] = @ + 1]

\* rate_limiter.acquire and combat_action.
ClickStrike(c) ==
    /\ clickPc[c] = "armed"
    /\ Strikes(clickRow[c])
    /\ ClickGoto(c, "struck")
    /\ UNCHANGED <<rows, posted, round, lock, drive, sweep, unsaved,
                   abandoned, faults>>

\* combat_action raised: before dm20 acted, or (a lost answer) after.  The row
\* stays pending.
ClickStrikeFails(c) ==
    /\ clickPc[c] = "armed"
    /\ Fault
    /\ \/ UNCHANGED <<attacks, reacted, unsaved>>
       \/ /\ Strikes(clickRow[c])
          /\ unsaved' = [unsaved EXCEPT ![clickRow[c]] = @ + 1]
    /\ Release(Held(c))
    /\ ClickEnd(c)
    /\ UNCHANGED <<rows, posted, round, drive, sweep, abandoned>>

\* Variant: the message is left on screen after a successful click.
ClickMarkKeepsMessage(c) ==
    /\ clickPc[c] = "struck"
    /\ status' = [status EXCEPT ![clickRow[c]] = "consumed"]
    /\ usedRound' = [usedRound EXCEPT ![clickRow[c]] = clickRound[c]]
    /\ Release(Held(c))
    /\ ClickEnd(c)
    /\ UNCHANGED <<owner, due, msgRef, posted, round, drive, sweep, history,
                   faults>>

\* mark_consumed_with_round: unconditional on the row's status.
ClickMark(c) ==
    /\ clickPc[c] = "struck"
    /\ status' = [status EXCEPT ![clickRow[c]] = "consumed"]
    /\ usedRound' = [usedRound EXCEPT ![clickRow[c]] = clickRound[c]]
    /\ Release(Held(c))
    /\ ClickGoto(c, "deleting")
    /\ UNCHANGED <<owner, due, msgRef, posted, round, drive, sweep, history,
                   faults>>

\* "Riposte! (state save failed)": the row stays pending.
ClickMarkFails(c) ==
    /\ clickPc[c] = "struck"
    /\ Fault
    /\ unsaved' = [unsaved EXCEPT ![clickRow[c]] = @ + 1]
    /\ Release(Held(c))
    /\ ClickEnd(c)
    /\ UNCHANGED <<rows, posted, round, drive, sweep, attacks, abandoned,
                   reacted>>

\* The best-effort deletion of row t's message, given whether a message id is
\* known: skipped without one, and errors of Discord are swallowed.
DeleteMessage(t, ref) ==
    \/ /\ ref
       /\ posted' = [posted EXCEPT ![t] = "gone"]
       /\ UNCHANGED <<abandoned, faults>>
    \/ /\ ~ref
       /\ abandoned' = [abandoned EXCEPT ![t] = TRUE]
       /\ UNCHANGED <<posted, faults>>
    \/ /\ ref
       /\ Fault
       /\ abandoned' = [abandoned EXCEPT ![t] = TRUE]
       /\ UNCHANGED posted

\* After the lock: the message is deleted with the message_id read under it.
ClickDelete(c) ==
    /\ clickPc[c] = "deleting"
    /\ DeleteMessage(clickRow[c], clickRef[c])
    /\ ClickEnd(c)
    /\ UNCHANGED <<rows, round, lock, drive, sweep, attacks, unsaved,
                   reacted>>

-----------------------------------------------------------------------------
(* RiposteSweeper._iterate_once, _expire_row, _delete_message. *)

\* Variant: only the rows whose message is known are listed.
SweepListPosted ==
    /\ sweepPc = "asleep"
    /\ LET late == {t \in Timer : status[t] = "pending" /\ due[t] /\ msgRef[t]} IN
         /\ late # {}
         /\ sweepTodo' = late
         /\ sweepRefs' = late
    /\ sweepPc' = "picking"
    /\ UNCHANGED <<sweepRow, rows, posted, round, lock, click, drive, history,
                   faults>>

\* list_pending, without the lock: the past-deadline rows and which of them had
\* a message id then.  (With none, or if the read fails, it sleeps on.)
SweepList ==
    /\ sweepPc = "asleep"
    /\ LET late == {t \in Timer : status[t] = "pending" /\ due[t]} IN
         /\ late # {}
         /\ sweepTodo' = late
         /\ sweepRefs' = {t \in late : msgRef[t]}
    /\ sweepPc' = "picking"
    /\ UNCHANGED <<sweepRow, rows, posted, round, lock, click, drive, history,
                   faults>>

\* The next row of the listing (which one abstracts from the deadlines' order).
SweepPick ==
    /\ sweepPc = "picking"
    /\ \E t \in sweepTodo : sweepRow' = t /\ sweepTodo' = sweepTodo \ {t}
    /\ sweepPc' = "waiting"
    /\ UNCHANGED <<sweepRefs, rows, posted, round, lock, click, drive,
                   history, faults>>

\* Variant: the sweeper does not take the lock.
SweepMarkUnlocked ==
    /\ sweepPc = "waiting"
    /\ MarkExpired(sweepRow)
    /\ sweepPc' = "marked"
    /\ UNCHANGED <<sweepTodo, sweepRefs, sweepRow, owner, due, msgRef,
                   usedRound, posted, round, lock, click, drive, history,
                   faults>>

\* mark_expired under the row's channel lock, whatever happened since the
\* listing; the lock is kept for the deletion.
SweepMark ==
    /\ sweepPc = "waiting"
    /\ Acquire(ChannelOfRow(sweepRow), Sweeper)
    /\ MarkExpired(sweepRow)
    /\ sweepPc' = "marked"
    /\ UNCHANGED <<sweepTodo, sweepRefs, sweepRow, owner, due, msgRef,
                   usedRound, posted, round, click, drive, history, faults>>

\* The write failed: the message is left alone, the next sweep retries.
SweepMarkFails ==
    /\ sweepPc = "waiting"
    /\ lock[ChannelOfRow(sweepRow)] = Free
    /\ Fault
    /\ sweepPc' = "picking"
    /\ sweepRow' = NoRow
    /\ UNCHANGED <<sweepTodo, sweepRefs, rows, posted, round, lock, click,
                   drive, history>>

\* Under the lock still: the message is deleted with the listed message id.
SweepDelete ==
    /\ sweepPc = "marked"
    /\ DeleteMessage(sweepRow, sweepRow \in sweepRefs)
    /\ Release(ChannelOfRow(sweepRow))
    /\ sweepPc' = "picking"
    /\ sweepRow' = NoRow
    /\ UNCHANGED <<sweepTodo, sweepRefs, rows, round, click, drive, attacks,
                   unsaved, reacted>>

\* The listing is exhausted: compute the sleep and await it.
SweepSleep ==
    /\ sweepPc = "picking"
    /\ sweepTodo = {}
    /\ sweepPc' = "asleep"
    /\ sweepRefs' = {}
    /\ UNCHANGED <<sweepTodo, sweepRow, rows, posted, round, lock, click,
                   drive, history, faults>>

-----------------------------------------------------------------------------
\* Row t's message is about to be deleted by a task that knows its id.
DeletionOwed(t) ==
    \/ \E c \in Click : clickPc[c] = "deleting" /\ clickRow[c] = t
    \/ sweepPc = "marked" /\ sweepRow = t

\* The process dies and a new one starts: the database, Discord's messages and
\* dm20's combat survive, every task and lock is gone.
Crash ==
    /\ Fault
    /\ clickPc' = [c \in Click |-> "idle"]
    /\ clickRow' = [c \in Click |-> NoRow]
    /\ clickRef' = [c \in Click |-> FALSE]
    /\ clickRound' = [c \in Click |-> 0]
    /\ drivePc' = [ch \in Channel |-> "idle"]
    /\ driveWho' = [ch \in Channel |-> NoPC]
    /\ driveRow' = [ch \in Channel |-> NoRow]
    /\ driveRound' = [ch \in Channel |-> 0]
    /\ sweepPc' = "asleep"
    /\ sweepTodo' = {}
    /\ sweepRefs' = {}
    /\ sweepRow' = NoRow
    /\ lock' = [ch \in Channel |-> Free]
    /\ unsaved' = [t \in Timer |->
          IF \E c \in Click : clickPc[c] = "struck" /\ clickRow[c] = t
          THEN unsaved[t] + 1 ELSE unsaved[t]]
    /\ abandoned' = [t \in Timer |-> abandoned[t] \/ DeletionOwed(t)]
    /\ UNCHANGED <<rows, posted, round, attacks, reacted>>

DriveStep(ch) ==
    \/ \E p \in PC : DriveStart(ch, p)
    \/ DriveNoWindow(ch)
    \/ DriveMiss(ch)
    \/ DriveCheckFails(ch)
    \/ DriveInsert(ch)
    \/ DriveSend(ch)
    \/ DriveBackfill(ch)
    \/ DriveSurfaceFails(ch)
    \/ DriveAdvance(ch)
    \/ RoundPasses(ch)

\* What a click does once it waits for no lock.
ClickStep(c) ==
    \/ ClickReadRound(c)
    \/ ClickStrike(c)
    \/ ClickStrikeFails(c)
    \/ ClickMark(c)
    \/ ClickMarkFails(c)
    \/ ClickDelete(c)

SweepStep ==
    \/ SweepList
    \/ SweepPick
    \/ SweepMarkFails
    \/ SweepDelete
    \/ SweepSleep

Next ==
    \/ \E ch \in Channel : DriveStep(ch)
    \/ \E c \in Click : \/ \E t \in Timer : ClickArrive(c, t)
                        \/ ClickResolved(c)
                        \/ ClickLate(c)
                        \/ ClickOpen(c)
                        \/ ClickStep(c)
    \/ SweepStep
    \/ SweepMark
    \/ \E t \in Timer : Deadline(t)
    \/ Crash

\* Time passes; the event loop runs every ready task; asyncio.Lock serves its
\* waiters in turn, so the sweeper is not starved of the lock.  Players need
\* not click and monsters need not attack.
Fairness ==
    /\ \A t \in Timer : WF_vars(Deadline(t))
    /\ \A c \in Click : WF_vars(ClickStep(c))
    /\ WF_vars(SweepStep)
    /\ SF_vars(SweepMark)

Spec == Init /\ [][Next]_vars /\ Fairness

-----------------------------------------------------------------------------
(* Properties. *)

\* While a click is between its re-read of the row and its write, nobody else
\* resolves the row: the counter-attack is made for a window that is open, and
\* the unconditional write of mark_consumed_with_round overwrites nothing.
AttackOnOpenWindow ==
    \A c \in Click : clickPc[c] \in ClickLocked
                        => status[clickRow[c]] = "pending"

\* The eligibility check and the INSERT are separate calls; what the check
\* found (no open window, no reaction recorded for the round) still holds when
\* the row is inserted.
OfferStillValid ==
    \A ch \in Channel : drivePc[ch] = "checked"
                           => MayRiposte(driveWho[ch], driveRound[ch])

\* Every counter-attack of a row but the recorded one has a failure behind it:
\* concurrent clicks and the sweeper alone never make a character attack twice.
AttacksAccounted ==
    \A t \in Timer :
       attacks[t] = unsaved[t] +
          (IF \/ status[t] = "consumed"
              \/ \E c \in Click : clickPc[c] = "struck" /\ clickRow[c] = t
           THEN 1 ELSE 0)

\* A resolved window whose button is still on screen either is about to lose it
\* or had its deletion skipped (no message id) or refused: no path forgets it.
OrphansExplained ==
    \A t \in Timer :
       status[t] \in {"consumed", "expired"} /\ posted[t] = "live"
          => DeletionOwed(t) \/ abandoned[t]

\* The rows implement the abstract window.
RW == INSTANCE RiposteWindow WITH
         window <- [t \in Timer |-> CASE status[t] = "absent" -> "none"
                                      [] status[t] = "pending" -> "open"
                                      [] OTHER -> status[t]],
         struck <- [t \in Timer |-> attacks[t] > 0]

\* Every step of the tasks is a step of the abstract window or leaves it alone:
\* one open window per character, resolved once and for good.
ImplementsWindow == RW!Spec

\* No row stays pending for ever, whatever fails or restarts in between.
EveryWindowCloses ==
    \A t \in Timer : status[t] = "pending" ~> status[t] # "pending"

\* update_message_ref "keeps the TTL accurate even if Discord's API was slow":
\* a button on screen whose deadline is ahead has not been expired.
TtlHonoured ==
    \A t \in Timer : posted[t] = "live" /\ msgRef[t] /\ ~due[t]
                        => status[t] # "expired"

\* "one reaction per round per PC" (schema.sql).
OneReactionPerRound == \A p \in PC : reacted[p] <= 1
=============================================================================
