--------------------------- MODULE RiposteProofs ---------------------------
(* Proofs about Riposte, for any number of rows, characters, channels and   *)
(* concurrent clicks.                                                       *)
EXTENDS Riposte, TLAPS

\* Next without its grouping: one disjunct per action.
LEMMA NextCases ==
  ASSUME Next
  PROVE  \/ \E ch \in Channel, p \in PC : DriveStart(ch, p)
         \/ \E ch \in Channel : DriveNoWindow(ch)
         \/ \E ch \in Channel : DriveMiss(ch)
         \/ \E ch \in Channel : DriveCheckFails(ch)
         \/ \E ch \in Channel : DriveInsert(ch)
         \/ \E ch \in Channel : DriveSend(ch)
         \/ \E ch \in Channel : DriveBackfill(ch)
         \/ \E ch \in Channel : DriveSurfaceFails(ch)
         \/ \E ch \in Channel : DriveAdvance(ch)
         \/ \E ch \in Channel : RoundPasses(ch)
         \/ \E t \in Timer : Deadline(t)
         \/ \E c \in Click, t \in Timer : ClickArrive(c, t)
         \/ \E c \in Click : ClickResolved(c)
         \/ \E c \in Click : ClickLate(c)
         \/ \E c \in Click : ClickOpen(c)
         \/ \E c \in Click : ClickReadRound(c)
         \/ \E c \in Click : ClickStrike(c)
         \/ \E c \in Click : ClickStrikeFails(c)
         \/ \E c \in Click : ClickMark(c)
         \/ \E c \in Click : ClickMarkFails(c)
         \/ \E c \in Click : ClickDelete(c)
         \/ SweepList
         \/ SweepPick
         \/ SweepMark
         \/ SweepMarkFails
         \/ SweepDelete
         \/ SweepSleep
         \/ Crash
  BY DEF Next, DriveStep, ClickStep, SweepStep

\* Rows, tasks and messages refer to each other consistently: what a task works
\* on exists, and a row with a message id has had its message sent.
RefInv ==
  /\ \A t \in Timer : /\ status[t] # "absent" => owner[t] \in PC
                      /\ status[t] = "absent" => posted[t] = "none"
                      /\ msgRef[t] => posted[t] # "none"
  /\ \A c \in Click : clickPc[c] # "idle" => /\ clickRow[c] \in Timer
                                              /\ posted[clickRow[c]] # "none"
  /\ sweepPc \in {"waiting", "marked"} => sweepRow \in Timer
                                           /\ status[sweepRow] # "absent"
  /\ \A t \in sweepTodo : status[t] # "absent"
  /\ \A t \in sweepRefs : msgRef[t]
  /\ \A ch \in Channel :
       /\ drivePc[ch] # "idle" => /\ driveWho[ch] \in PC
                                   /\ ChannelOf[driveWho[ch]] = ch
       /\ drivePc[ch] \in {"inserted", "posted"} =>
            /\ driveRow[ch] \in Timer
            /\ status[driveRow[ch]] # "absent"
            /\ owner[driveRow[ch]] = driveWho[ch]
       /\ drivePc[ch] = "inserted" => posted[driveRow[ch]] = "none"
       /\ drivePc[ch] = "posted" => posted[driveRow[ch]] # "none"

\* The lock of a channel belongs to the task that is in its critical section.
LockInv ==
  /\ \A c \in Click : clickPc[c] \in ClickLocked => lock[Held(c)] = c
  /\ sweepPc = "marked" => lock[ChannelOfRow(sweepRow)] = Sweeper

\* No character has two open windows.
OneOpenWindow ==
  \A t, u \in Timer : status[t] = "pending" /\ status[u] = "pending"
                      /\ owner[t] = owner[u] => t = u

\* OrphansExplained, for messages not sent yet too.
NoneForgotten ==
  \A t \in Timer : status[t] \in {"consumed", "expired"} /\ posted[t] # "gone"
                     => DeletionOwed(t) \/ abandoned[t]

IInv == /\ TypeOK
        /\ RefInv
        /\ LockInv
        /\ AttackOnOpenWindow
        /\ OfferStillValid
        /\ OneOpenWindow
        /\ AttacksAccounted
        /\ NoneForgotten

-----------------------------------------------------------------------------
\* The initial state is well typed.
LEMMA InitTypeOK == Init => TypeOK
  BY RiposteAssumption
     DEF Init, TypeOK, Statuses, Rounds, ClickPhases, DrivePhases,
         SweepPhases, NoRow, NoPC, Free

\* A click that is under way works on a row that exists.
LEMMA ClickRowExists ==
  ASSUME TypeOK, RefInv, NEW c \in Click, clickPc[c] # "idle"
  PROVE  /\ clickRow[c] \in Timer
         /\ status[clickRow[c]] # "absent"
         /\ owner[clickRow[c]] \in PC
         /\ Held(c) \in Channel
  BY RiposteAssumption DEF TypeOK, RefInv, Held, ChannelOfRow

\* So does the sweeper.
LEMMA SweepRowExists ==
  ASSUME TypeOK, RefInv, sweepPc \in {"waiting", "marked"}
  PROVE  /\ sweepRow \in Timer
         /\ status[sweepRow] # "absent"
         /\ owner[sweepRow] \in PC
         /\ ChannelOfRow(sweepRow) \in Channel
  BY RiposteAssumption DEF TypeOK, RefInv, ChannelOfRow

\* And a monster driver that has inserted its row.
LEMMA DriveRowExists ==
  ASSUME TypeOK, RefInv, NEW ch \in Channel, drivePc[ch] \in {"inserted", "posted"}
  PROVE  /\ driveRow[ch] \in Timer
         /\ status[driveRow[ch]] # "absent"
  BY DEF TypeOK, RefInv

\* What a deletion does to the message and the history.
LEMMA DeleteMessageEffect ==
  ASSUME TypeOK, NEW t \in Timer, NEW ref \in BOOLEAN, DeleteMessage(t, ref)
  PROVE  /\ posted' \in [Timer -> {"none", "live", "gone"}]
         /\ abandoned' \in [Timer -> BOOLEAN]
         /\ faults' \in 0 .. MaxFaults
         /\ \A u \in Timer : abandoned[u] => abandoned'[u]
         /\ \A u \in Timer : posted'[u] # "gone" => posted'[u] = posted[u]
         /\ \A u \in Timer : u # t => posted'[u] = posted[u]
         /\ posted'[t] = "gone" \/ abandoned'[t]
         /\ ~ref => posted' = posted
  <1> USE RiposteAssumption DEF TypeOK
  <1>1. CASE ref /\ posted' = [posted EXCEPT ![t] = "gone"]
                 /\ UNCHANGED <<abandoned, faults>>
    BY <1>1
  <1>2. CASE /\ posted' = posted
             /\ abandoned' = [abandoned EXCEPT ![t] = TRUE]
             /\ faults' = faults \/ Fault
    BY <1>2 DEF Fault
  <1>3. QED
    BY <1>1, <1>2, Zenon DEF DeleteMessage

\* Every step preserves the types; the clicks need to know that their row
\* exists.
LEMMA NextTypeOK ==
  ASSUME TypeOK, RefInv, [Next]_vars
  PROVE  TypeOK'
  <1> USE RiposteAssumption
          DEF TypeOK, Statuses, Rounds, ClickPhases, ClickLocked, DrivePhases,
              SweepPhases, Fault, Acquire, Release, DriveGoto, ClickGoto,
              ClickEnd, DriveEnd, rows, history, click, drive, sweep
  <1>1. ASSUME NEW ch \in Channel, NEW p \in PC, DriveStart(ch, p)
        PROVE  TypeOK'
    BY <1>1 DEF DriveStart
  <1>2. ASSUME NEW ch \in Channel, DriveNoWindow(ch)
        PROVE  TypeOK'
    BY <1>2 DEF DriveNoWindow
  <1>3. ASSUME NEW ch \in Channel, DriveMiss(ch)
        PROVE  TypeOK'
    BY <1>3 DEF DriveMiss
  <1>4. ASSUME NEW ch \in Channel, DriveCheckFails(ch)
        PROVE  TypeOK'
    BY <1>4 DEF DriveCheckFails
  <1>5. ASSUME NEW ch \in Channel, DriveInsert(ch)
        PROVE  TypeOK'
    BY <1>5 DEF DriveInsert
  <1>6. ASSUME NEW ch \in Channel, DriveSend(ch)
        PROVE  TypeOK'
    BY <1>6, DriveRowExists DEF DriveSend
  <1>7. ASSUME NEW ch \in Channel, DriveBackfill(ch)
        PROVE  TypeOK'
    BY <1>7, DriveRowExists DEF DriveBackfill
  <1>8. ASSUME NEW ch \in Channel, DriveSurfaceFails(ch)
        PROVE  TypeOK'
    BY <1>8, DriveRowExists DEF DriveSurfaceFails
  <1>9. ASSUME NEW ch \in Channel, DriveAdvance(ch)
        PROVE  TypeOK'
    BY <1>9 DEF DriveAdvance, RoundMoves
  <1>10. ASSUME NEW ch \in Channel, RoundPasses(ch)
         PROVE  TypeOK'
    BY <1>10 DEF RoundPasses, RoundMoves
  <1>11. ASSUME NEW t \in Timer, Deadline(t)
         PROVE  TypeOK'
    BY <1>11 DEF Deadline
  <1>12. ASSUME NEW c \in Click, NEW t \in Timer, ClickArrive(c, t)
         PROVE  TypeOK'
    BY <1>12 DEF ClickArrive
  <1>13. ASSUME NEW c \in Click, ClickResolved(c)
         PROVE  TypeOK'
    BY <1>13, ClickRowExists DEF ClickResolved
  <1>14. ASSUME NEW c \in Click, ClickLate(c)
         PROVE  TypeOK'
    BY <1>14, ClickRowExists DEF ClickLate, MarkExpired
  <1>15. ASSUME NEW c \in Click, ClickOpen(c)
         PROVE  TypeOK'
    BY <1>15, ClickRowExists DEF ClickOpen
  <1>16. ASSUME NEW c \in Click, ClickReadRound(c)
         PROVE  TypeOK'
    <2>1. Held(c) \in Channel
      BY <1>16, ClickRowExists DEF ClickReadRound
    <2>2. round[Held(c)] \in Rounds /\ 0 \in Rounds
      BY <2>1
    <2>3. /\ clickRound' \in [Click -> Rounds]
          /\ faults' \in 0 .. MaxFaults
      BY <1>16, <2>2 DEF ClickReadRound
    <2>4. QED
      BY <1>16, <2>3 DEF ClickReadRound
  <1>17. ASSUME NEW c \in Click, ClickStrike(c)
         PROVE  TypeOK'
    BY <1>17, ClickRowExists DEF ClickStrike, Strikes
  <1>18. ASSUME NEW c \in Click, ClickStrikeFails(c)
         PROVE  TypeOK'
    <2>1. /\ clickRow[c] \in Timer /\ owner[clickRow[c]] \in PC
          /\ Held(c) \in Channel
      BY <1>18, ClickRowExists DEF ClickStrikeFails
    <2>2. attacks' \in [Timer -> Nat] /\ reacted' \in [PC -> Nat]
      BY <1>18, <2>1 DEF ClickStrikeFails, Strikes
    <2>3. unsaved' \in [Timer -> Nat] /\ faults' \in 0 .. MaxFaults
      BY <1>18, <2>1 DEF ClickStrikeFails
    <2>4. lock' \in [Channel -> Click \cup {Sweeper, Free}]
      BY <1>18, <2>1 DEF ClickStrikeFails
    <2>5. QED
      BY <1>18, <2>2, <2>3, <2>4 DEF ClickStrikeFails
  <1>19. ASSUME NEW c \in Click, ClickMark(c)
         PROVE  TypeOK'
    BY <1>19, ClickRowExists DEF ClickMark
  <1>20. ASSUME NEW c \in Click, ClickMarkFails(c)
         PROVE  TypeOK'
    BY <1>20, ClickRowExists DEF ClickMarkFails
  <1>21. ASSUME NEW c \in Click, ClickDelete(c)
         PROVE  TypeOK'
    <2>1. clickPc[c] # "idle" /\ clickRow[c] \in Timer
      BY <1>21, ClickRowExists DEF ClickDelete
    <2>2. /\ posted' \in [Timer -> {"none", "live", "gone"}]
          /\ abandoned' \in [Timer -> BOOLEAN]
          /\ faults' \in 0 .. MaxFaults
      BY <1>21, <2>1, DeleteMessageEffect DEF ClickDelete
    <2>3. QED
      BY <1>21, <2>1, <2>2 DEF ClickDelete
  <1>22. ASSUME SweepList PROVE TypeOK'
    BY <1>22 DEF SweepList
  <1>23. ASSUME SweepPick PROVE TypeOK'
    BY <1>23 DEF SweepPick
  <1>24. ASSUME SweepMark PROVE TypeOK'
    BY <1>24, SweepRowExists DEF SweepMark, MarkExpired
  <1>25. ASSUME SweepMarkFails PROVE TypeOK'
    BY <1>25, SweepRowExists DEF SweepMarkFails
  <1>26. ASSUME SweepDelete PROVE TypeOK'
    <2> DEFINE ref == sweepRow \in sweepRefs
    <2>1. sweepRow \in Timer
      BY <1>26, SweepRowExists DEF SweepDelete
    <2>2. ref \in BOOLEAN /\ DeleteMessage(sweepRow, ref)
      BY <1>26 DEF SweepDelete
    <2> HIDE DEF ref
    <2>3. /\ posted' \in [Timer -> {"none", "live", "gone"}]
          /\ abandoned' \in [Timer -> BOOLEAN]
          /\ faults' \in 0 .. MaxFaults
      BY <2>1, <2>2, DeleteMessageEffect
    <2>4. QED
      BY <1>26, <2>1, <2>3 DEF SweepDelete
  <1>27. ASSUME SweepSleep PROVE TypeOK'
    BY <1>27 DEF SweepSleep
  <1>28. ASSUME Crash PROVE TypeOK'
    BY <1>28 DEF Crash
  <1>29. CASE UNCHANGED vars
    BY <1>29 DEF vars
  <1>30. QED
    BY NextCases, <1>1, <1>2, <1>3, <1>4, <1>5, <1>6, <1>7, <1>8, <1>9, <1>10,
       <1>11, <1>12, <1>13, <1>14, <1>15, <1>16, <1>17, <1>18, <1>19, <1>20,
       <1>21, <1>22, <1>23, <1>24, <1>25, <1>26, <1>27, <1>28, <1>29

\* Every step keeps the references consistent.
LEMMA NextRefInv ==
  ASSUME TypeOK, RefInv, [Next]_vars
  PROVE  RefInv'
  <1> USE RiposteAssumption
          DEF TypeOK, RefInv, Statuses, ClickPhases, ClickLocked, DrivePhases,
              SweepPhases, Fault, Acquire, Release, DriveGoto, ClickGoto,
              ClickEnd, DriveEnd, rows, history, click, drive, sweep
  <1>1. ASSUME NEW ch \in Channel, NEW p \in PC, DriveStart(ch, p)
        PROVE  RefInv'
    BY <1>1 DEF DriveStart
  <1>2. ASSUME NEW ch \in Channel, DriveNoWindow(ch)
        PROVE  RefInv'
    BY <1>2 DEF DriveNoWindow
  <1>3. ASSUME NEW ch \in Channel, DriveMiss(ch)
        PROVE  RefInv'
    BY <1>3 DEF DriveMiss
  <1>4. ASSUME NEW ch \in Channel, DriveCheckFails(ch)
        PROVE  RefInv'
    BY <1>4 DEF DriveCheckFails
  <1>5. ASSUME NEW ch \in Channel, DriveInsert(ch)
        PROVE  RefInv'
    BY <1>5 DEF DriveInsert
  <1>6. ASSUME NEW ch \in Channel, DriveSend(ch)
        PROVE  RefInv'
    BY <1>6, DriveRowExists DEF DriveSend
  <1>7. ASSUME NEW ch \in Channel, DriveBackfill(ch)
        PROVE  RefInv'
    BY <1>7, DriveRowExists DEF DriveBackfill
  <1>8. ASSUME NEW ch \in Channel, DriveSurfaceFails(ch)
        PROVE  RefInv'
    BY <1>8, DriveRowExists DEF DriveSurfaceFails
  <1>9. ASSUME NEW ch \in Channel, DriveAdvance(ch)
        PROVE  RefInv'
    BY <1>9 DEF DriveAdvance, RoundMoves
  <1>10. ASSUME NEW ch \in Channel, RoundPasses(ch)
         PROVE  RefInv'
    BY <1>10 DEF RoundPasses, RoundMoves
  <1>11. ASSUME NEW t \in Timer, Deadline(t)
         PROVE  RefInv'
    BY <1>11 DEF Deadline
  <1>12. ASSUME NEW c \in Click, NEW t \in Timer, ClickArrive(c, t)
         PROVE  RefInv'
    BY <1>12 DEF ClickArrive
  <1>13. ASSUME NEW c \in Click, ClickResolved(c)
         PROVE  RefInv'
    BY <1>13, ClickRowExists DEF ClickResolved
  <1>14. ASSUME NEW c \in Click, ClickLate(c)
         PROVE  RefInv'
    BY <1>14, ClickRowExists DEF ClickLate, MarkExpired
  <1>15. ASSUME NEW c \in Click, ClickOpen(c)
         PROVE  RefInv'
    BY <1>15, ClickRowExists DEF ClickOpen
  <1>16. ASSUME NEW c \in Click, ClickReadRound(c)
         PROVE  RefInv'
    BY <1>16, ClickRowExists DEF ClickReadRound
  <1>17. ASSUME NEW c \in Click, ClickStrike(c)
         PROVE  RefInv'
    BY <1>17, ClickRowExists DEF ClickStrike, Strikes
  <1>18. ASSUME NEW c \in Click, ClickStrikeFails(c)
         PROVE  RefInv'
    BY <1>18, ClickRowExists DEF ClickStrikeFails, Strikes
  <1>19. ASSUME NEW c \in Click, ClickMark(c)
         PROVE  RefInv'
    BY <1>19, ClickRowExists DEF ClickMark
  <1>20. ASSUME NEW c \in Click, ClickMarkFails(c)
         PROVE  RefInv'
    BY <1>20, ClickRowExists DEF ClickMarkFails
  <1>21. ASSUME NEW c \in Click, ClickDelete(c)
         PROVE  RefInv'
    <2>1. clickPc[c] = "deleting" /\ clickRow[c] \in Timer /\ posted[clickRow[c]] # "none"
      BY <1>21 DEF ClickDelete
    <2>2. /\ \A u \in Timer : posted'[u] # "gone" => posted'[u] = posted[u]
          /\ \A u \in Timer : u # clickRow[c] => posted'[u] = posted[u]
      BY <1>21, <2>1, DeleteMessageEffect DEF ClickDelete
    <2>3. \A u \in Timer : posted'[u] = "none" <=> posted[u] = "none"
      BY <2>1, <2>2
    <2>4. QED
      BY <1>21, <2>1, <2>3 DEF ClickDelete
  <1>22. ASSUME SweepList
         PROVE  RefInv'
    BY <1>22 DEF SweepList
  <1>23. ASSUME SweepPick
         PROVE  RefInv'
    BY <1>23 DEF SweepPick
  <1>24. ASSUME SweepMark
         PROVE  RefInv'
    BY <1>24, SweepRowExists DEF SweepMark, MarkExpired
  <1>25. ASSUME SweepMarkFails
         PROVE  RefInv'
    BY <1>25, SweepRowExists DEF SweepMarkFails
  <1>26. ASSUME SweepDelete
         PROVE  RefInv'
    <2> DEFINE ref == sweepRow \in sweepRefs
    <2>1. sweepRow \in Timer /\ (ref => posted[sweepRow] # "none")
      BY <1>26 DEF SweepDelete
    <2>2. ref \in BOOLEAN /\ DeleteMessage(sweepRow, ref)
      BY <1>26 DEF SweepDelete
    <2> HIDE DEF ref
    <2>3. /\ \A u \in Timer : posted'[u] # "gone" => posted'[u] = posted[u]
          /\ \A u \in Timer : u # sweepRow => posted'[u] = posted[u]
          /\ ~ref => posted' = posted
      BY <2>1, <2>2, DeleteMessageEffect
    <2>4. \A u \in Timer : posted'[u] = "none" <=> posted[u] = "none"
      BY <2>1, <2>3
    <2>5. QED
      BY <1>26, <2>1, <2>4 DEF SweepDelete
  <1>27. ASSUME SweepSleep
         PROVE  RefInv'
    BY <1>27 DEF SweepSleep
  <1>28. ASSUME Crash
         PROVE  RefInv'
    BY <1>28 DEF Crash
  <1>29. CASE UNCHANGED vars
    BY <1>29 DEF vars
  <1>30. QED
    BY NextCases, <1>1, <1>2, <1>3, <1>4, <1>5, <1>6, <1>7, <1>8, <1>9, <1>10,
       <1>11, <1>12, <1>13, <1>14, <1>15, <1>16, <1>17, <1>18, <1>19, <1>20,
       <1>21, <1>22, <1>23, <1>24, <1>25, <1>26, <1>27, <1>28, <1>29

-----------------------------------------------------------------------------
\* A monster driver touches neither the lock nor the other tasks, and of the
\* rows' owners and states only what it inserts.
LEMMA DriveFrame ==
  ASSUME NEW ch \in Channel, DriveStep(ch)
  PROVE  /\ UNCHANGED <<lock, click, sweep, attacks, unsaved, abandoned>>
         /\ \/ DriveInsert(ch)
            \/ UNCHANGED <<status, owner, usedRound>>
  BY DEF DriveStep, DriveStart, DriveNoWindow, DriveMiss, DriveCheckFails,
         DriveSend, DriveBackfill, DriveSurfaceFails, DriveAdvance,
         RoundPasses, DriveInsert, rows, history

\* Only four steps write a row's state.
LEMMA RowFrame ==
  ASSUME [Next]_vars
  PROVE  \/ UNCHANGED <<status, owner, usedRound>>
         \/ \E ch \in Channel : DriveInsert(ch)
         \/ \E c \in Click : ClickLate(c)
         \/ \E c \in Click : ClickMark(c)
         \/ SweepMark
  <1>1. ASSUME NEW ch \in Channel, DriveStep(ch)
        PROVE  UNCHANGED <<status, owner, usedRound>> \/ DriveInsert(ch)
    BY <1>1, DriveFrame
  <1>2. ASSUME NEW c \in Click
        PROVE  /\ \A t \in Timer : ClickArrive(c, t) => UNCHANGED rows
               /\ ClickResolved(c) => UNCHANGED rows
               /\ ClickOpen(c) => UNCHANGED rows
               /\ ClickStep(c) => UNCHANGED rows \/ ClickMark(c)
    BY DEF ClickArrive, ClickResolved, ClickOpen, ClickStep, ClickReadRound,
           ClickStrike, ClickStrikeFails, ClickMarkFails, ClickDelete
  <1>3. SweepStep \/ Crash => UNCHANGED rows
    BY DEF SweepStep, SweepList, SweepPick, SweepMarkFails, SweepDelete,
           SweepSleep, Crash
  <1>4. \A t \in Timer : Deadline(t) => UNCHANGED <<status, owner, usedRound>>
    BY DEF Deadline
  <1>5. UNCHANGED rows \/ UNCHANGED vars
           => UNCHANGED <<status, owner, usedRound>>
    BY DEF rows, vars
  <1>6. QED
    BY <1>1, <1>2, <1>3, <1>4, <1>5 DEF Next

-----------------------------------------------------------------------------
\* A click that ends its critical section releases its own lock only.
LEMMA ClickLeaves ==
  ASSUME TypeOK, RefInv, LockInv, NEW c \in Click, clickPc[c] \in ClickLocked,
         Release(Held(c)), clickPc'[c] \notin ClickLocked,
         \A d \in Click \ {c} : /\ clickPc'[d] = clickPc[d]
                                /\ clickRow'[d] = clickRow[d],
         UNCHANGED <<owner, sweepPc, sweepRow>>
  PROVE  LockInv'
  <1>1. lock[Held(c)] = c /\ Held(c) \in Channel
    BY ClickRowExists DEF LockInv, ClickLocked
  <1>2. \A ch \in Channel : ch # Held(c) => lock'[ch] = lock[ch]
    BY DEF Release, TypeOK
  <1>3. ASSUME NEW d \in Click, clickPc'[d] \in ClickLocked
        PROVE  lock'[Held(d)'] = d
    <2>1. d # c /\ Held(d)' = Held(d) /\ clickPc[d] \in ClickLocked
      BY <1>3 DEF Held, ChannelOfRow
    <2>2. lock[Held(d)] = d /\ Held(d) \in Channel
      BY <2>1, ClickRowExists DEF LockInv, ClickLocked
    <2>3. QED
      BY <1>1, <1>2, <2>1, <2>2
  <1>4. ASSUME sweepPc' = "marked"
        PROVE  lock'[ChannelOfRow(sweepRow)'] = Sweeper
    <2>1. /\ ChannelOfRow(sweepRow)' = ChannelOfRow(sweepRow)
          /\ lock[ChannelOfRow(sweepRow)] = Sweeper
          /\ ChannelOfRow(sweepRow) \in Channel
      BY <1>4, SweepRowExists DEF LockInv, ChannelOfRow
    <2>2. c # Sweeper
      BY RiposteAssumption DEF Sweeper
    <2>3. QED
      BY <1>1, <1>2, <2>1, <2>2
  <1>5. QED
    BY <1>3, <1>4 DEF LockInv

\* A task that takes the lock is the only one in its critical section.
LEMMA TaskEnters ==
  ASSUME TypeOK, RefInv, LockInv, NEW who, NEW ch \in Channel, Acquire(ch, who),
         UNCHANGED owner,
         \A d \in Click : clickPc'[d] \in ClickLocked =>
            \/ clickPc[d] \in ClickLocked /\ clickRow'[d] = clickRow[d]
            \/ d = who /\ Held(d)' = ch,
         sweepPc' = "marked" =>
            \/ sweepPc = "marked" /\ sweepRow' = sweepRow
            \/ who = Sweeper /\ ChannelOfRow(sweepRow)' = ch
  PROVE  LockInv'
  <1>1. /\ lock'[ch] = who /\ lock[ch] = Free
        /\ \A x \in Channel : x # ch => lock'[x] = lock[x]
    BY DEF Acquire, TypeOK
  <1>2. ASSUME NEW d \in Click, clickPc'[d] \in ClickLocked
        PROVE  lock'[Held(d)'] = d
    <2>1. CASE d = who /\ Held(d)' = ch
      BY <1>1, <2>1
    <2>2. CASE clickPc[d] \in ClickLocked /\ clickRow'[d] = clickRow[d]
      <3>1. lock[Held(d)] = d /\ Held(d) \in Channel
        BY <2>2, ClickRowExists DEF LockInv, ClickLocked
      <3>2. Held(d)' = Held(d) /\ d # Free
        BY <2>2, RiposteAssumption DEF Held, ChannelOfRow, Free
      <3>3. QED
        BY <1>1, <3>1, <3>2
    <2>3. QED
      BY <1>2, <2>1, <2>2
  <1>3. ASSUME sweepPc' = "marked"
        PROVE  lock'[ChannelOfRow(sweepRow)'] = Sweeper
    <2>1. CASE who = Sweeper /\ ChannelOfRow(sweepRow)' = ch
      BY <1>1, <2>1
    <2>2. CASE sweepPc = "marked" /\ sweepRow' = sweepRow
      BY <1>1, <2>2, SweepRowExists
         DEF LockInv, ChannelOfRow, Free, Sweeper
    <2>3. QED
      BY <1>3, <2>1, <2>2
  <1>4. QED
    BY <1>2, <1>3 DEF LockInv

\* Every step keeps the lock with the task in its critical section.
LEMMA NextLockInv ==
  ASSUME TypeOK, RefInv, LockInv, [Next]_vars
  PROVE  LockInv'
  <1>1. ASSUME UNCHANGED <<lock, owner, sweepPc, sweepRow>>,
               \A d \in Click : clickPc'[d] \in ClickLocked =>
                  clickPc[d] \in ClickLocked /\ clickRow'[d] = clickRow[d]
        PROVE  LockInv'
    BY <1>1 DEF LockInv, Held, ChannelOfRow
  <1>2. CASE UNCHANGED vars
    BY <1>2, <1>1 DEF vars, rows, click, sweep
  <1>3. ASSUME NEW ch \in Channel, DriveStep(ch)
        PROVE  LockInv'
    <2>1. CASE UNCHANGED owner
      BY <1>1, <1>3, <2>1, DriveFrame DEF click, sweep
    <2>2. CASE DriveInsert(ch)
      <3>1. /\ UNCHANGED <<lock, clickPc, clickRow, sweepPc, sweepRow>>
            /\ \A t \in Timer : status[t] # "absent" => owner'[t] = owner[t]
        BY <2>2 DEF DriveInsert, TypeOK, click, sweep
      <3>2. \A d \in Click : clickPc[d] # "idle" => Held(d)' = Held(d)
        BY <3>1, ClickRowExists DEF Held, ChannelOfRow
      <3>3. sweepPc = "marked" => ChannelOfRow(sweepRow)' = ChannelOfRow(sweepRow)
        BY <3>1, SweepRowExists DEF ChannelOfRow
      <3>4. QED
        BY <3>1, <3>2, <3>3 DEF LockInv, ClickLocked
    <2>3. QED
      BY <1>3, <2>1, <2>2, DriveFrame
  <1>4. ASSUME NEW t \in Timer, Deadline(t)
        PROVE  LockInv'
    BY <1>4, <1>1 DEF Deadline, click, sweep
  <1>5. ASSUME NEW c \in Click, NEW t \in Timer, ClickArrive(c, t)
        PROVE  LockInv'
    BY <1>5, <1>1 DEF ClickArrive, ClickLocked, TypeOK, rows, sweep
  <1>6. ASSUME NEW c \in Click, \/ ClickResolved(c)
                                \/ ClickLate(c)
                                \/ ClickDelete(c)
        PROVE  LockInv'
    BY <1>6, <1>1
       DEF ClickResolved, ClickLate, ClickDelete, ClickEnd, ClickLocked,
           TypeOK, rows, sweep
  <1>7. ASSUME NEW c \in Click, ClickReadRound(c) \/ ClickStrike(c)
        PROVE  LockInv'
    BY <1>7, <1>1
       DEF ClickReadRound, ClickStrike, ClickGoto, ClickLocked, TypeOK, rows, sweep
  <1>8. ASSUME NEW c \in Click, ClickOpen(c)
        PROVE  LockInv'
    <2>1. /\ Held(c) \in Channel
          /\ Acquire(Held(c), c)
      BY <1>8, ClickRowExists DEF ClickOpen
    <2>2. /\ UNCHANGED <<owner, sweepPc, sweepRow, clickRow>>
          /\ \A d \in Click : d # c => clickPc'[d] = clickPc[d]
      BY <1>8 DEF ClickOpen, TypeOK, rows, sweep
    <2>3. Held(c)' = Held(c)
      BY <2>2 DEF Held, ChannelOfRow
    <2>4. QED
      BY <2>1, <2>2, <2>3, TaskEnters
  <1>9. ASSUME NEW c \in Click, \/ ClickStrikeFails(c)
                                \/ ClickMark(c)
                                \/ ClickMarkFails(c)
        PROVE  LockInv'
    <2>1. clickPc[c] \in ClickLocked /\ Release(Held(c))
      BY <1>9 DEF ClickStrikeFails, ClickMark, ClickMarkFails, ClickLocked
    <2>2. /\ clickPc'[c] \notin ClickLocked
          /\ \A d \in Click \ {c} : /\ clickPc'[d] = clickPc[d]
                                    /\ clickRow'[d] = clickRow[d]
      BY <1>9 DEF ClickStrikeFails, ClickMark, ClickMarkFails, ClickEnd,
                  ClickGoto, ClickLocked, TypeOK
    <2>3. UNCHANGED <<owner, sweepPc, sweepRow>>
      BY <1>9 DEF ClickStrikeFails, ClickMark, ClickMarkFails, rows, sweep
    <2>4. QED
      BY <2>1, <2>2, <2>3, ClickLeaves
  <1>10. ASSUME \/ SweepList
                \/ SweepPick
                \/ SweepMarkFails
                \/ SweepSleep
         PROVE  LockInv'
    <2>1. sweepPc' # "marked" /\ UNCHANGED <<lock, owner, clickPc, clickRow>>
      BY <1>10 DEF SweepList, SweepPick, SweepMarkFails, SweepSleep, rows, click
    <2>2. QED
      BY <2>1 DEF LockInv, Held, ChannelOfRow
  <1>11. ASSUME SweepMark
         PROVE  LockInv'
    <2>1. /\ ChannelOfRow(sweepRow) \in Channel
          /\ Acquire(ChannelOfRow(sweepRow), Sweeper)
      BY <1>11, SweepRowExists DEF SweepMark
    <2>2. UNCHANGED <<owner, sweepRow, clickPc, clickRow>>
      BY <1>11 DEF SweepMark, click
    <2>3. ChannelOfRow(sweepRow)' = ChannelOfRow(sweepRow)
      BY <2>2 DEF ChannelOfRow
    <2>4. QED
      BY <2>1, <2>2, <2>3, TaskEnters
  <1>12. ASSUME SweepDelete
         PROVE  LockInv'
    <2>1. /\ sweepPc = "marked" /\ sweepPc' = "picking"
          /\ lock' = [lock EXCEPT ![ChannelOfRow(sweepRow)] = Free]
          /\ UNCHANGED <<owner, clickPc, clickRow>>
      BY <1>12 DEF SweepDelete, Release, rows, click
    <2>2. lock[ChannelOfRow(sweepRow)] = Sweeper
      BY <2>1 DEF LockInv
    <2>3. ASSUME NEW d \in Click, clickPc[d] \in ClickLocked
          PROVE  lock'[Held(d)] = d
      <3>1. lock[Held(d)] = d /\ Held(d) \in Channel
        BY <2>3, ClickRowExists DEF LockInv, ClickLocked
      <3>2. d # Sweeper
        BY RiposteAssumption DEF Sweeper
      <3>3. QED
        BY <2>1, <2>2, <3>1, <3>2 DEF TypeOK
    <2>4. QED
      BY <2>1, <2>3 DEF LockInv, Held, ChannelOfRow
  <1>13. ASSUME Crash
         PROVE  LockInv'
    BY <1>13 DEF Crash, LockInv, ClickLocked
  <1>14. QED
    BY <1>2, <1>3, <1>4, <1>5, <1>6, <1>7, <1>8, <1>9, <1>10, <1>11, <1>12,
       <1>13 DEF Next, ClickStep, SweepStep
-----------------------------------------------------------------------------
\* Two clicks in their critical sections work on different rows.
LEMMA LockedRowsDiffer ==
  ASSUME LockInv, NEW c \in Click, clickPc[c] \in ClickLocked,
         NEW d \in Click, clickPc[d] \in ClickLocked, d # c
  PROVE  clickRow[d] # clickRow[c]
  BY DEF LockInv, Held

\* Who finds the lock of a row's channel free finds no click in its critical
\* section for that row.
LEMMA FreeMeansUntouched ==
  ASSUME LockInv, NEW t \in Timer, lock[ChannelOfRow(t)] = Free,
         NEW d \in Click, clickPc[d] \in ClickLocked
  PROVE  clickRow[d] # t
  BY RiposteAssumption DEF LockInv, Held, Free

\* The lock keeps a window open from the re-read to the write.
LEMMA NextAttackOnOpenWindow ==
  ASSUME TypeOK, RefInv, LockInv, AttackOnOpenWindow, [Next]_vars
  PROVE  AttackOnOpenWindow'
  \* A click in its critical section was there before, or has read its row.
  <1>1. ASSUME NEW d \in Click, clickPc'[d] \in ClickLocked
        PROVE  /\ clickRow'[d] = clickRow[d] /\ clickRow[d] \in Timer
               /\ status[clickRow[d]] = "pending"
               /\ clickPc[d] \in ClickLocked \/ ClickOpen(d)
    <2>1. CASE UNCHANGED click
      BY <1>1, <2>1, ClickRowExists DEF click, AttackOnOpenWindow, ClickLocked
    <2>2. CASE ClickOpen(d)
      BY <2>2, ClickRowExists DEF ClickOpen
    <2>3. CASE clickPc[d] \in ClickLocked /\ clickRow'[d] = clickRow[d]
      BY <2>3, ClickRowExists DEF AttackOnOpenWindow, ClickLocked
    <2>4. ASSUME NEW c \in Click, \/ \E t \in Timer : ClickArrive(c, t)
                                  \/ ClickResolved(c)
                                  \/ ClickLate(c)
                                  \/ ClickOpen(c)
                                  \/ ClickStep(c)
          PROVE  \/ clickPc[d] \in ClickLocked /\ clickRow'[d] = clickRow[d]
                 \/ ClickOpen(d)
      BY <1>1, <2>4
         DEF ClickArrive, ClickResolved, ClickLate, ClickOpen, ClickStep,
             ClickReadRound, ClickStrike, ClickStrikeFails, ClickMark,
             ClickMarkFails, ClickDelete, ClickGoto, ClickEnd, ClickLocked,
             TypeOK
    <2>5. \/ UNCHANGED click
          \/ Crash
          \/ \E c \in Click : \/ \E t \in Timer : ClickArrive(c, t)
                              \/ ClickResolved(c)
                              \/ ClickLate(c)
                              \/ ClickOpen(c)
                              \/ ClickStep(c)
      BY DriveFrame
         DEF Next, SweepStep, SweepList, SweepPick, SweepMark, SweepMarkFails,
             SweepDelete, SweepSleep, Deadline, vars
    <2>6. CASE Crash
      BY <1>1, <2>6 DEF Crash, ClickLocked
    <2>7. QED
      BY <2>1, <2>2, <2>3, <2>4, <2>5, <2>6
  <1>2. ASSUME NEW d \in Click, clickPc'[d] \in ClickLocked
        PROVE  status'[clickRow[d]] = "pending"
    <2>1. CASE UNCHANGED <<status, owner, usedRound>>
      BY <1>1, <1>2, <2>1
    <2>2. ASSUME NEW ch \in Channel, DriveInsert(ch)
          PROVE  status'[clickRow[d]] = "pending"
      BY <1>1, <1>2, <2>2 DEF DriveInsert, TypeOK
    <2>3. ASSUME NEW c \in Click, ClickLate(c)
          PROVE  status'[clickRow[d]] = "pending"
      <3>1. lock[ChannelOfRow(clickRow[c])] = Free /\ clickRow[c] \in Timer
        BY <2>3, ClickRowExists DEF ClickLate, Held
      <3>2. clickPc[d] \in ClickLocked
        BY <1>1, <1>2, <2>3
           DEF ClickLate, ClickOpen, ClickLocked, TypeOK
      <3>3. clickRow[d] # clickRow[c]
        BY <3>1, <3>2, FreeMeansUntouched
      <3>4. QED
        BY <1>1, <1>2, <2>3, <3>3 DEF ClickLate, MarkExpired, TypeOK
    <2>4. ASSUME NEW c \in Click, ClickMark(c)
          PROVE  status'[clickRow[d]] = "pending"
      <3>1. clickPc[c] \in ClickLocked /\ clickPc'[c] \notin ClickLocked
        BY <2>4 DEF ClickMark, ClickGoto, ClickLocked, TypeOK
      <3>2. clickPc[d] \in ClickLocked /\ d # c
        BY <1>1, <1>2, <2>4, <3>1
           DEF ClickMark, ClickGoto, ClickOpen, ClickLocked, TypeOK
      <3>3. clickRow[d] # clickRow[c]
        BY <3>1, <3>2, LockedRowsDiffer
      <3>4. QED
        BY <1>1, <1>2, <2>4, <3>3 DEF ClickMark, TypeOK
    <2>5. CASE SweepMark
      <3>1. lock[ChannelOfRow(sweepRow)] = Free /\ sweepRow \in Timer
        BY <2>5, SweepRowExists DEF SweepMark, Acquire
      <3>2. clickPc[d] \in ClickLocked
        BY <1>2, <2>5 DEF SweepMark, click
      <3>3. clickRow[d] # sweepRow
        BY <3>1, <3>2, FreeMeansUntouched
      <3>4. QED
        BY <1>1, <1>2, <2>5, <3>3 DEF SweepMark, MarkExpired, TypeOK
    <2>6. QED
      BY <2>1, <2>2, <2>3, <2>4, <2>5, RowFrame
  <1>3. QED
    BY <1>1, <1>2 DEF AttackOnOpenWindow

\* Nothing invalidates an accepted offer before its row is inserted.
LEMMA NextOfferStillValid ==
  ASSUME TypeOK, RefInv, AttackOnOpenWindow, OfferStillValid, [Next]_vars
  PROVE  OfferStillValid'
  \* An offer that will stand was accepted before or is accepted by this step.
  <1>1. ASSUME NEW ch \in Channel, drivePc'[ch] = "checked"
        PROVE  /\ driveWho'[ch] = driveWho[ch] /\ driveRound'[ch] = driveRound[ch]
               /\ driveWho[ch] \in PC /\ ChannelOf[driveWho[ch]] = ch
               /\ MayRiposte(driveWho[ch], driveRound[ch])
    <2>1. CASE UNCHANGED drive
      BY <1>1, <2>1 DEF drive, OfferStillValid, RefInv
    <2>2. ASSUME NEW x \in Channel, DriveStep(x)
          PROVE  \/ drivePc[ch] = "checked" /\ UNCHANGED <<driveWho[ch], driveRound[ch]>>
                 \/ DriveMiss(ch) /\ UNCHANGED <<driveWho, driveRound>>
      BY <1>1, <2>2
         DEF DriveStep, DriveStart, DriveNoWindow, DriveMiss, DriveCheckFails,
             DriveInsert, DriveSend, DriveBackfill, DriveSurfaceFails,
             DriveAdvance, RoundPasses, DriveGoto, DriveEnd, drive, TypeOK
    <2>3. \/ UNCHANGED drive
          \/ Crash
          \/ \E x \in Channel : DriveStep(x)
      BY DEF Next, ClickArrive, ClickResolved, ClickLate, ClickOpen, ClickStep,
             ClickReadRound, ClickStrike, ClickStrikeFails, ClickMark,
             ClickMarkFails, ClickDelete, SweepStep, SweepList, SweepPick,
             SweepMark, SweepMarkFails, SweepDelete, SweepSleep, Deadline, vars
    <2>4. CASE Crash
      BY <1>1, <2>4 DEF Crash
    <2>5. CASE DriveMiss(ch) /\ UNCHANGED <<driveWho, driveRound>>
      BY <2>5 DEF DriveMiss, RefInv
    <2>6. CASE drivePc[ch] = "checked" /\ UNCHANGED <<driveWho[ch], driveRound[ch]>>
      BY <2>6 DEF OfferStillValid, RefInv
    <2>7. QED
      BY <2>1, <2>2, <2>3, <2>4, <2>5, <2>6
  <1>2. ASSUME NEW ch \in Channel, drivePc'[ch] = "checked",
               NEW t \in Timer, owner'[t] = driveWho[ch]
        PROVE  /\ status'[t] # "pending"
               /\ usedRound'[t] = 0 \/ usedRound'[t] # driveRound[ch]
    <2>0. owner[t] = driveWho[ch] => /\ status[t] # "pending"
                                     /\ usedRound[t] = 0 \/ usedRound[t] # driveRound[ch]
      BY <1>1, <1>2 DEF MayRiposte
    <2>1. CASE UNCHANGED <<status, owner, usedRound>>
      BY <1>2, <2>0, <2>1
    <2>2. ASSUME NEW x \in Channel, DriveInsert(x)
          PROVE  /\ status'[t] # "pending"
                 /\ usedRound'[t] = 0 \/ usedRound'[t] # driveRound[ch]
      <3>1. x # ch
        BY <1>2, <2>2 DEF DriveInsert, TypeOK
      <3>2. driveWho[x] # driveWho[ch]
        BY <1>1, <1>2, <2>2, <3>1 DEF DriveInsert, RefInv
      <3>3. QED
        BY <1>2, <2>0, <2>2, <3>2 DEF DriveInsert, TypeOK
    <2>3. ASSUME NEW c \in Click, ClickLate(c)
          PROVE  /\ status'[t] # "pending"
                 /\ usedRound'[t] = 0 \/ usedRound'[t] # driveRound[ch]
      BY <1>2, <2>0, <2>3 DEF ClickLate, MarkExpired, TypeOK
    <2>4. ASSUME NEW c \in Click, ClickMark(c)
          PROVE  /\ status'[t] # "pending"
                 /\ usedRound'[t] = 0 \/ usedRound'[t] # driveRound[ch]
      <3>1. status[clickRow[c]] = "pending"
        BY <2>4 DEF ClickMark, AttackOnOpenWindow, ClickLocked
      <3>2. t # clickRow[c]
        BY <1>2, <2>0, <2>4, <3>1 DEF ClickMark
      <3>3. QED
        BY <1>2, <2>0, <2>4, <3>2 DEF ClickMark, TypeOK
    <2>5. CASE SweepMark
      BY <1>2, <2>0, <2>5 DEF SweepMark, MarkExpired, TypeOK
    <2>6. QED
      BY <2>1, <2>2, <2>3, <2>4, <2>5, RowFrame
  <1>3. QED
    BY <1>1, <1>2 DEF OfferStillValid, MayRiposte

\* No character gets a second open window.
LEMMA NextOneOpenWindow ==
  ASSUME TypeOK, OfferStillValid, OneOpenWindow, [Next]_vars
  PROVE  OneOpenWindow'
  <1>1. CASE UNCHANGED <<status, owner, usedRound>>
    BY <1>1 DEF OneOpenWindow
  <1>2. ASSUME NEW ch \in Channel, DriveInsert(ch)
        PROVE  OneOpenWindow'
    <2>1. \A t \in Timer : owner[t] = driveWho[ch] => status[t] # "pending"
      BY <1>2 DEF DriveInsert, OfferStillValid, MayRiposte
    <2>2. QED
      BY <1>2, <2>1 DEF DriveInsert, OneOpenWindow, TypeOK
  <1>3. ASSUME NEW c \in Click, ClickLate(c)
        PROVE  OneOpenWindow'
    BY <1>3 DEF ClickLate, MarkExpired, OneOpenWindow, TypeOK
  <1>4. ASSUME NEW c \in Click, ClickMark(c)
        PROVE  OneOpenWindow'
    BY <1>4 DEF ClickMark, OneOpenWindow, TypeOK
  <1>5. CASE SweepMark
    BY <1>5 DEF SweepMark, MarkExpired, OneOpenWindow, TypeOK
  <1>6. QED
    BY <1>1, <1>2, <1>3, <1>4, <1>5, RowFrame
-----------------------------------------------------------------------------
\* The row's recorded counter-attack, or the one about to be recorded.
Recorded ==
  [t \in Timer |-> IF \/ status[t] = "consumed"
                      \/ \E c \in Click : clickPc[c] = "struck" /\ clickRow[c] = t
                   THEN 1 ELSE 0]

\* Only these steps change what dm20 resolved or which outcomes are missing.
LEMMA AttackFrame ==
  ASSUME [Next]_vars
  PROVE  \/ UNCHANGED <<attacks, unsaved>>
         \/ \E c \in Click : ClickStrike(c)
         \/ \E c \in Click : ClickStrikeFails(c)
         \/ \E c \in Click : ClickMarkFails(c)
         \/ Crash
  <1>1. ASSUME NEW c \in Click
        PROVE  /\ \A t \in Timer : ClickArrive(c, t) => UNCHANGED history
               /\ ClickResolved(c) \/ ClickLate(c) \/ ClickOpen(c) => UNCHANGED history
               /\ ClickReadRound(c) \/ ClickMark(c) => UNCHANGED history
               /\ ClickDelete(c) => UNCHANGED <<attacks, unsaved>>
    BY DEF ClickArrive, ClickResolved, ClickLate, ClickOpen, ClickReadRound,
           ClickMark, ClickDelete
  <1>2. /\ SweepStep \/ SweepMark => UNCHANGED <<attacks, unsaved>>
        /\ \A t \in Timer : Deadline(t) => UNCHANGED history
    BY DEF SweepStep, SweepList, SweepPick, SweepMark, SweepMarkFails,
           SweepDelete, SweepSleep, Deadline, history
  <1>3. UNCHANGED history \/ UNCHANGED vars => UNCHANGED <<attacks, unsaved>>
    BY DEF history, vars
  <1>4. QED
    BY <1>1, <1>2, <1>3, DriveFrame DEF Next, ClickStep

\* Nobody enters or leaves the phase "struck" in any other step than these.
LEMMA StruckFrame ==
  ASSUME TypeOK, [Next]_vars, NEW d \in Click
  PROVE  \/ /\ clickPc'[d] = "struck" <=> clickPc[d] = "struck"
            /\ clickPc[d] = "struck" => clickRow'[d] = clickRow[d]
         \/ ClickStrike(d)
         \/ ClickMark(d)
         \/ ClickMarkFails(d)
         \/ Crash
  <1>1. CASE UNCHANGED click
    BY <1>1 DEF click
  <1>2. ASSUME NEW c \in Click, \/ \E t \in Timer : ClickArrive(c, t)
                                \/ ClickResolved(c)
                                \/ ClickLate(c)
                                \/ ClickOpen(c)
                                \/ ClickStep(c)
        PROVE  \/ /\ clickPc'[d] = "struck" <=> clickPc[d] = "struck"
                  /\ clickPc[d] = "struck" => clickRow'[d] = clickRow[d]
               \/ ClickStrike(d)
               \/ ClickMark(d)
               \/ ClickMarkFails(d)
    BY <1>2
       DEF ClickArrive, ClickResolved, ClickLate, ClickOpen, ClickStep,
           ClickReadRound, ClickStrike, ClickStrikeFails, ClickMark,
           ClickMarkFails, ClickDelete, ClickGoto, ClickEnd, TypeOK
  <1>3. \/ UNCHANGED click
        \/ Crash
        \/ \E c \in Click : \/ \E t \in Timer : ClickArrive(c, t)
                            \/ ClickResolved(c)
                            \/ ClickLate(c)
                            \/ ClickOpen(c)
                            \/ ClickStep(c)
    BY DriveFrame
       DEF Next, SweepStep, SweepList, SweepPick, SweepMark, SweepMarkFails,
           SweepDelete, SweepSleep, Deadline, vars
  <1>4. QED
    BY <1>1, <1>2, <1>3

\* A click's own step keeps every other click where it is.
LEMMA OthersStay ==
  ASSUME TypeOK, NEW c \in Click,
         \/ ClickStrike(c)
         \/ ClickStrikeFails(c)
         \/ ClickMark(c)
         \/ ClickMarkFails(c),
         NEW d \in Click, d # c
  PROVE  clickPc'[d] = clickPc[d] /\ clickRow'[d] = clickRow[d]
  BY DEF ClickStrike, ClickStrikeFails, ClickMark, ClickMarkFails, ClickGoto,
         ClickEnd, TypeOK

\* Every counter-attack stays accounted for.
LEMMA NextAttacksAccounted ==
  ASSUME TypeOK, RefInv, LockInv, AttackOnOpenWindow, AttacksAccounted,
         [Next]_vars
  PROVE  AttacksAccounted'
  <1>1. \A t \in Timer : /\ attacks[t] = unsaved[t] + Recorded[t]
                         /\ attacks[t] \in Nat /\ unsaved[t] \in Nat
                         /\ Recorded[t] \in {0, 1}
    BY DEF AttacksAccounted, Recorded, TypeOK
  <1>2. ASSUME NEW c \in Click, clickPc[c] \in ClickLocked
        PROVE  /\ clickRow[c] \in Timer
               /\ status[clickRow[c]] = "pending"
               /\ clickPc[c] # "struck" => Recorded[clickRow[c]] = 0
               /\ clickPc[c] = "struck" => Recorded[clickRow[c]] = 1
    <2>1. /\ clickRow[c] \in Timer
          /\ status[clickRow[c]] = "pending"
      BY <1>2, ClickRowExists DEF AttackOnOpenWindow, ClickLocked
    <2>2. \A d \in Click : clickPc[d] = "struck" /\ clickRow[d] = clickRow[c] => d = c
      BY <1>2, LockedRowsDiffer DEF ClickLocked
    <2>3. QED
      BY <2>1, <2>2 DEF Recorded
  <1>3. ASSUME NEW c \in Click, ClickStrike(c)
        PROVE  \A t \in Timer : attacks'[t] = unsaved'[t] + Recorded'[t]
    <2>1. /\ clickPc[c] \in ClickLocked /\ clickPc[c] # "struck"
          /\ clickPc'[c] = "struck" /\ clickRow'[c] = clickRow[c]
          /\ UNCHANGED <<status, unsaved>>
      BY <1>3 DEF ClickStrike, ClickGoto, ClickLocked, TypeOK, rows
    <2>2. /\ attacks'[clickRow[c]] = attacks[clickRow[c]] + 1
          /\ \A t \in Timer : t # clickRow[c] => attacks'[t] = attacks[t]
      BY <1>3, <2>1, <1>2 DEF ClickStrike, Strikes, TypeOK
    <2>3. Recorded'[clickRow[c]] = 1
      BY <2>1, <1>2 DEF Recorded
    <2>4. \A t \in Timer : t # clickRow[c] => Recorded'[t] = Recorded[t]
      BY <1>3, <2>1, OthersStay DEF Recorded
    <2>5. QED
      BY <1>1, <1>2, <2>1, <2>2, <2>3, <2>4
  <1>4. ASSUME NEW c \in Click, ClickStrikeFails(c)
        PROVE  \A t \in Timer : attacks'[t] = unsaved'[t] + Recorded'[t]
    <2>1. /\ clickPc[c] \in ClickLocked /\ clickPc[c] # "struck"
          /\ clickPc'[c] # "struck"
          /\ UNCHANGED status
      BY <1>4 DEF ClickStrikeFails, ClickEnd, ClickLocked, TypeOK, rows
    <2>2. \/ UNCHANGED <<attacks, unsaved>>
          \/ /\ attacks' = [attacks EXCEPT ![clickRow[c]] = @ + 1]
             /\ unsaved' = [unsaved EXCEPT ![clickRow[c]] = @ + 1]
      BY <1>4 DEF ClickStrikeFails, Strikes
    <2>3. \A t \in Timer : Recorded'[t] = Recorded[t]
      BY <1>4, <2>1, OthersStay DEF Recorded
    <2>4. \A t \in Timer : attacks'[t] - unsaved'[t] = attacks[t] - unsaved[t]
      BY <1>1, <2>2 DEF TypeOK
    <2>5. \A t \in Timer : attacks'[t] \in Nat /\ unsaved'[t] \in Nat
      BY <1>1, <2>2 DEF TypeOK
    <2>6. QED
      BY <1>1, <2>3, <2>4, <2>5
  <1>5. ASSUME NEW c \in Click, ClickMarkFails(c)
        PROVE  \A t \in Timer : attacks'[t] = unsaved'[t] + Recorded'[t]
    <2>1. /\ clickPc[c] \in ClickLocked /\ clickPc[c] = "struck"
          /\ clickPc'[c] # "struck"
          /\ UNCHANGED <<status, attacks>>
          /\ unsaved' = [unsaved EXCEPT ![clickRow[c]] = @ + 1]
      BY <1>5 DEF ClickMarkFails, ClickEnd, ClickLocked, TypeOK, rows
    <2>2. \A t \in Timer : t # clickRow[c] => Recorded'[t] = Recorded[t]
      BY <1>5, <2>1, OthersStay DEF Recorded
    <2>3. \A d \in Click : d # c /\ clickPc[d] = "struck" => clickRow[d] # clickRow[c]
      BY <2>1, LockedRowsDiffer DEF ClickLocked
    <2>4. Recorded'[clickRow[c]] = 0
      BY <1>5, <1>2, <2>1, <2>3, OthersStay DEF Recorded
    <2>5. QED
      BY <1>1, <1>2, <2>1, <2>2, <2>4 DEF TypeOK
  <1>6. ASSUME Crash
        PROVE  \A t \in Timer : attacks'[t] = unsaved'[t] + Recorded'[t]
    <2>1. ASSUME NEW t \in Timer
          PROVE  attacks'[t] = unsaved'[t] + Recorded'[t]
      <3>1. CASE \E c \in Click : clickPc[c] = "struck" /\ clickRow[c] = t
        <4>1. status[t] = "pending"
          BY <3>1 DEF AttackOnOpenWindow, ClickLocked
        <4>2. Recorded[t] = 1 /\ Recorded'[t] = 0
          BY <1>6, <3>1, <4>1 DEF Recorded, Crash, rows
        <4>3. QED
          BY <1>1, <1>6, <3>1, <4>2 DEF Crash
      <3>2. CASE ~ \E c \in Click : clickPc[c] = "struck" /\ clickRow[c] = t
        <4>1. Recorded'[t] = Recorded[t]
          BY <1>6, <3>2 DEF Recorded, Crash, rows
        <4>2. QED
          BY <1>1, <1>6, <3>2, <4>1 DEF Crash
      <3>3. QED
        BY <3>1, <3>2
    <2>2. QED
      BY <2>1
  <1>7. ASSUME NEW c \in Click, ClickMark(c)
        PROVE  \A t \in Timer : Recorded'[t] = Recorded[t]
    <2>1. /\ clickPc[c] \in ClickLocked /\ clickPc[c] = "struck"
          /\ clickRow'[c] = clickRow[c]
          /\ status' = [status EXCEPT ![clickRow[c]] = "consumed"]
          /\ clickPc'[c] # "struck"
      BY <1>7 DEF ClickMark, ClickGoto, ClickLocked, TypeOK
    <2>2. Recorded'[clickRow[c]] = 1 /\ Recorded[clickRow[c]] = 1
      BY <1>2, <2>1 DEF Recorded, TypeOK
    <2>3. \A t \in Timer : t # clickRow[c] => Recorded'[t] = Recorded[t]
      BY <1>7, <2>1, OthersStay DEF Recorded, TypeOK
    <2>4. QED
      BY <2>2, <2>3
  <1>8. ASSUME \A t \in Timer : status'[t] = "consumed" <=> status[t] = "consumed",
               \A d \in Click : /\ clickPc'[d] = "struck" <=> clickPc[d] = "struck"
                                /\ clickPc[d] = "struck" => clickRow'[d] = clickRow[d]
        PROVE  \A t \in Timer : Recorded'[t] = Recorded[t]
    BY <1>8 DEF Recorded
  <1>9. \/ \A t \in Timer : status'[t] = "consumed" <=> status[t] = "consumed"
        \/ \E c \in Click : ClickMark(c)
    <2>1. \A ch \in Channel : DriveInsert(ch) =>
             \A t \in Timer : status'[t] = "consumed" <=> status[t] = "consumed"
      BY DEF DriveInsert, TypeOK
    <2>2. \A c \in Click : ClickLate(c) =>
             \A t \in Timer : status'[t] = "consumed" <=> status[t] = "consumed"
      BY DEF ClickLate, MarkExpired, TypeOK
    <2>3. SweepMark =>
             \A t \in Timer : status'[t] = "consumed" <=> status[t] = "consumed"
      BY DEF SweepMark, MarkExpired, TypeOK
    <2>4. QED
      BY <2>1, <2>2, <2>3, RowFrame
  <1>10. \/ \A t \in Timer : attacks'[t] = unsaved'[t] + Recorded'[t]
         \/ \A t \in Timer : Recorded'[t] = Recorded[t]
    BY <1>3, <1>5, <1>6, <1>7, <1>8, <1>9, StruckFrame
  <1>11. \A c \in Click : ClickMark(c) => UNCHANGED <<attacks, unsaved>>
    BY DEF ClickMark, history
  <1>12. \A t \in Timer : attacks'[t] = unsaved'[t] + Recorded'[t]
    BY <1>1, <1>3, <1>4, <1>5, <1>6, <1>10, AttackFrame
  <1>13. QED
    BY <1>12 DEF AttacksAccounted, Recorded
-----------------------------------------------------------------------------
\* A message that is gone stays gone, and no record of a skipped deletion is
\* lost.
LEMMA GoneStaysGone ==
  ASSUME TypeOK, RefInv, [Next]_vars, NEW t \in Timer
  PROVE  /\ posted[t] = "gone" => posted'[t] = "gone"
         /\ abandoned[t] => abandoned'[t] = TRUE
  <1>1. ASSUME NEW ch \in Channel, DriveStep(ch)
        PROVE  /\ posted[t] = "gone" => posted'[t] = "gone"
               /\ UNCHANGED abandoned
    <2>1. CASE UNCHANGED posted
      BY <1>1, <2>1, DriveFrame
    <2>2. CASE /\ drivePc[ch] = "inserted"
               /\ posted' = [posted EXCEPT ![driveRow[ch]] = "live"]
      <3>1. posted[driveRow[ch]] = "none"
        BY <2>2 DEF RefInv
      <3>2. QED
        BY <1>1, <2>2, <3>1, DriveFrame DEF TypeOK
    <2>3. QED
      BY <1>1, <2>1, <2>2
         DEF DriveStep, DriveStart, DriveNoWindow, DriveMiss, DriveCheckFails,
             DriveInsert, DriveSend, DriveBackfill, DriveSurfaceFails,
             DriveAdvance, RoundPasses
  <1>2. ASSUME NEW c \in Click, ClickDelete(c)
        PROVE  /\ posted[t] = "gone" => posted'[t] = "gone"
               /\ abandoned[t] => abandoned'[t] = TRUE
    <2>1. clickRow[c] \in Timer /\ clickRef[c] \in BOOLEAN
      BY <1>2, ClickRowExists DEF ClickDelete, TypeOK
    <2>2. QED
      BY <1>2, <2>1, DeleteMessageEffect DEF ClickDelete, TypeOK
  <1>3. ASSUME SweepDelete
        PROVE  /\ posted[t] = "gone" => posted'[t] = "gone"
               /\ abandoned[t] => abandoned'[t] = TRUE
    <2> DEFINE ref == sweepRow \in sweepRefs
    <2>1. sweepRow \in Timer
      BY <1>3, SweepRowExists DEF SweepDelete
    <2>2. ref \in BOOLEAN /\ DeleteMessage(sweepRow, ref)
      BY <1>3 DEF SweepDelete
    <2> HIDE DEF ref
    <2>3. QED
      BY <2>1, <2>2, DeleteMessageEffect DEF TypeOK
  <1>4. CASE Crash
    BY <1>4 DEF Crash, TypeOK
  <1>5. CASE UNCHANGED <<posted, abandoned>>
    BY <1>5 DEF TypeOK
  <1>6. \/ UNCHANGED <<posted, abandoned>>
        \/ \E ch \in Channel : DriveStep(ch)
        \/ \E c \in Click : ClickDelete(c)
        \/ SweepDelete
        \/ Crash
    BY DEF Next, ClickArrive, ClickResolved, ClickLate, ClickOpen, ClickStep,
           ClickReadRound, ClickStrike, ClickStrikeFails, ClickMark,
           ClickMarkFails, SweepStep, SweepList, SweepPick, SweepMark,
           SweepMarkFails, SweepSleep, Deadline, history, vars
  <1>7. QED
    BY <1>1, <1>2, <1>3, <1>4, <1>5, <1>6 DEF TypeOK

\* A deletion that is owed is carried out or its failure is recorded.
LEMMA DeletionKept ==
  ASSUME TypeOK, RefInv, [Next]_vars, NEW t \in Timer, DeletionOwed(t)
  PROVE  DeletionOwed(t)' \/ abandoned'[t] = TRUE \/ posted'[t] = "gone"
  <1>1. CASE UNCHANGED <<click, sweep>>
    BY <1>1 DEF DeletionOwed, click, sweep
  <1>2. ASSUME NEW ch \in Channel, DriveStep(ch)
        PROVE  UNCHANGED <<click, sweep>>
    BY <1>2, DriveFrame
  <1>3. ASSUME NEW c \in Click, ClickDelete(c)
        PROVE  DeletionOwed(t)' \/ abandoned'[t] = TRUE \/ posted'[t] = "gone"
    <2>1. CASE clickRow[c] = t
      <3>1. clickRef[c] \in BOOLEAN
        BY DEF TypeOK
      <3>2. posted'[t] = "gone" \/ abandoned'[t]
        BY <1>3, <2>1, <3>1, DeleteMessageEffect DEF ClickDelete
      <3>3. abandoned' \in [Timer -> BOOLEAN]
        BY <1>3, <2>1, <3>1, DeleteMessageEffect DEF ClickDelete
      <3>4. QED
        BY <3>2, <3>3
    <2>2. CASE clickRow[c] # t
      <3>1. \A d \in Click : clickRow[d] = t =>
               clickPc'[d] = clickPc[d] /\ clickRow'[d] = clickRow[d]
        BY <1>3, <2>2 DEF ClickDelete, ClickEnd, TypeOK
      <3>2. UNCHANGED <<sweepPc, sweepRow>>
        BY <1>3 DEF ClickDelete, sweep
      <3>3. QED
        BY <3>1, <3>2 DEF DeletionOwed
    <2>3. QED
      BY <2>1, <2>2
  <1>4. ASSUME NEW c \in Click, \/ \E u \in Timer : ClickArrive(c, u)
                                \/ ClickResolved(c)
                                \/ ClickLate(c)
                                \/ ClickOpen(c)
                                \/ ClickStep(c) /\ ~ ClickDelete(c)
        PROVE  DeletionOwed(t)'
    <2>1. \A d \in Click : clickPc[d] = "deleting" =>
             clickPc'[d] = "deleting" /\ clickRow'[d] = clickRow[d]
      BY <1>4
         DEF ClickArrive, ClickResolved, ClickLate, ClickOpen, ClickStep,
             ClickReadRound, ClickStrike, ClickStrikeFails, ClickMark,
             ClickMarkFails, ClickGoto, ClickEnd, TypeOK
    <2>2. UNCHANGED <<sweepPc, sweepRow>>
      BY <1>4
         DEF ClickArrive, ClickResolved, ClickLate, ClickOpen, ClickStep,
             ClickReadRound, ClickStrike, ClickStrikeFails, ClickMark,
             ClickMarkFails, sweep
    <2>3. QED
      BY <2>1, <2>2 DEF DeletionOwed
  <1>5. ASSUME SweepDelete
        PROVE  DeletionOwed(t)' \/ abandoned'[t] = TRUE \/ posted'[t] = "gone"
    <2> DEFINE ref == sweepRow \in sweepRefs
    <2>1. sweepRow \in Timer
      BY <1>5, SweepRowExists DEF SweepDelete
    <2>2. ref \in BOOLEAN /\ DeleteMessage(sweepRow, ref) /\ UNCHANGED click
      BY <1>5 DEF SweepDelete
    <2> HIDE DEF ref
    <2>3. /\ posted'[sweepRow] = "gone" \/ abandoned'[sweepRow]
          /\ abandoned' \in [Timer -> BOOLEAN]
      BY <2>1, <2>2, DeleteMessageEffect
    <2>4. CASE sweepRow = t
      BY <2>3, <2>4
    <2>5. CASE sweepRow # t
      BY <2>2, <2>5 DEF DeletionOwed, click
    <2>6. QED
      BY <2>4, <2>5
  <1>6. ASSUME \/ SweepStep /\ ~ SweepDelete
               \/ SweepMark
        PROVE  DeletionOwed(t)'
    <2>1. UNCHANGED click /\ sweepPc # "marked"
      BY <1>6 DEF SweepStep, SweepList, SweepPick, SweepMark, SweepMarkFails,
                  SweepSleep
    <2>2. QED
      BY <2>1 DEF DeletionOwed, click
  <1>7. CASE Crash
    BY <1>7 DEF Crash
  <1>8. CASE \E u \in Timer : Deadline(u)
    BY <1>1, <1>8 DEF Deadline
  <1>9. UNCHANGED vars => UNCHANGED <<click, sweep>>
    BY DEF vars
  <1>10. QED
    BY <1>1, <1>2, <1>3, <1>4, <1>5, <1>6, <1>7, <1>8, <1>9 DEF Next, ClickStep

\* No step resolves a row and forgets its message.
LEMMA NextNoneForgotten ==
  ASSUME TypeOK, RefInv, NoneForgotten, [Next]_vars
  PROVE  NoneForgotten'
  <1>1. SUFFICES ASSUME NEW t \in Timer,
                        status'[t] \in {"consumed", "expired"},
                        posted'[t] # "gone"
                 PROVE  DeletionOwed(t)' \/ abandoned'[t] = TRUE
    BY DEF NoneForgotten
  <1>2. CASE status[t] \in {"consumed", "expired"}
    BY <1>1, <1>2, GoneStaysGone, DeletionKept DEF NoneForgotten
  <1>3. CASE status[t] \notin {"consumed", "expired"}
    <2>1. ASSUME NEW ch \in Channel, DriveInsert(ch)
          PROVE  FALSE
      BY <1>1, <1>3, <2>1 DEF DriveInsert, TypeOK
    <2>2. ASSUME NEW c \in Click, ClickLate(c) \/ ClickMark(c)
          PROVE  DeletionOwed(t)'
      <3>1. clickRow[c] = t
        BY <1>1, <1>3, <2>2 DEF ClickLate, ClickMark, MarkExpired, TypeOK
      <3>2. clickPc'[c] = "deleting" /\ clickRow'[c] = clickRow[c]
        BY <2>2 DEF ClickLate, ClickMark, ClickGoto, TypeOK
      <3>3. QED
        BY <3>1, <3>2 DEF DeletionOwed
    <2>3. CASE SweepMark
      BY <1>1, <1>3, <2>3 DEF SweepMark, MarkExpired, DeletionOwed, TypeOK
    <2>4. CASE UNCHANGED <<status, owner, usedRound>>
      BY <1>1, <1>3, <2>4
    <2>5. QED
      BY <2>1, <2>2, <2>3, <2>4, RowFrame
  <1>4. QED
    BY <1>2, <1>3
-----------------------------------------------------------------------------
\* The invariant holds initially ...
LEMMA InitIInv == Init => IInv
  <1> SUFFICES ASSUME Init PROVE IInv
    OBVIOUS
  <1>1. TypeOK
    BY InitTypeOK
  <1>2. RefInv /\ LockInv /\ OneOpenWindow /\ NoneForgotten
    BY DEF Init, RefInv, LockInv, OneOpenWindow, NoneForgotten, ClickLocked
  <1>3. AttackOnOpenWindow /\ OfferStillValid /\ AttacksAccounted
    BY DEF Init, AttackOnOpenWindow, OfferStillValid, AttacksAccounted,
           ClickLocked
  <1>4. QED
    BY <1>1, <1>2, <1>3 DEF IInv

\* ... and every step preserves it.
LEMMA NextIInv == IInv /\ [Next]_vars => IInv'
  BY NextTypeOK, NextRefInv, NextLockInv, NextAttackOnOpenWindow,
     NextOfferStillValid, NextOneOpenWindow, NextAttacksAccounted,
     NextNoneForgotten DEF IInv

\* The invariant of the Riposte tasks: references, lock ownership and the
\* safety properties, all at once.
THEOREM RiposteInvariant == Spec => []IInv
  BY InitIInv, NextIInv, PTL DEF Spec

\* Every variable keeps its type, whatever the number of rows and clicks.
THEOREM RiposteTypeOK == Spec => []TypeOK
  <1>1. IInv => TypeOK
    BY DEF IInv
  <1>2. QED
    BY <1>1, RiposteInvariant, PTL

\* From the re-read under the lock to the write, a click's row is pending:
\* handle_riposte_click and the sweeper never resolve it twice.
THEOREM RiposteAttackOnOpenWindow == Spec => []AttackOnOpenWindow
  <1>1. IInv => AttackOnOpenWindow
    BY DEF IInv
  <1>2. QED
    BY <1>1, RiposteInvariant, PTL

\* What check_riposte_eligibility found still holds when
\* surface_riposte_button inserts the row.
THEOREM RiposteOfferStillValid == Spec => []OfferStillValid
  <1>1. IInv => OfferStillValid
    BY DEF IInv
  <1>2. QED
    BY <1>1, RiposteInvariant, PTL

\* No character ever has two pending rows.
THEOREM RiposteOneOpenWindow == Spec => []OneOpenWindow
  <1>1. IInv => OneOpenWindow
    BY DEF IInv
  <1>2. QED
    BY <1>1, RiposteInvariant, PTL

\* A row's counter-attacks are those recorded or in hand, and those whose
\* outcome a failure or a crash kept from being recorded.
THEOREM RiposteAttacksAccounted == Spec => []AttacksAccounted
  <1>1. IInv => AttacksAccounted
    BY DEF IInv
  <1>2. QED
    BY <1>1, RiposteInvariant, PTL

\* A button left on a resolved row is about to be deleted, or its deletion was
\* skipped or refused.
THEOREM RiposteOrphansExplained == Spec => []OrphansExplained
  <1>1. IInv => OrphansExplained
    BY DEF IInv, NoneForgotten, OrphansExplained
  <1>2. QED
    BY <1>1, RiposteInvariant, PTL

-----------------------------------------------------------------------------
\* The refinement: initial states map to initial states ...
LEMMA InitRefines == Init => RW!Init
  <1>1. ASSUME Init
        PROVE  \A t \in Timer : status[t] = "absent" /\ attacks[t] = 0
    BY <1>1 DEF Init
  <1>2. ASSUME Init
        PROVE  owner = [t \in Timer |-> RW!NoPC]
    BY <1>2 DEF Init, RW!NoPC, NoPC
  <1>3. ASSUME Init
        PROVE  [t \in Timer |-> attacks[t] > 0] = [t \in Timer |-> FALSE]
    <2>1. \A t \in Timer : (attacks[t] > 0) = FALSE
      BY <1>1, <1>3
    <2>2. QED
      BY <2>1, Zenon
  <1>4. ASSUME Init
        PROVE  [t \in Timer |-> CASE status[t] = "absent" -> "none"
                                   [] status[t] = "pending" -> "open"
                                   [] OTHER -> status[t]]
                  = [t \in Timer |-> "none"]
    BY <1>1, <1>4
  <1>5. QED
    BY <1>2, <1>3, <1>4, Zenon DEF RW!Init

\* ... and every step is a step of the abstract window or a stutter.
LEMMA NextRefines ==
  ASSUME IInv, [Next]_vars
  PROVE  [RW!Next]_(RW!vars)
  <1> DEFINE window == [t \in Timer |-> CASE status[t] = "absent" -> "none"
                                          [] status[t] = "pending" -> "open"
                                          [] OTHER -> status[t]]
             struck == [t \in Timer |-> attacks[t] > 0]
  <1>1. /\ TypeOK /\ RefInv /\ AttackOnOpenWindow
        /\ OfferStillValid /\ AttacksAccounted
    BY DEF IInv
  <1>2. ASSUME NEW c \in Click, clickPc[c] \in ClickLocked
        PROVE  clickRow[c] \in Timer /\ window[clickRow[c]] = "open"
    BY <1>1, <1>2, ClickRowExists DEF AttackOnOpenWindow, ClickLocked
  <1>3. ASSUME NEW t \in Timer, MarkExpired(t), UNCHANGED <<owner, attacks>>
        PROVE  [RW!Next]_(RW!vars)
    <2>1. CASE status[t] = "pending"
      <3>1. window[t] = "open" /\ window' = [window EXCEPT ![t] = "expired"]
        BY <1>1, <1>3, <2>1 DEF MarkExpired, TypeOK
      <3>2. RW!Expire(t)
        BY <1>3, <3>1 DEF RW!Expire
      <3>3. QED
        BY <3>2 DEF RW!Next
    <2>2. CASE status[t] # "pending"
      <3>1. status' = status
        BY <1>1, <1>3, <2>2 DEF MarkExpired, TypeOK
      <3>2. QED
        BY <1>3, <3>1 DEF RW!vars
    <2>3. QED
      BY <2>1, <2>2
  <1>4. ASSUME NEW ch \in Channel, DriveInsert(ch)
        PROVE  [RW!Next]_(RW!vars)
    <2>1. PICK t \in Timer : /\ status[t] = "absent"
                             /\ status' = [status EXCEPT ![t] = "pending"]
                             /\ owner' = [owner EXCEPT ![t] = driveWho[ch]]
      BY <1>4 DEF DriveInsert
    <2>2. /\ drivePc[ch] = "checked" /\ driveWho[ch] \in PC
          /\ UNCHANGED attacks
      BY <1>1, <1>4 DEF DriveInsert, RefInv, history
    <2>3. \A u \in Timer : window[u] = "open" => owner[u] # driveWho[ch]
      BY <1>1, <2>2 DEF OfferStillValid, MayRiposte, TypeOK, Statuses
    <2>4. window[t] = "none" /\ window' = [window EXCEPT ![t] = "open"]
      BY <1>1, <2>1 DEF TypeOK
    <2>5. PICK p \in PC : p = driveWho[ch]
      BY <2>2
    <2>6. RW!Open(t, p)
      BY <2>1, <2>2, <2>3, <2>4, <2>5 DEF RW!Open
    <2>7. QED
      BY <2>6 DEF RW!Next
  <1>5. ASSUME NEW c \in Click, clickPc[c] \in ClickLocked, Strikes(clickRow[c]),
               UNCHANGED <<status, owner>>
        PROVE  [RW!Next]_(RW!vars)
    <2>1. PICK t \in Timer : t = clickRow[c] /\ window[t] = "open"
      BY <1>2, <1>5
    <2>2. attacks'[t] > 0 /\ \A u \in Timer : u # t => attacks'[u] = attacks[u]
      BY <1>1, <1>5, <2>1 DEF Strikes, TypeOK
    <2>3. struck' = [struck EXCEPT ![t] = TRUE]
      BY <2>1, <2>2
    <2>4. RW!Strike(t)
      BY <1>5, <2>1, <2>3 DEF RW!Strike
    <2>5. QED
      BY <2>4 DEF RW!Next
  <1>6. ASSUME NEW c \in Click, ClickMark(c)
        PROVE  [RW!Next]_(RW!vars)
    <2>1. /\ clickPc[c] \in ClickLocked /\ clickPc[c] = "struck"
          /\ UNCHANGED <<owner, attacks>>
          /\ status' = [status EXCEPT ![clickRow[c]] = "consumed"]
      BY <1>6 DEF ClickMark, ClickLocked, history
    <2>2. PICK t \in Timer : t = clickRow[c] /\ window[t] = "open"
      BY <1>2, <2>1
    <2>3. attacks[t] = unsaved[t] + 1 /\ unsaved[t] \in Nat
      BY <1>1, <2>1, <2>2 DEF AttacksAccounted, TypeOK
    <2>4. window' = [window EXCEPT ![t] = "consumed"]
      BY <1>1, <2>1, <2>2 DEF TypeOK
    <2>5. struck[t] /\ UNCHANGED struck
      <3>1. attacks[t] > 0
        BY <2>3
      <3>2. struck[t]
        BY <3>1, Zenon
      <3>3. QED
        BY <2>1, <3>2
    <2> HIDE DEF window, struck
    <2>6. RW!Consume(t)
      BY <2>1, <2>2, <2>4, <2>5 DEF RW!Consume, window, struck
    <2>7. QED
      BY <2>6 DEF RW!Next
  <1>7. CASE UNCHANGED <<status, owner, attacks>>
    BY <1>7 DEF RW!vars
  <1>8. ASSUME NEW c \in Click, ClickLate(c)
        PROVE  [RW!Next]_(RW!vars)
    <2>1. clickRow[c] \in Timer /\ UNCHANGED <<owner, attacks>>
      BY <1>1, <1>8, ClickRowExists DEF ClickLate, history
    <2>2. MarkExpired(clickRow[c]) \/ UNCHANGED status
      BY <1>8 DEF ClickLate
    <2>3. QED
      BY <1>3, <1>7, <2>1, <2>2
  <1>9. CASE SweepMark
    <2>1. /\ sweepRow \in Timer /\ UNCHANGED <<owner, attacks>>
          /\ MarkExpired(sweepRow)
      BY <1>1, <1>9, SweepRowExists DEF SweepMark, history
    <2>2. QED
      BY <1>3, <2>1
  <1>10. ASSUME NEW c \in Click, ClickStrike(c) \/ ClickStrikeFails(c)
         PROVE  [RW!Next]_(RW!vars)
    <2>1. clickPc[c] \in ClickLocked /\ UNCHANGED <<status, owner>>
      BY <1>10 DEF ClickStrike, ClickStrikeFails, ClickLocked, rows
    <2>2. Strikes(clickRow[c]) \/ UNCHANGED attacks
      BY <1>10 DEF ClickStrike, ClickStrikeFails
    <2>3. QED
      BY <1>5, <1>7, <2>1, <2>2
  <1>11. ASSUME UNCHANGED <<status, owner, usedRound>>
         PROVE  [RW!Next]_(RW!vars)
    <2>1. \A c \in Click : ClickMarkFails(c) => UNCHANGED attacks
      BY DEF ClickMarkFails
    <2>2. Crash => UNCHANGED attacks
      BY DEF Crash
    <2>3. QED
      BY <1>7, <1>10, <1>11, <2>1, <2>2, AttackFrame
  <1>12. QED
    BY <1>4, <1>6, <1>8, <1>9, <1>11, RowFrame

\* The tasks implement the abstract window: at most one open per character,
\* attacked only while open, resolved once and for good.
THEOREM RiposteImplementsWindow == Spec => ImplementsWindow
  <1>1. IInv /\ [Next]_vars => [RW!Next]_(RW!vars)
    BY NextRefines
  <1>2. QED
    BY InitRefines, <1>1, RiposteInvariant, PTL
       DEF Spec, ImplementsWindow, RW!Spec
=============================================================================
