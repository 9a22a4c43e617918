-------------------------- MODULE CoalescerProofs --------------------------
(***************************************************************************)
(* Proofs about Coalescer.tla (bot/coalescer.py): no update is forgotten,  *)
(* and the coalescers implement Screen.tla, for any set of messages and    *)
(* any limits.                                                             *)
(*                                                                         *)
(* Neither result speaks of time or of the budget: what the line and the   *)
(* window do is only a delay.  The argument is about one message at a      *)
(* time, since a step of one leaves the slots of the others alone.         *)
(***************************************************************************)
EXTENDS Coalescer, SequenceTheorems, WellFoundedInduction, TLAPS

-----------------------------------------------------------------------------
(* The inductive invariant. *)

\* The part of TypeOK the argument needs.
SlotType ==
    /\ task \in [Message -> Phases]
    /\ pending \in [Message -> Nat]
    /\ hand \in [Message -> Nat]
    /\ dirty \in [Message -> BOOLEAN]
    /\ abandoned \in [Message -> BOOLEAN]
    /\ latest \in [Message -> Nat]
    /\ shown \in [Message -> Nat]
    /\ sealed \in [Message -> Nat]
    /\ lost \in [Message -> Nat]

\* Update v of m has been given, and nothing that ended so far is as recent.
Newer(v, m) ==
    /\ v > shown[m] /\ v > sealed[m] /\ v > lost[m]
    /\ v <= latest[m]

\* What the slot, the payload in hand and the phase of the task say of each
\* other.  A payload in the slot is younger than the one in hand, and whenever
\* the task can still come to wait, the event that wakes it is set.
SlotOf(m) ==
    /\ shown[m] <= latest[m] /\ sealed[m] <= latest[m] /\ lost[m] <= latest[m]
    /\ hand[m] # 0 <=> task[m] \in {"asking", "editing"}
    /\ hand[m] # 0 => Newer(hand[m], m)
    /\ pending[m] # 0 /\ task[m] # "off" =>
          Newer(pending[m], m) /\ pending[m] > hand[m]
    /\ pending[m] # 0 /\ task[m] \in {"waiting", "asking", "editing"} => dirty[m]
    /\ task[m] = "sleeping" => pending[m] # 0

\* NothingForgotten, of one message.
Kept(m) ==
    \/ latest[m] \in {shown[m], hand[m], sealed[m], lost[m]}
    \/ abandoned[m]
    \/ /\ pending[m] = latest[m]
       /\ task[m] # "off"
       /\ task[m] = "waiting" => dirty[m]

SlotInv == SlotType /\ \A m \in Message : SlotOf(m) /\ Kept(m)

slots == <<task, pending, hand, dirty, abandoned, latest, shown, sealed, lost>>

\* The slot of message n is as it was.
Untouched(n) ==
    /\ task'[n] = task[n] /\ pending'[n] = pending[n] /\ hand'[n] = hand[n]
    /\ dirty'[n] = dirty[n] /\ abandoned'[n] = abandoned[n]
    /\ latest'[n] = latest[n] /\ shown'[n] = shown[n]
    /\ sealed'[n] = sealed[n] /\ lost'[n] = lost[n]

-----------------------------------------------------------------------------
(* One message at a time. *)

\* What the invariant says of a message whose slot is untouched still holds.
LEMMA UntouchedSlot ==
    ASSUME NEW n \in Message, SlotOf(n), Kept(n), Untouched(n)
    PROVE  SlotOf(n)' /\ Kept(n)'
  BY DEF SlotOf, Kept, Untouched, Newer

\* Enough for the invariant: the types, the message that moved, the others.
LEMMA OneMoves ==
    ASSUME SlotInv, SlotType', NEW m \in Message, SlotOf(m)', Kept(m)',
           \A n \in Message \ {m} : Untouched(n)
    PROVE  SlotInv'
  <1>1. ASSUME NEW n \in Message PROVE SlotOf(n)' /\ Kept(n)'
    <2>1. CASE n = m
      BY <2>1
    <2>2. CASE n # m
      BY <2>2, UntouchedSlot DEF SlotInv
    <2> QED BY <2>1, <2>2
  <1> QED BY <1>1 DEF SlotInv

LEMMA UpdateSlot == ASSUME SlotInv, NEW m \in Message, Update(m) PROVE SlotInv'
  <1> USE DEF Update, Set, SlotInv, SlotType, Phases
  <1>1. SlotType'
    OBVIOUS
  <1>2. SlotOf(m)' /\ Kept(m)'
    BY DEF SlotOf, Kept, Newer
  <1>3. \A n \in Message \ {m} : Untouched(n)
    BY DEF Untouched
  <1> QED BY <1>1, <1>2, <1>3, OneMoves

LEMMA WakeSlot == ASSUME SlotInv, NEW m \in Message, Wake(m) PROVE SlotInv'
  <1> USE DEF Wake, Set, SlotInv, SlotType, Phases
  <1>1. SlotType'
    OBVIOUS
  <1>2. SlotOf(m)' /\ Kept(m)'
    BY DEF SlotOf, Kept, Newer
  <1>3. \A n \in Message \ {m} : Untouched(n)
    BY DEF Untouched
  <1> QED BY <1>1, <1>2, <1>3, OneMoves

LEMMA TakeSlot == ASSUME SlotInv, NEW m \in Message, Take(m) PROVE SlotInv'
  <1> USE DEF Take, Set, SlotInv, SlotType, Phases
  <1>1. SlotType'
    OBVIOUS
  <1>2. SlotOf(m)' /\ Kept(m)'
    BY DEF SlotOf, Kept, Newer
  <1>3. \A n \in Message \ {m} : Untouched(n)
    BY DEF Untouched
  <1> QED BY <1>1, <1>2, <1>3, OneMoves

LEMMA AcquireSlot == ASSUME SlotInv, NEW m \in Message, Acquire(m) PROVE SlotInv'
  <1> USE DEF Acquire, Set, SlotInv, SlotType, Phases
  <1>1. SlotType'
    OBVIOUS
  <1>2. SlotOf(m)' /\ Kept(m)'
    BY DEF SlotOf, Kept, Newer
  <1>3. \A n \in Message \ {m} : Untouched(n)
    BY DEF Untouched
  <1> QED BY <1>1, <1>2, <1>3, OneMoves

LEMMA EditedSlot == ASSUME SlotInv, NEW m \in Message, Edited(m) PROVE SlotInv'
  <1> USE DEF Edited, Set, SlotInv, SlotType, Phases
  <1>1. SlotType'
    OBVIOUS
  <1>2. SlotOf(m)' /\ Kept(m)'
    BY DEF SlotOf, Kept, Newer
  <1>3. \A n \in Message \ {m} : Untouched(n)
    BY DEF Untouched
  <1> QED BY <1>1, <1>2, <1>3, OneMoves

\* The three answers that are errors, whether the edit was made or not.
LEMMA ErrorSlot ==
    ASSUME SlotInv, NEW m \in Message,
           EditFails(m) \/ EditRefused(m) \/ EditRaises(m)
    PROVE  SlotInv'
  <1> USE DEF EditFails, EditRefused, EditRaises, EditError, Set, SlotInv,
              SlotType, Phases
  <1>1. SlotType'
    <2>1. shown' \in [Message -> Nat]
      OBVIOUS
    <2>2. CASE EditFails(m)
      BY <2>1, <2>2
    <2>3. CASE EditRefused(m)
      BY <2>1, <2>3
    <2>4. CASE EditRaises(m)
      BY <2>1, <2>4
    <2> QED BY <2>2, <2>3, <2>4
  <1>2. SlotOf(m)' /\ Kept(m)'
    BY DEF SlotOf, Kept, Newer
  <1>3. \A n \in Message \ {m} : Untouched(n)
    BY DEF Untouched
  <1> QED BY <1>1, <1>2, <1>3, OneMoves

LEMMA CloseSlot == ASSUME SlotInv, NEW m \in Message, Close(m) PROVE SlotInv'
  <1> USE DEF Close, Set, SlotInv, SlotType, Phases
  <1>1. SlotType'
    OBVIOUS
  <1>2. SlotOf(m)' /\ Kept(m)'
    BY DEF SlotOf, Kept, Newer
  <1>3. \A n \in Message \ {m} : Untouched(n)
    BY DEF Untouched
  <1> QED BY <1>1, <1>2, <1>3, OneMoves

\* Time, and steps of others, leave the slots alone.
LEMMA SlotFrame == SlotInv /\ UNCHANGED slots => SlotInv'
  BY DEF SlotInv, slots, SlotType, SlotOf, Kept, Newer

LEMMA SlotInit == Init => SlotInv
  BY DEF Init, SlotInv, SlotType, Phases, SlotOf, Kept, Newer

LEMMA SlotNext == SlotInv /\ [Next]_vars => SlotInv'
  <1> SUFFICES ASSUME SlotInv, [Next]_vars PROVE SlotInv'
    OBVIOUS
  <1>1. CASE \E m \in Message : Update(m) \/ Close(m) \/ RenderStep(m)
    <2>1. PICK m \in Message : Update(m) \/ Close(m) \/ RenderStep(m)
      BY <1>1
    <2> QED BY <2>1, UpdateSlot, CloseSlot, WakeSlot, TakeSlot, AcquireSlot,
               EditedSlot, ErrorSlot DEF RenderStep, EditEnds
  <1>2. CASE Tick
    BY <1>2, SlotFrame DEF Tick, slots
  <1>3. CASE UNCHANGED vars
    BY <1>3, SlotFrame DEF vars, slots
  <1> QED BY <1>1, <1>2, <1>3 DEF Next

THEOREM CoalescerSlot == Spec => []SlotInv
  BY SlotInit, SlotNext, PTL DEF Spec

\* The last update a message was given is on the screen, in hand, or in the slot
\* of a task that will be woken for it, unless an error, close() or the end of
\* the message took it (update(), _render_loop, close()).
THEOREM CoalescerNothingForgotten == Spec => []NothingForgotten
  <1>1. SlotInv => NothingForgotten
    BY DEF SlotInv, Kept, NothingForgotten
  <1> QED BY <1>1, CoalescerSlot, PTL

-----------------------------------------------------------------------------
(* Time, the line and the budget. *)

\* What the argument takes for granted of the constants.
Limits ==
    /\ RateLimit \in Nat /\ Limit \in Nat /\ Window \in Nat \ {0}
    /\ MaxErrors \in Nat

\* The edits that count lie in the window, the oldest first: acquire() appends and
\* _evict_stale takes from the left.
BudgetInv ==
    /\ budget \in Seq(0 .. Window - 1) /\ Len(budget) <= Limit
    /\ \A i, j \in 1 .. Len(budget) : i < j => budget[j] <= budget[i]

ClockInv ==
    /\ age \in [Message -> 0 .. RateLimit]
    /\ line \in Seq(Message)
    /\ errors \in 0 .. MaxErrors

\* A set of numbers that is not empty has a least element.
LEMMA LeastNumber ==
    ASSUME NEW S \in SUBSET Nat, S # {}
    PROVE  Min(S) \in S
  <1>1. PICK n \in S : \A m \in S : <<m, n>> \notin OpToRel(<, Nat)
    BY NatLessThanWellFounded, WFMin
  <1>2. ASSUME NEW m \in S PROVE n <= m
    <2>1. ~(m < n)
      BY <1>1 DEF OpToRel
    <2> QED BY <2>1
  <1>3. \E x \in S : \A y \in S : x =< y
    BY <1>2
  <1> QED BY <1>3 DEF Min

\* Who gives up waiting leaves a line of the others.
LEMMA LineWithout ==
    ASSUME NEW m, line \in Seq(Message)
    PROVE  RemoveFirst(line, m) \in Seq(Message)
  <1> DEFINE I == {i \in 1 .. Len(line) : line[i] = m}
  <1>1. CASE I = {}
    <2>1. RemoveFirst(line, m) = line
      BY <1>1 DEF RemoveFirst
    <2> QED BY <2>1
  <1>2. CASE I # {}
    <2> DEFINE k == Min(I)
    <2>1. RemoveFirst(line, m) = SubSeq(line, 1, k - 1) \o SubSeq(line, k + 1, Len(line))
      BY <1>2 DEF RemoveFirst, RemoveAt, SelectInSeq
    <2>2. k \in I
      <3>1. I \in SUBSET Nat
        OBVIOUS
      <3> HIDE DEF I
      <3> QED BY <1>2, <3>1, LeastNumber
    <2>3. k \in 1 .. Len(line) /\ Len(line) \in Nat
      BY <2>2
    <2> HIDE DEF k
    <2>4. SubSeq(line, 1, k - 1) \in Seq(Message)
      BY <2>3, SubSeqProperties
    <2>5. SubSeq(line, k + 1, Len(line)) \in Seq(Message)
      BY <2>3, SubSeqProperties
    <2> QED BY <2>1, <2>4, <2>5, ConcatProperties
  <1> QED BY <1>1, <1>2

\* Where two elements of a suffix, from n + 1 on, are in the whole.
LEMMA SuffixPlaces ==
    ASSUME NEW L \in Nat, NEW n \in Nat, n <= L,
           NEW i \in Nat, NEW j \in Nat, 1 <= i, i < j, j <= L - n
    PROVE  /\ i \in 1 .. L - (n + 1) + 1 /\ j \in 1 .. L - (n + 1) + 1
           /\ n + 1 + i - 1 \in 1 .. L /\ n + 1 + j - 1 \in 1 .. L
           /\ n + 1 + i - 1 <= n + 1 + j - 1
  OBVIOUS

\* Time passes: what is still in the window is a suffix of the budget, in order.
LEMMA BudgetTick == ASSUME Limits, BudgetInv, Tick PROVE BudgetInv'
  <1>0. Window \in Nat /\ Limit \in Nat /\ Len(budget) \in Nat
        /\ budget \in Seq(0 .. Window - 1)
    BY DEF Limits, BudgetInv
  <1> DEFINE Older == [i \in DOMAIN budget |-> budget[i] + 1]
  <1>1. PICK n \in 0 .. Len(budget) :
           /\ n < Len(budget) => Older[n + 1] < Window
           /\ budget' = SubSeq(Older, n + 1, Len(budget))
    BY DEF Tick
  <1>2. DOMAIN budget = 1 .. Len(budget)
    BY <1>0
  <1>3. ASSUME NEW i \in 1 .. Len(budget)
        PROVE  /\ Older[i] = budget[i] + 1 /\ budget[i] \in Nat
               /\ Older[i] \in Nat
    <2>1. budget[i] \in 0 .. Window - 1
      BY <1>0
    <2>2. budget[i] \in Nat /\ budget[i] + 1 \in Nat
      BY <1>0, <2>1
    <2>3. Older[i] = budget[i] + 1
      BY <1>2
    <2> QED BY <2>2, <2>3
  <1>4. ASSUME NEW i \in 1 .. Len(budget), NEW j \in 1 .. Len(budget), i <= j
        PROVE  Older[j] <= Older[i]
    <2>1. budget[j] <= budget[i]
      <3>1. CASE i < j
        BY <3>1 DEF BudgetInv
      <3>2. CASE i = j
        <4>1. budget[i] \in Nat
          BY <1>3
        <4> QED BY <3>2, <4>1
      <3>3. i < j \/ i = j
        BY <1>0, <1>4
      <3> QED BY <3>1, <3>2, <3>3
    <2>2. Older[i] = budget[i] + 1 /\ Older[j] = budget[j] + 1
          /\ budget[i] \in Nat /\ budget[j] \in Nat
      BY <1>3
    <2> HIDE DEF Older
    <2> QED BY <2>1, <2>2
  <1> HIDE DEF Older
  <1>5. ASSUME NEW i \in n + 1 .. Len(budget)
        PROVE  Older[i] \in 0 .. Window - 1
    <2>1. /\ i \in 1 .. Len(budget) /\ n + 1 \in 1 .. Len(budget) /\ n + 1 <= i
          /\ n < Len(budget)
      BY <1>0
    <2>2. Older[i] <= Older[n + 1] /\ Older[n + 1] < Window
      BY <1>1, <1>4, <2>1
    <2>3. Older[i] \in Nat /\ Older[n + 1] \in Nat
      BY <1>3, <2>1
    <2> QED BY <1>0, <2>2, <2>3
  <1>6. n + 1 \in Int /\ Len(budget) \in Int
    BY <1>0
  <1>7. /\ budget' \in Seq(0 .. Window - 1)
        /\ Len(budget') = IF n + 1 <= Len(budget) THEN Len(budget) - (n + 1) + 1 ELSE 0
        /\ \A i \in 1 .. Len(budget) - (n + 1) + 1 : budget'[i] = Older[n + 1 + i - 1]
    BY <1>1, <1>5, <1>6, SubSeqProperties
  <1>8. Len(budget') <= Limit
    <2>1. Len(budget) <= Limit
      BY DEF BudgetInv
    <2> QED BY <1>0, <1>7, <2>1
  <1>9. ASSUME NEW i \in 1 .. Len(budget'), NEW j \in 1 .. Len(budget'), i < j
        PROVE  budget'[j] <= budget'[i]
    <2>1. /\ i \in 1 .. Len(budget) - (n + 1) + 1 /\ j \in 1 .. Len(budget) - (n + 1) + 1
          /\ n + 1 + i - 1 \in 1 .. Len(budget) /\ n + 1 + j - 1 \in 1 .. Len(budget)
          /\ n + 1 + i - 1 <= n + 1 + j - 1
      <3>1. n \in Nat /\ n <= Len(budget) /\ Len(budget') = Len(budget) - n
        <4>1. Len(budget') = IF n + 1 <= Len(budget) THEN Len(budget) - (n + 1) + 1 ELSE 0
          BY <1>7
        <4> QED BY <1>0, <4>1
      <3>2. /\ i \in Nat /\ j \in Nat /\ 1 <= i /\ i < j /\ j <= Len(budget')
        BY <1>9, <3>1
      <3> QED BY <1>0, <3>1, <3>2, SuffixPlaces
    <2>2. budget'[i] = Older[n + 1 + i - 1] /\ budget'[j] = Older[n + 1 + j - 1]
      BY <1>7, <2>1
    <2>3. Older[n + 1 + j - 1] <= Older[n + 1 + i - 1]
      BY <1>4, <2>1
    <2> QED BY <2>2, <2>3
  <1> QED BY <1>7, <1>8, <1>9 DEF BudgetInv

\* An edit is made only while the window has room for it.
LEMMA BudgetAcquire ==
    ASSUME Limits, BudgetInv, NEW m \in Message, Acquire(m)
    PROVE  BudgetInv'
  <1>0. Window \in Nat \ {0} /\ Limit \in Nat /\ Len(budget) \in Nat
        /\ budget \in Seq(0 .. Window - 1)
    BY DEF Limits, BudgetInv
  <1>1. Len(budget) < Limit /\ budget' = Append(budget, 0)
    BY DEF Acquire
  <1>2. 0 \in 0 .. Window - 1
    BY <1>0
  <1>3. /\ budget' \in Seq(0 .. Window - 1) /\ Len(budget') = Len(budget) + 1
        /\ \A i \in 1 .. Len(budget) : budget'[i] = budget[i]
        /\ budget'[Len(budget) + 1] = 0
    BY <1>0, <1>1, <1>2, AppendProperties
  <1>4. ASSUME NEW i \in 1 .. Len(budget'), NEW j \in 1 .. Len(budget'), i < j
        PROVE  budget'[j] <= budget'[i]
    <2>1. i \in 1 .. Len(budget)
      BY <1>0, <1>3, <1>4
    <2>2. budget[i] \in 0 .. Window - 1
      BY <1>0, <2>1
    <2>3. CASE j = Len(budget) + 1
      BY <1>0, <1>3, <2>1, <2>2, <2>3
    <2>4. CASE j # Len(budget) + 1
      <3>1. j \in 1 .. Len(budget)
        BY <1>0, <1>3, <2>4
      <3>2. budget[j] <= budget[i]
        BY <1>4, <2>1, <3>1 DEF BudgetInv
      <3> QED BY <1>3, <2>1, <3>1, <3>2
    <2> QED BY <2>3, <2>4
  <1>5. Len(budget') <= Limit
    BY <1>0, <1>1, <1>3
  <1> QED BY <1>3, <1>4, <1>5 DEF BudgetInv

LEMMA ClockInit == ASSUME Limits, Init PROVE BudgetInv /\ ClockInv
  <1>1. RateLimit \in 0 .. RateLimit /\ 0 \in 0 .. MaxErrors /\ 0 <= Limit
    BY DEF Limits
  <1>2. budget = <<>> /\ line = <<>> /\ errors = 0 /\ age = [m \in Message |-> RateLimit]
    BY DEF Init
  <1>3. budget \in Seq(0 .. Window - 1) /\ line \in Seq(Message) /\ Len(budget) = 0
    BY <1>2
  <1> QED BY <1>1, <1>2, <1>3 DEF BudgetInv, ClockInv

LEMMA BudgetFrame == BudgetInv /\ UNCHANGED budget => BudgetInv'
  BY DEF BudgetInv

LEMMA BudgetNext == Limits /\ BudgetInv /\ [Next]_vars => BudgetInv'
  <1> SUFFICES ASSUME Limits, BudgetInv, [Next]_vars PROVE BudgetInv'
    OBVIOUS
  <1>1. CASE Tick
    BY <1>1, BudgetTick
  <1>2. CASE \E m \in Message : Acquire(m)
    BY <1>2, BudgetAcquire
  <1>3. CASE \E m \in Message : Update(m) \/ Close(m) \/ Wake(m) \/ Take(m) \/ EditEnds(m)
    <2>1. UNCHANGED budget
      BY <1>3 DEF Update, Close, Wake, Take, EditEnds, Edited, EditFails, EditRefused,
                  EditRaises, EditError, channelVars
    <2> QED BY <2>1, BudgetFrame
  <1>4. CASE UNCHANGED vars
    BY <1>4, BudgetFrame DEF vars, channelVars
  <1> QED BY <1>1, <1>2, <1>3, <1>4 DEF Next, RenderStep

LEMMA ClockNext == Limits /\ ClockInv /\ [Next]_vars => ClockInv'
  <1> SUFFICES ASSUME Limits, ClockInv, [Next]_vars PROVE ClockInv'
    OBVIOUS
  <1>0. RateLimit \in Nat /\ MaxErrors \in Nat /\ errors \in 0 .. MaxErrors
        /\ line \in Seq(Message) /\ age \in [Message -> 0 .. RateLimit]
    BY DEF Limits, ClockInv
  <1>1. age' \in [Message -> 0 .. RateLimit]
    <2>1. CASE Tick
      <3>1. age' = [m \in Message |-> IF age[m] < RateLimit THEN age[m] + 1 ELSE age[m]]
        BY <2>1 DEF Tick
      <3>2. \A m \in Message :
               (IF age[m] < RateLimit THEN age[m] + 1 ELSE age[m]) \in 0 .. RateLimit
        BY <1>0
      <3> QED BY <3>1, <3>2
    <2>2. CASE \E m \in Message : Edited(m)
      <3>1. PICK m \in Message : age' = [age EXCEPT ![m] = 0]
        BY <2>2 DEF Edited, Set
      <3>2. 0 \in 0 .. RateLimit
        BY <1>0
      <3> QED BY <1>0, <3>1, <3>2
    <2>3. CASE UNCHANGED age
      BY <1>0, <2>3
    <2> QED BY <2>1, <2>2, <2>3
            DEF Next, vars, RenderStep, EditEnds, Update, Close, Wake, Take, Acquire,
                EditFails, EditRefused, EditRaises, EditError
  <1>2. line' \in Seq(Message)
    <2>1. CASE \E m \in Message : Take(m)
      <3>1. PICK m \in Message : line' = Append(line, m)
        BY <2>1 DEF Take
      <3> QED BY <1>0, <3>1, AppendProperties
    <2>2. CASE \E m \in Message : Acquire(m)
      <3>1. line # <<>> /\ line' = Tail(line)
        BY <2>2 DEF Acquire
      <3> QED BY <1>0, <3>1, HeadTailProperties
    <2>3. CASE \E m \in Message : Close(m)
      <3>1. PICK m \in Message : line' = RemoveFirst(line, m)
        BY <2>3 DEF Close
      <3> QED BY <1>0, <3>1, LineWithout
    <2>4. CASE UNCHANGED line
      BY <1>0, <2>4
    <2> QED BY <2>1, <2>2, <2>3, <2>4
            DEF Next, vars, channelVars, RenderStep, EditEnds, Update, Wake, Edited,
                EditFails, EditRefused, EditRaises, EditError, Tick
  <1>3. errors' \in 0 .. MaxErrors
    <2>1. \/ errors' = errors
          \/ errors < MaxErrors /\ errors' = errors + 1
      BY DEF Next, vars, RenderStep, EditEnds, Update, Close, Wake, Take, Acquire, Edited,
             EditFails, EditRefused, EditRaises, EditError, Tick
    <2> QED BY <1>0, <2>1
  <1> QED BY <1>1, <1>2, <1>3 DEF ClockInv

\* What the coalescers keep, the edits they may make and the line for them are of
\* their types; above all, no window has more than Limit edits.
LEMMA CoalescerTypes == SlotInv /\ BudgetInv /\ ClockInv => TypeOK
  BY DEF SlotInv, SlotType, BudgetInv, ClockInv, TypeOK

-----------------------------------------------------------------------------
(* The refinement of Screen. *)

\* A payload in hand is a fresh one.
LEMMA HandIsFresh ==
    ASSUME SlotInv, NEW m \in Message, hand[m] # 0
    PROVE  hand[m] \in SC!Fresh(m)
  BY DEF SlotInv, SlotType, SlotOf, Newer, SC!Fresh

\* An edit that may have been made shows the payload in hand, or nothing new.
LEMMA ShownStep ==
    ASSUME SlotInv, NEW m \in Message, task[m] = "editing",
           shown' \in {shown, Set(shown, m, hand[m])}
    PROVE  \/ UNCHANGED shown
           \/ \E v \in SC!Fresh(m) : shown' = [shown EXCEPT ![m] = v]
  <1>1. hand[m] # 0
    BY DEF SlotInv, SlotOf
  <1> QED BY <1>1, HandIsFresh DEF Set

\* Every step of the coalescers is a step of Screen or leaves it unchanged.
LEMMA ScreenStep == SlotInv /\ [Next]_vars => [SC!Next]_SC!vars
  <1> SUFFICES ASSUME SlotInv, [Next]_vars PROVE [SC!Next]_SC!vars
    OBVIOUS
  <1>1. ASSUME NEW m \in Message, Update(m) PROVE SC!Give(m)
    BY <1>1 DEF Update, Set, SC!Give
  <1>2. ASSUME NEW m \in Message, Wake(m) \/ Take(m) \/ Acquire(m)
        PROVE  UNCHANGED SC!vars
    BY <1>2 DEF Wake, Take, Acquire, SC!vars
  <1>3. ASSUME NEW m \in Message, EditEnds(m)
        PROVE  SC!Show(m) \/ UNCHANGED SC!vars
    <2>1. UNCHANGED <<latest, sealed>> /\ task[m] = "editing"
          /\ shown' \in {shown, Set(shown, m, hand[m])}
      BY <1>3 DEF EditEnds, Edited, EditFails, EditRefused, EditRaises, EditError
    <2> QED BY <2>1, ShownStep DEF SC!Show, SC!vars
  <1>4. ASSUME NEW m \in Message, Close(m) PROVE SC!Close(m)
    <2>1. /\ sealed' = [sealed EXCEPT ![m] = latest[m]]
          /\ UNCHANGED latest
          /\ \/ UNCHANGED shown
             \/ task[m] = "editing" /\ shown' = Set(shown, m, hand[m])
      BY <1>4 DEF Close, Set
    <2>2. \/ UNCHANGED shown
          \/ \E v \in SC!Fresh(m) : shown' = [shown EXCEPT ![m] = v]
      BY <2>1, ShownStep
    <2> QED BY <2>1, <2>2 DEF SC!Close
  <1>5. Tick \/ UNCHANGED vars => UNCHANGED SC!vars
    BY DEF Tick, vars, SC!vars
  <1> QED BY <1>1, <1>2, <1>3, <1>4, <1>5 DEF Next, RenderStep, SC!Next

\* The coalescers implement Screen: a message never goes back to an older
\* update, and shows nothing of before close() after it.
THEOREM CoalescerImplementsScreen == Spec => ImplementsScreen
  <1>1. Init => SC!Init
    BY DEF Init, SC!Init
  <1> QED BY <1>1, ScreenStep, CoalescerSlot, PTL DEF Spec, ImplementsScreen, SC!Spec
=============================================================================
