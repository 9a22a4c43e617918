---------------------------- MODULE PartsProofs ----------------------------
(***************************************************************************)
(* Proofs about MCParts.tla: the parts that keep something for later,      *)
(* whatever the constants.  As in TableProofs, each part has an inductive  *)
(* invariant of its own, and every step of the whole is a step of one part *)
(* and leaves the variables of the others alone.                           *)
(***************************************************************************)
EXTENDS MCParts, WriterQueueProofs, Subsequence, FiniteSetTheorems,
        SequenceTheorems, WellFoundedInduction, TLAPS

-----------------------------------------------------------------------------
(* Subsequences.  SelectAt is a recursive function; what it returns is     *)
(* shown by induction over the positions, which is first order: the        *)
(* numbers are well founded, so a set of them that is not empty has a      *)
(* least element.                                                          *)

\* Induction over the numbers, for a set of them.
LEMMA Induction ==
    ASSUME NEW T, 0 \in T, \A n \in Nat : n \in T => n + 1 \in T
    PROVE  \A n \in Nat : n \in T
<1> SUFFICES ASSUME NEW k \in Nat \ T
             PROVE  FALSE
  OBVIOUS
<1>1. PICK n \in Nat \ T : \A m \in Nat \ T : <<m, n>> \notin OpToRel(<, Nat)
  BY NatLessThanWellFounded, WFMin
<1>2. n # 0 /\ n - 1 \in Nat
  OBVIOUS
<1>3. <<n - 1, n>> \in OpToRel(<, Nat)
  BY <1>2 DEF OpToRel
<1>4. n - 1 \in T  BY <1>1, <1>2, <1>3
<1>5. (n - 1) + 1 = n  BY <1>2
<1> QED  BY <1>2, <1>4, <1>5

\* f counts through s and keeps what is at a position of I.
SelectStep(f, s, I, n) ==
    IF n = 0 THEN <<>>
    ELSE IF n \in I THEN Append(f[n - 1], s[n]) ELSE f[n - 1]
Selects(f, s, I, k) == f = [n \in 0 .. k |-> SelectStep(f, s, I, n)]

\* There is such a function.
LEMMA SelectsExists ==
    ASSUME NEW s, NEW I
    PROVE  \A k \in Nat : \E f : Selects(f, s, I, k)
<1> DEFINE T == {k \in Nat : \E f : Selects(f, s, I, k)}
<1>1. 0 \in T
  <2> DEFINE g == [n \in 0 .. 0 |-> <<>>]
  <2>1. Selects(g, s, I, 0)  BY DEF Selects, SelectStep
  <2> QED  BY <2>1
<1>2. ASSUME NEW k \in Nat, k \in T
      PROVE  k + 1 \in T
  <2>1. PICK f : Selects(f, s, I, k)  BY <1>2
  <2> DEFINE g == [n \in 0 .. k + 1 |-> SelectStep(f, s, I, n)]
  <2>2. ASSUME NEW n \in 0 .. k
        PROVE  f[n] = SelectStep(f, s, I, n)
    BY <2>1 DEF Selects
  <2>3. ASSUME NEW n \in 0 .. k + 1
        PROVE  SelectStep(f, s, I, n) = SelectStep(g, s, I, n)
    <3>1. CASE n = 0  BY <3>1 DEF SelectStep
    <3>2. CASE n # 0
      <4>1. n - 1 \in 0 .. k /\ n - 1 \in 0 .. k + 1  BY <3>2
      <4>2. g[n - 1] = f[n - 1]  BY <4>1, <2>2
      <4> HIDE DEF g
      <4> QED  BY <4>2 DEF SelectStep
    <3> QED  BY <3>1, <3>2
  <2>4. Selects(g, s, I, k + 1)
    <3>1. g = [n \in 0 .. k + 1 |-> SelectStep(g, s, I, n)]
      <4>1. \A n \in 0 .. k + 1 : g[n] = SelectStep(g, s, I, n)  BY <2>3
      <4>2. g = [n \in 0 .. k + 1 |-> g[n]]  OBVIOUS
      <4> HIDE DEF g
      <4> QED  BY <4>1, <4>2
    <3> HIDE DEF g
    <3> QED  BY <3>1 DEF Selects
  <2> QED  BY <2>4
<1> HIDE DEF T
<1>3. \A k \in Nat : k \in T  BY <1>1, <1>2, Induction
<1> QED  BY <1>3 DEF T

LEMMA SelectAtSelects ==
    ASSUME NEW s, NEW I, Len(s) \in Nat
    PROVE  \E f : Selects(f, s, I, Len(s)) /\ SelectAt(s, I) = f[Len(s)]
<1> DEFINE g == CHOOSE f : Selects(f, s, I, Len(s))
<1>1. Selects(g, s, I, Len(s))  BY SelectsExists
<1>2. SelectAt(s, I) = g[Len(s)]  BY Zenon DEF SelectAt, Selects, SelectStep
<1> QED  BY <1>1, <1>2

\* The elements of t are those of s at the positions in I, as far as n.
Taken(t, s, I, n, pos) ==
    /\ pos \in [1 .. Len(t) -> (1 .. n) \cap I]
    /\ \A j \in 1 .. Len(t) : t[j] = s[pos[j]]
    /\ \A i, j \in 1 .. Len(t) : i < j => pos[i] < pos[j]
    /\ \A i \in (1 .. n) \cap I : \E j \in 1 .. Len(t) : pos[j] = i

IsTaken(t, S, s, I, n) ==
    /\ t \in Seq(S) /\ Len(t) <= n
    /\ (\E i \in 1 .. n : i \notin I) => Len(t) < n
    /\ \E pos : Taken(t, s, I, n, pos)

LEMMA TakeOne ==
    ASSUME NEW S, NEW s \in Seq(S), NEW I, NEW n \in 1 .. Len(s), NEW t,
           IsTaken(t, S, s, I, n - 1)
    PROVE  IsTaken(IF n \in I THEN Append(t, s[n]) ELSE t, S, s, I, n)
<1>1. /\ t \in Seq(S) /\ Len(t) \in Nat /\ Len(t) <= n - 1 /\ n \in Nat /\ n - 1 \in Nat
      /\ s[n] \in S
  BY DEF IsTaken
<1>2. PICK pos : Taken(t, s, I, n - 1, pos)  BY DEF IsTaken
<1>3. CASE n \in I
  <2> DEFINE u == Append(t, s[n])
             top == Len(t) + 1
             p == [j \in 1 .. top |-> IF j = top THEN n ELSE pos[j]]
  <2>1. /\ u \in Seq(S) /\ Len(u) = top /\ u[top] = s[n]
        /\ \A j \in 1 .. Len(t) : u[j] = t[j]
    BY <1>1
  <2>2. Len(u) <= n  BY <1>1, <2>1
  <2>3. ASSUME NEW i \in 1 .. n, i \notin I
        PROVE  Len(u) < n
    <3>1. i \in 1 .. n - 1  BY <1>1, <1>3, <2>3
    <3>2. Len(t) < n - 1  BY <3>1, <2>3 DEF IsTaken
    <3> QED  BY <3>2, <2>1, <1>1
  <2>4. /\ p[top] = n
        /\ \A j \in 1 .. Len(t) : j # top /\ p[j] = pos[j] /\ pos[j] \in (1 .. n - 1) \cap I
    BY <1>1, <1>2 DEF Taken
  <2> HIDE DEF u, p
  <2>5. \A j \in 1 .. top : j = top \/ j \in 1 .. Len(t)  BY <1>1
  <2>6. p \in [1 .. Len(u) -> (1 .. n) \cap I]
    <3>1. \A j \in 1 .. top : p[j] \in (1 .. n) \cap I
      <4>1. n \in (1 .. n) \cap I  BY <1>1, <1>3
      <4>2. (1 .. n - 1) \cap I \subseteq (1 .. n) \cap I  BY <1>1
      <4> QED  BY <4>1, <4>2, <2>4, <2>5
    <3> QED  BY <3>1, <2>1 DEF p
  <2>7. \A j \in 1 .. Len(u) : u[j] = s[p[j]]
    BY <2>1, <2>4, <2>5, <1>2 DEF Taken
  <2>8. \A i, j \in 1 .. Len(u) : i < j => p[i] < p[j]
    <3> SUFFICES ASSUME NEW i \in 1 .. top, NEW j \in 1 .. top, i < j
                 PROVE  p[i] < p[j]
      BY <2>1
    <3>1. i \in 1 .. Len(t)  BY <1>1
    <3>2. CASE j = top
      <4>1. pos[i] \in 1 .. n - 1 /\ p[i] = pos[i] /\ p[j] = n  BY <3>1, <3>2, <2>4
      <4> QED  BY <4>1, <1>1
    <3>3. CASE j # top
      <4>1. j \in 1 .. Len(t)  BY <3>3, <2>5
      <4>2. pos[i] < pos[j]  BY <3>1, <4>1, <1>2 DEF Taken
      <4> QED  BY <3>1, <4>1, <4>2, <2>4
    <3> QED  BY <3>2, <3>3
  <2>9. \A i \in (1 .. n) \cap I : \E j \in 1 .. Len(u) : p[j] = i
    <3> SUFFICES ASSUME NEW i \in (1 .. n) \cap I
                 PROVE  \E j \in 1 .. top : p[j] = i
      BY <2>1
    <3>1. CASE i = n
      <4>1. top \in 1 .. top  BY <1>1
      <4> QED  BY <3>1, <4>1, <2>4
    <3>2. CASE i # n
      <4>1. i \in (1 .. n - 1) \cap I  BY <3>2, <1>1
      <4>2. PICK j \in 1 .. Len(t) : pos[j] = i  BY <4>1, <1>2 DEF Taken
      <4>3. j \in 1 .. top  BY <1>1
      <4> QED  BY <4>2, <4>3, <2>4
    <3> QED  BY <3>1, <3>2
  <2>10. IsTaken(u, S, s, I, n)
    <3>1. Taken(u, s, I, n, p)  BY <2>6, <2>7, <2>8, <2>9 DEF Taken
    <3>2. u \in Seq(S)  BY <2>1
    <3> QED  BY <2>2, <2>3, <3>1, <3>2 DEF IsTaken
  <2> QED  BY <2>10, <1>3 DEF u
<1>4. CASE n \notin I
  <2>1. (1 .. n) \cap I = (1 .. n - 1) \cap I
    <3>1. \A i \in 1 .. n : i = n \/ i \in 1 .. n - 1  BY <1>1
    <3>2. 1 .. n - 1 \subseteq 1 .. n  BY <1>1
    <3> QED  BY <3>1, <3>2, <1>4
  <2>2. Taken(t, s, I, n, pos)  BY <1>2, <2>1 DEF Taken
  <2>3. Len(t) <= n /\ Len(t) < n  BY <1>1
  <2> QED  BY <1>1, <1>4, <2>2, <2>3 DEF IsTaken
<1> QED  BY <1>3, <1>4

\* What is left of a sequence when the entries at other positions are deleted: those
\* at the positions in I, each once, in their order (the OrderedDicts of MCPCache and
\* NarrCache).
THEOREM SelectAtTaken ==
    ASSUME NEW S, NEW s \in Seq(S), NEW I
    PROVE  IsTaken(SelectAt(s, I), S, s, I, Len(s))
<1>0. Len(s) \in Nat  OBVIOUS
<1>1. PICK f : Selects(f, s, I, Len(s)) /\ SelectAt(s, I) = f[Len(s)]
  BY <1>0, SelectAtSelects
<1>2. ASSUME NEW n \in 0 .. Len(s)
      PROVE  f[n] = SelectStep(f, s, I, n)
  BY <1>1 DEF Selects
<1> DEFINE T == {n \in Nat : n <= Len(s) => IsTaken(f[n], S, s, I, n)}
<1>3. 0 \in T
  <2>1. f[0] = <<>>  BY <1>0, <1>2 DEF SelectStep
  <2>2. Taken(<<>>, s, I, 0, [j \in 1 .. 0 |-> 0])
    BY DEF Taken
  <2>3. IsTaken(<<>>, S, s, I, 0)
    <3>1. <<>> \in Seq(S) /\ Len(<<>>) = 0  OBVIOUS
    <3>2. \A i \in 1 .. 0 : FALSE  OBVIOUS
    <3> QED  BY <2>2, <3>1, <3>2 DEF IsTaken
  <2> QED  BY <2>1, <2>3
<1>4. ASSUME NEW n \in Nat, n \in T
      PROVE  n + 1 \in T
  <2> SUFFICES ASSUME n + 1 <= Len(s)
               PROVE  IsTaken(f[n + 1], S, s, I, n + 1)
    OBVIOUS
  <2>1. IsTaken(f[n], S, s, I, n)  BY <1>0, <1>4
  <2>2. /\ n + 1 \in 1 .. Len(s) /\ n + 1 \in 0 .. Len(s) /\ n + 1 # 0
        /\ (n + 1) - 1 = n
    BY <1>0
  <2>3. f[n + 1] = IF n + 1 \in I THEN Append(f[n], s[n + 1]) ELSE f[n]
    BY <2>2, <1>2 DEF SelectStep
  <2>4. IsTaken(IF n + 1 \in I THEN Append(f[n], s[n + 1]) ELSE f[n], S, s, I, n + 1)
    BY <2>1, <2>2, TakeOne
  <2> QED  BY <2>3, <2>4
<1> HIDE DEF T
<1>5. Len(s) \in T  BY <1>0, <1>3, <1>4, Induction
<1> QED  BY <1>0, <1>1, <1>5 DEF T

-----------------------------------------------------------------------------
(* The flag of degraded mode: DegradedMode. *)

HeldInv ==
    /\ holds \in [DM!Rule -> BOOLEAN]
    /\ at \in 0 .. Len(Rules)
    /\ DM!ReasonIsHeld

LEMMA HeldStarts == PartsAssumption /\ DM!Init => HeldInv
<1> SUFFICES ASSUME PartsAssumption, DM!Init
             PROVE  HeldInv
  OBVIOUS
<1>1. Len(Rules) \in Nat  BY DEF PartsAssumption, DegradedConstants
<1>2. holds \in [DM!Rule -> BOOLEAN]  BY DEF DM!Init
<1>3. DM!ReasonIsHeld  BY DEF DM!Init, DM!ReasonIsHeld
<1>4. at = 0  BY DEF DM!Init
<1> QED  BY <1>1, <1>2, <1>3, <1>4 DEF HeldInv

\* A rule that trips is the reason and holds; whoever recovers leaves no reason.
LEMMA HeldJudge ==
    PartsAssumption /\ HeldInv /\ DM!Judge => HeldInv'
<1> SUFFICES ASSUME PartsAssumption, HeldInv, DM!Judge
             PROVE  HeldInv'
  OBVIOUS
<1> DEFINE n == Len(Rules)
<1>0. n \in Nat  BY DEF PartsAssumption, DegradedConstants
<1>1. at \in 1 .. n  BY <1>0 DEF HeldInv, DM!Judge
<1>2. PICK r : r = Rules[at]  OBVIOUS
<1>3. r \in DM!Rule  BY <1>1, <1>2 DEF DM!Rule
<1>4. at' \in 0 .. n
  <2>1. at' = (at + 1) % (n + 1)  BY DEF DM!Judge
  <2>2. (at + 1) % (n + 1) \in 0 .. n  BY <1>0, <1>1
  <2> QED  BY <2>1, <2>2
<1>5. DM!RuleTrips(r) \/ DM!RuleRecovers(r) \/ DM!RuleCounts(r)  BY <1>2 DEF DM!Judge
<1>6. holds' \in [DM!Rule -> BOOLEAN] /\ DM!ReasonIsHeld'
  <2>1. CASE DM!RuleTrips(r)
    BY <1>3, <2>1 DEF DM!RuleTrips, DM!Trip, HeldInv, DM!ReasonIsHeld
  <2>2. CASE DM!RuleRecovers(r)
    BY <1>3, <2>2 DEF DM!RuleRecovers, DM!Recover, HeldInv, DM!ReasonIsHeld
  <2>3. CASE DM!RuleCounts(r)
    BY <2>3 DEF DM!RuleCounts, DM!flag, HeldInv, DM!ReasonIsHeld
  <2> QED  BY <1>5, <2>1, <2>2, <2>3
<1> QED  BY <1>4, <1>6 DEF HeldInv

\* The replay trips for rules that hold from then on.
LEMMA HeldRestart ==
    PartsAssumption /\ HeldInv /\ DM!Restart => HeldInv'
<1> SUFFICES ASSUME PartsAssumption, NEW S \in SUBSET DM!Rule, DM!Boot(S)
             PROVE  HeldInv'
  BY DEF DM!Restart
<1>1. Len(Rules) \in Nat  BY DEF PartsAssumption, DegradedConstants
<1>2. at' = 0 /\ holds' = [r \in DM!Rule |-> r \in S]  BY DEF DM!Boot
<1>3. DM!ReasonIsHeld'
  <2>1. CASE over[day]
    BY <2>1 DEF DM!Boot, DM!Trip, DM!ReasonIsHeld
  <2>2. CASE ~over[day] /\ S # {}
    <3>1. PICK i \in 1 .. Len(Rules) : Rules[i] \in S /\ DM!Trip(Rules[i])
      BY <2>2 DEF DM!Boot
    <3> QED  BY <3>1, <1>2 DEF DM!Trip, DM!ReasonIsHeld
  <2>3. CASE ~over[day] /\ S = {}
    BY <2>3 DEF DM!Boot, DM!Recover, DM!ReasonIsHeld
  <2> QED  BY <2>1, <2>2, <2>3
<1> QED  BY <1>1, <1>2, <1>3 DEF HeldInv

LEMMA HeldNext ==
    PartsAssumption /\ HeldInv /\ [DM!Next]_DM!vars => HeldInv'
<1> SUFFICES ASSUME PartsAssumption, HeldInv, [DM!Next]_DM!vars
             PROVE  HeldInv'
  OBVIOUS
<1>1. CASE DM!Sample
  <2>1. at' \in {0, 1} /\ (Rules = <<>> => at' = 0)
    BY <1>1 DEF DM!Sample
  <2>2. Len(Rules) \in Nat /\ (Len(Rules) = 0 => Rules = <<>>)
    BY EmptySeq DEF PartsAssumption, DegradedConstants
  <2>3. at' \in 0 .. Len(Rules)  BY <2>1, <2>2
  <2>4. UNCHANGED <<active, reason, holds>>  BY <1>1 DEF DM!Sample, DM!flag
  <2> QED  BY <2>3, <2>4 DEF HeldInv, DM!ReasonIsHeld
<1>2. CASE DM!Judge  BY <1>2, HeldJudge
<1>3. CASE DM!BudgetLooks
  BY <1>3 DEF DM!BudgetLooks, DM!flag, DM!alertVars, HeldInv, DM!ReasonIsHeld
<1>4. CASE DM!BudgetRecovers
  BY <1>4 DEF DM!BudgetRecovers, DM!Recover, DM!alertVars, HeldInv, DM!ReasonIsHeld
<1>5. CASE DM!BudgetSums
  BY <1>5 DEF DM!BudgetSums, DM!Trip, DM!flag, DM!alertVars, HeldInv, DM!ReasonIsHeld
<1>6. CASE DM!Spend \/ DM!Midnight
  BY <1>6 DEF DM!Spend, DM!Midnight, DM!flag, DM!alertVars, HeldInv, DM!ReasonIsHeld
<1>7. CASE DM!Restart  BY <1>7, HeldRestart
<1>8. CASE UNCHANGED DM!vars
  BY <1>8 DEF DM!vars, DM!flag, DM!alertVars, HeldInv, DM!ReasonIsHeld
<1> QED  BY <1>1, <1>2, <1>3, <1>4, <1>5, <1>6, <1>7, <1>8 DEF DM!Next, DM!BudgetTick

-----------------------------------------------------------------------------
(* The memories of the monsters: MonsterMemory. *)

Absent == MM!Absent
Loads(t, m) == tasks[t].at \in {"loading", "loaded"} /\ tasks[t].mon = m
Flushes(t, m) == tasks[t].at = "flushing" /\ tasks[t].mon = m

MemoryType ==
    /\ entry \in [Monster -> MM!Count] /\ entries \in [Monster -> MM!Count]
    /\ hits \in [Monster -> 0 .. MaxHits]
    /\ hydrated \subseteq Monster /\ forgotten \subseteq Monster
    /\ tasks \in [Task -> [at : {"free", "loading", "loaded", "flushing", "purging"},
                           mon : Monster \cup {MM!Free.mon}, snap : MM!Count]]
    /\ \A t \in Task :
          /\ tasks[t].at \in {"loading", "loaded", "flushing"} => tasks[t].mon \in Monster
          /\ tasks[t].at = "purging" => tasks[t].mon = MM!Free.mon

\* What is remembered of m is in its entry, or in its row while there is no entry.
Remembered(m) ==
    /\ entry[m] \in {Absent, hits[m]}
    /\ entry[m] = Absent => hits[m] = IF entries[m] = Absent THEN 0 ELSE entries[m]

\* An entry is there unless nobody asked for it or one task brings it, with the
\* row as it is.
Brought(m) ==
    /\ entry[m] = Absent => m \notin hydrated \/ \E t \in Task : Loads(t, m)
    /\ entry[m] # Absent => m \in hydrated
    /\ \A t \in Task : Loads(t, m) =>
          /\ entry[m] = Absent /\ m \in hydrated
          /\ tasks[t].at = "loaded" => tasks[t].snap = entries[m]
          /\ \A s \in Task : Loads(s, m) => s = t

\* What is flushed has an entry, and what is purged has no row any more.
PutAway(m) ==
    /\ \A t \in Task : Flushes(t, m) => entry[m] # Absent
    /\ \A t \in Task : tasks[t].at = "purging" => entries[m] = Absent

MemoryOf(m) == Remembered(m) /\ Brought(m) /\ PutAway(m)

MemoryInv == MemoryType /\ \A m \in Monster : m \in forgotten \/ MemoryOf(m)

LEMMA MemoryStarts == PartsAssumption /\ MM!Init => MemoryInv
<1> SUFFICES ASSUME PartsAssumption, MM!Init
             PROVE  MemoryInv
  OBVIOUS
<1> USE DEF MM!Init, MM!Absent, MM!Count, MM!Free, PartsAssumption, MemoryConstants
<1>1. MemoryType  BY DEF MemoryType
<1>2. ASSUME NEW m \in Monster
      PROVE  MemoryOf(m)
  BY DEF MemoryOf, Remembered, Brought, PutAway, Loads, Flushes, Absent
<1> QED  BY <1>1, <1>2 DEF MemoryInv

\* A task that starts to work for a monster; one that does not.
LEMMA MemoryTasks ==
    ASSUME MemoryType, NEW t \in Task, NEW k \in Monster, NEW s \in MM!Count,
           NEW where \in {"loading", "loaded", "flushing"},
           tasks' = [tasks EXCEPT ![t] = [at |-> where, mon |-> k, snap |-> s]]
    PROVE  /\ tasks' \in [Task -> [at : {"free", "loading", "loaded", "flushing", "purging"},
                                   mon : Monster \cup {MM!Free.mon}, snap : MM!Count]]
           /\ \A u \in Task :
                 /\ tasks'[u].at \in {"loading", "loaded", "flushing"} => tasks'[u].mon \in Monster
                 /\ tasks'[u].at = "purging" => tasks'[u].mon = MM!Free.mon
  BY DEF MemoryType

LEMMA MemoryRests ==
    ASSUME MemoryType, NEW t \in Task, NEW s \in MM!Count,
           NEW where \in {"free", "purging"},
           tasks' = [tasks EXCEPT ![t] = [at |-> where, mon |-> MM!Free.mon, snap |-> s]]
    PROVE  /\ tasks' \in [Task -> [at : {"free", "loading", "loaded", "flushing", "purging"},
                                   mon : Monster \cup {MM!Free.mon}, snap : MM!Count]]
           /\ \A u \in Task :
                 /\ tasks'[u].at \in {"loading", "loaded", "flushing"} => tasks'[u].mon \in Monster
                 /\ tasks'[u].at = "purging" => tasks'[u].mon = MM!Free.mon
  BY DEF MemoryType

LEMMA MemoryTypeNext ==
    PartsAssumption /\ MemoryType /\ [MM!Next]_MM!vars => MemoryType'
<1> SUFFICES ASSUME PartsAssumption, MemoryType, [MM!Next]_MM!vars
             PROVE  MemoryType'
  OBVIOUS
<1> DEFINE At == {"free", "loading", "loaded", "flushing", "purging"}
           Tasks == /\ tasks' \in [Task -> [at : At, mon : Monster \cup {MM!Free.mon}, snap : MM!Count]]
                    /\ \A u \in Task :
                          /\ tasks'[u].at \in {"loading", "loaded", "flushing"} => tasks'[u].mon \in Monster
                          /\ tasks'[u].at = "purging" => tasks'[u].mon = MM!Free.mon
           Rest == /\ entry' \in [Monster -> MM!Count] /\ entries' \in [Monster -> MM!Count]
                   /\ hits' \in [Monster -> 0 .. MaxHits]
                   /\ hydrated' \subseteq Monster /\ forgotten' \subseteq Monster
<1> SUFFICES Tasks /\ Rest  BY DEF MemoryType
<1>a. MaxHits \in Nat /\ MM!Absent = MaxHits + 1 /\ MM!Count = 0 .. MaxHits + 1
  BY DEF PartsAssumption, MemoryConstants, MM!Absent, MM!Count
<1>b. MM!Free = [at |-> "free", mon |-> MM!Free.mon, snap |-> MM!Absent]  BY DEF MM!Free
<1>c. MM!Absent \in MM!Count  BY <1>a
<1>d. \A k \in Monster : MM!Kept(k) \in MM!Count  BY <1>a DEF MM!Kept, MemoryType
<1>1. ASSUME NEW t \in Task, NEW k \in Monster, MM!Recall(t, k)
      PROVE  Tasks /\ Rest
  <2>1. CASE k \in hydrated
    <3>0. PICK e \in MM!Count : entry' = [entry EXCEPT ![k] = e]
      BY <1>1, <2>1, <1>d DEF MM!Recall
    <3>3. /\ forgotten' \subseteq Monster
          /\ UNCHANGED <<hydrated, entries, hits>>
      BY <1>1, <2>1 DEF MM!Recall, MemoryType
    <3>1. Rest  BY <3>0, <3>3 DEF MemoryType
    <3>2. Tasks  BY <1>1, <2>1 DEF MM!Recall, MemoryType
    <3> QED  BY <3>1, <3>2
  <2>2. CASE k \notin hydrated
    <3>1. Rest  BY <1>1, <2>2 DEF MM!Recall, MemoryType
    <3>2. tasks' = [tasks EXCEPT ![t] = [at |-> "loading", mon |-> k, snap |-> MM!Absent]]
      BY <1>1, <2>2 DEF MM!Recall, MM!Become
    <3>3. Tasks  BY <3>2, <1>c, MemoryTasks
    <3> QED  BY <3>1, <3>3
  <2> QED  BY <2>1, <2>2
<1>2. ASSUME NEW t \in Task, NEW k \in Monster, MM!Flush(t, k)
      PROVE  Tasks /\ Rest
  <2>1. PICK e \in MM!Count : e = entry[k]  BY DEF MemoryType
  <2>2. tasks' = [tasks EXCEPT ![t] = [at |-> "flushing", mon |-> k, snap |-> e]]
    BY <1>2, <2>1 DEF MM!Flush, MM!Become
  <2>3. Tasks  BY <2>2, MemoryTasks
  <2>4. Rest  BY <1>2 DEF MM!Flush, MM!memory, MemoryType
  <2> QED  BY <2>3, <2>4
<1>3. ASSUME NEW t \in Task, MM!Load(t)
      PROVE  Tasks /\ Rest
  <2>1. PICK k \in Monster : k = tasks[t].mon  BY <1>3 DEF MM!Load, MemoryType
  <2>2. PICK s \in MM!Count :
           tasks' = [tasks EXCEPT ![t] = [at |-> "loaded", mon |-> k, snap |-> s]]
    <3>1. entries[k] \in MM!Count  BY <2>1 DEF MemoryType
    <3> QED  BY <1>3, <2>1, <3>1, <1>c DEF MM!Load, MM!Become
  <2>3. Tasks  BY <2>1, <2>2, MemoryTasks
  <2>4. Rest  BY <1>3, <2>1 DEF MM!Load, MM!memory, MemoryType
  <2> QED  BY <2>3, <2>4
<1>4. ASSUME NEW t \in Task, MM!Hydrate(t)
      PROVE  Tasks /\ Rest
  <2>1. tasks[t].mon \in Monster /\ tasks[t].snap \in MM!Count
    BY <1>4 DEF MM!Hydrate, MemoryType
  <2>2. tasks' = [tasks EXCEPT ![t] = [at |-> "free", mon |-> MM!Free.mon, snap |-> MM!Absent]]
    BY <1>4, <1>b DEF MM!Hydrate, MM!End
  <2>3. Tasks  BY <2>2, <1>c, MemoryRests
  <2>4. PICK e \in MM!Count : entry' = [entry EXCEPT ![tasks[t].mon] = e]
    BY <1>4, <2>1, <1>d DEF MM!Hydrate
  <2>5. Rest  BY <1>4, <2>4 DEF MM!Hydrate, MemoryType
  <2> QED  BY <2>3, <2>5
<1>5. ASSUME NEW t \in Task, MM!Upsert(t)
      PROVE  Tasks /\ Rest
  <2>1. tasks[t].mon \in Monster /\ tasks[t].snap \in MM!Count
    BY <1>5 DEF MM!Upsert, MemoryType
  <2>2. tasks' = [tasks EXCEPT ![t] = [at |-> "free", mon |-> MM!Free.mon, snap |-> MM!Absent]]
    BY <1>5, <1>b DEF MM!Upsert, MM!End
  <2>3. Tasks  BY <2>2, <1>c, MemoryRests
  <2>4. Rest  BY <1>5, <2>1 DEF MM!Upsert, MM!memory, MemoryType
  <2> QED  BY <2>3, <2>4
<1>6. ASSUME NEW t \in Task, MM!PurgeRows(t)
      PROVE  Tasks /\ Rest
  <2>1. MM!Become(t, "purging", MM!Free.mon, MM!Absent)  BY <1>6 DEF MM!PurgeRows
  <2>2. Tasks  BY <2>1, <1>c, MemoryRests DEF MM!Become
  <2>3. entries' \in [Monster -> MM!Count]
    BY <1>6, <1>c DEF MM!PurgeRows, MemoryType
  <2>4. hits' \in [Monster -> 0 .. MaxHits]
    <3>1. \A k \in Monster : (IF entry[k] = MM!Absent THEN 0 ELSE hits[k]) \in 0 .. MaxHits
      BY <1>a DEF MemoryType
    <3> QED  BY <1>6, <3>1 DEF MM!PurgeRows, MemoryType
  <2>5. forgotten' \subseteq Monster /\ UNCHANGED <<entry, hydrated>>
    BY <1>6 DEF MM!PurgeRows, MM!memory, MemoryType
  <2>6. Rest  BY <2>3, <2>4, <2>5 DEF MemoryType
  <2> QED  BY <2>2, <2>6
<1>7. ASSUME NEW t \in Task, MM!PurgeEntries(t)
      PROVE  Tasks /\ Rest
  <2>1. tasks' = [tasks EXCEPT ![t] = [at |-> "free", mon |-> MM!Free.mon, snap |-> MM!Absent]]
    BY <1>7, <1>b DEF MM!PurgeEntries, MM!End
  <2>2. Tasks  BY <2>1, <1>c, MemoryRests
  <2>3. Rest  BY <1>7, <1>a DEF MM!PurgeEntries, MemoryType
  <2> QED  BY <2>2, <2>3
<1>8. ASSUME NEW k \in Monster, MM!Hit(k)
      PROVE  Tasks /\ Rest
  <2>1. entry[k] + 1 \in MM!Count /\ hits[k] + 1 \in 0 .. MaxHits
    BY <1>8, <1>a DEF MM!Hit, MemoryType
  <2>2. Rest  BY <1>8, <2>1 DEF MM!Hit, MemoryType
  <2>3. Tasks  BY <1>8 DEF MM!Hit, MemoryType
  <2> QED  BY <2>2, <2>3
<1>9. CASE MM!Crash
  <2>1. tasks' = [t \in Task |-> [at |-> "free", mon |-> MM!Free.mon, snap |-> MM!Absent]]
    BY <1>9, <1>b DEF MM!Crash
  <2>2. Tasks  BY <2>1, <1>c
  <2>3. Rest  BY <1>9, <1>a DEF MM!Crash, MemoryType
  <2> QED  BY <2>2, <2>3
<1>10. CASE UNCHANGED MM!vars
  BY <1>10 DEF MM!vars, MM!memory, MemoryType
<1> QED  BY <1>1, <1>2, <1>3, <1>4, <1>5, <1>6, <1>7, <1>8, <1>9, <1>10 DEF MM!Next

\* A step that does nothing to m, its entry, its row and its tasks.
LEMMA MemoryAlone ==
    ASSUME NEW m \in Monster, MemoryOf(m),
           entry'[m] = entry[m], entries'[m] = entries[m], hits'[m] = hits[m],
           m \in hydrated' <=> m \in hydrated,
           \A s \in Task : \/ tasks'[s] = tasks[s]
                           \/ /\ ~Loads(s, m) /\ ~Loads(s, m)'
                              /\ ~Flushes(s, m) /\ ~Flushes(s, m)'
                              /\ tasks'[s].at # "purging"
    PROVE  MemoryOf(m)'
<1>1. Remembered(m)'  BY DEF MemoryOf, Remembered, Absent, MM!Absent
<1>2. \A s \in Task : Loads(s, m)' <=> Loads(s, m)  BY DEF Loads
<1>3. \A s \in Task : Loads(s, m) => tasks'[s] = tasks[s]  OBVIOUS
<1>4. Brought(m)'
  BY <1>2, <1>3 DEF MemoryOf, Brought, Absent, MM!Absent
<1>5. \A s \in Task : Flushes(s, m)' => Flushes(s, m)  BY DEF Flushes
<1>6. PutAway(m)'
  BY <1>5 DEF MemoryOf, PutAway, Absent, MM!Absent
<1> QED  BY <1>1, <1>4, <1>6 DEF MemoryOf

LEMMA MemoryRecall ==
    ASSUME MemoryType, NEW t \in Task, NEW k \in Monster, MM!Recall(t, k),
           NEW m \in Monster, MemoryOf(m), m \notin forgotten'
    PROVE  MemoryOf(m)'
<1> USE DEF MM!Absent, Absent
<1>1. CASE k \in hydrated
  <2>1. entry'[m] = entry[m]
    <3>1. entry' = [entry EXCEPT ![k] = MM!Kept(k)]  BY <1>1 DEF MM!Recall
    <3>2. k = m => entry[m] # Absent
      BY <1>1 DEF MM!Recall, MM!Busy, MemoryOf, Brought, Loads
    <3> QED  BY <3>1, <3>2 DEF MM!Kept, MemoryType
  <2>2. UNCHANGED <<entries, hits, hydrated, tasks>>  BY <1>1 DEF MM!Recall
  <2> QED  BY <2>1, <2>2, MemoryAlone
<1>2. CASE k \notin hydrated
  <2>1. /\ hydrated' = hydrated \cup {k} /\ UNCHANGED <<entry, entries, hits>>
        /\ tasks' = [tasks EXCEPT ![t] = [at |-> "loading", mon |-> k, snap |-> Absent]]
        /\ tasks[t].at = "free"
    BY <1>2 DEF MM!Recall, MM!Become
  <2>2. \A s \in Task : s # t => tasks'[s] = tasks[s]  BY <2>1 DEF MemoryType
  <2>3. tasks'[t].at = "loading" /\ tasks'[t].mon = k  BY <2>1 DEF MemoryType
  <2>4. CASE m # k
    BY <2>1, <2>2, <2>3, <2>4, MemoryAlone DEF Loads, Flushes
  <2>5. CASE m = k
    <3>1. entry[m] = Absent /\ \A s \in Task : ~Loads(s, m)
      BY <1>2, <2>5 DEF MemoryOf, Brought
    <3>2. \A s \in Task : Loads(s, m)' <=> s = t
      BY <3>1, <2>2, <2>3, <2>5 DEF Loads
    <3>3. Remembered(m)'  BY <2>1 DEF MemoryOf, Remembered
    <3>4. Brought(m)'  BY <2>1, <2>3, <2>5, <3>1, <3>2 DEF Brought
    <3>5. PutAway(m)'  BY <2>1, <2>2, <2>3 DEF MemoryOf, PutAway, Flushes
    <3> QED  BY <3>3, <3>4, <3>5 DEF MemoryOf
  <2> QED  BY <2>4, <2>5
<1> QED  BY <1>1, <1>2

LEMMA MemoryFlush ==
    ASSUME MemoryType, NEW t \in Task, NEW k \in Monster, MM!Flush(t, k),
           NEW m \in Monster, MemoryOf(m)
    PROVE  MemoryOf(m)'
<1> USE DEF MM!Absent, Absent
<1>1. /\ UNCHANGED <<entry, hydrated, entries, hits>> /\ entry[k] # Absent
      /\ tasks' = [tasks EXCEPT ![t] = [at |-> "flushing", mon |-> k, snap |-> entry[k]]]
      /\ tasks[t].at = "free"
  BY DEF MM!Flush, MM!Become, MM!memory
<1>2. \A s \in Task : s # t => tasks'[s] = tasks[s]  BY <1>1 DEF MemoryType
<1>3. tasks'[t].at = "flushing" /\ tasks'[t].mon = k  BY <1>1 DEF MemoryType
<1>4. \A s \in Task : Loads(s, m)' <=> Loads(s, m)  BY <1>1, <1>2, <1>3 DEF Loads
<1>5. \A s \in Task : Loads(s, m) => tasks'[s] = tasks[s]  BY <1>1, <1>2 DEF Loads
<1>6. Remembered(m)'  BY <1>1 DEF MemoryOf, Remembered
<1>7. Brought(m)'  BY <1>1, <1>4, <1>5 DEF MemoryOf, Brought
<1>8. PutAway(m)'  BY <1>1, <1>2, <1>3 DEF MemoryOf, PutAway, Flushes
<1> QED  BY <1>6, <1>7, <1>8 DEF MemoryOf

LEMMA MemoryLoad ==
    ASSUME MemoryType, NEW t \in Task, MM!Load(t),
           NEW m \in Monster, MemoryOf(m), m \notin forgotten'
    PROVE  MemoryOf(m)'
<1> USE DEF MM!Absent, Absent
<1>0. PICK k \in Monster : k = tasks[t].mon  BY DEF MM!Load, MemoryType
<1>1. PICK s : /\ tasks' = [tasks EXCEPT ![t] = [at |-> "loaded", mon |-> k, snap |-> s]]
               /\ m = k => s = entries[m]
  BY <1>0 DEF MM!Load, MM!Become
<1>2. UNCHANGED <<entry, hydrated, entries, hits>> /\ tasks[t].at = "loading"
  BY DEF MM!Load, MM!memory
<1>3. \A u \in Task : u # t => tasks'[u] = tasks[u]  BY <1>1 DEF MemoryType
<1>4. tasks'[t].at = "loaded" /\ tasks'[t].mon = k /\ tasks'[t].snap = s
  BY <1>1 DEF MemoryType
<1>5. CASE m # k
  BY <1>0, <1>2, <1>3, <1>4, <1>5, MemoryAlone DEF Loads, Flushes
<1>6. CASE m = k
  <2>1. \A u \in Task : Loads(u, m)' <=> Loads(u, m)
    BY <1>0, <1>2, <1>3, <1>4, <1>6 DEF Loads
  <2>2. Remembered(m)'  BY <1>2 DEF MemoryOf, Remembered
  <2>3. Brought(m)'  BY <1>1, <1>2, <1>3, <1>4, <1>6, <2>1 DEF MemoryOf, Brought
  <2>4. PutAway(m)'  BY <1>2, <1>3, <1>4 DEF MemoryOf, PutAway, Flushes
  <2> QED  BY <2>2, <2>3, <2>4 DEF MemoryOf
<1> QED  BY <1>5, <1>6

\* What is loaded is what is in the row, and no entry was made meanwhile.
LEMMA MemoryHydrate ==
    ASSUME PartsAssumption, MemoryType, NEW t \in Task, MM!Hydrate(t),
           NEW m \in Monster, MemoryOf(m)
    PROVE  MemoryOf(m)'
<1> USE DEF MM!Absent, Absent
<1>0. PICK k \in Monster : k = tasks[t].mon  BY DEF MM!Hydrate, MemoryType
<1>1. /\ UNCHANGED <<hydrated, entries, hits>> /\ tasks[t].at = "loaded"
      /\ entry' = [entry EXCEPT ![k] = IF tasks[t].snap # Absent THEN tasks[t].snap
                                       ELSE MM!Kept(k)]
      /\ tasks' = [tasks EXCEPT ![t] = MM!Free]
  BY <1>0 DEF MM!Hydrate, MM!End
<1>2. \A u \in Task : u # t => tasks'[u] = tasks[u]  BY <1>1 DEF MemoryType
<1>3. tasks'[t].at = "free"  BY <1>1 DEF MemoryType, MM!Free
<1>4. CASE m # k
  <2>1. entry'[m] = entry[m]  BY <1>1, <1>4 DEF MemoryType
  <2> QED  BY <1>0, <1>1, <1>2, <1>3, <1>4, <2>1, MemoryAlone DEF Loads, Flushes
<1>5. CASE m = k
  <2>1. Loads(t, m)  BY <1>0, <1>1, <1>5 DEF Loads
  <2>2. /\ entry[m] = Absent /\ m \in hydrated /\ tasks[t].snap = entries[m]
        /\ \A s \in Task : Loads(s, m) => s = t
    BY <2>1, <1>1 DEF MemoryOf, Brought
  <2>3. entry'[m] = IF entries[m] # Absent THEN entries[m] ELSE 0
    BY <1>1, <1>5, <2>2 DEF MemoryType, MM!Kept
  <2>4. entry'[m] = hits[m]  BY <2>2, <2>3 DEF MemoryOf, Remembered
  <2>5. entry'[m] # Absent
    <3>1. hits[m] \in 0 .. MaxHits /\ MaxHits \in Nat  BY DEF MemoryType, PartsAssumption, MemoryConstants
    <3> QED  BY <2>4, <3>1
  <2>6. \A s \in Task : ~Loads(s, m)'
    BY <1>2, <1>3, <2>2 DEF Loads
  <2>7. Remembered(m)'  BY <1>1, <2>4, <2>5 DEF Remembered
  <2>8. Brought(m)'  BY <1>1, <2>2, <2>5, <2>6 DEF Brought
  <2>9. PutAway(m)'  BY <1>1, <1>2, <1>3, <2>5 DEF MemoryOf, PutAway, Flushes
  <2> QED  BY <2>7, <2>8, <2>9 DEF MemoryOf
<1> QED  BY <1>4, <1>5

LEMMA MemoryHit ==
    ASSUME PartsAssumption, MemoryType, NEW k \in Monster, MM!Hit(k),
           NEW m \in Monster, MemoryOf(m)
    PROVE  MemoryOf(m)'
<1> USE DEF MM!Absent, Absent
<1>1. /\ UNCHANGED <<hydrated, entries, tasks>>
      /\ entry[k] # Absent /\ entry[k] < MaxHits
      /\ entry' = [entry EXCEPT ![k] = @ + 1] /\ hits' = [hits EXCEPT ![k] = @ + 1]
  BY DEF MM!Hit
<1>2. CASE m # k
  <2>1. entry'[m] = entry[m] /\ hits'[m] = hits[m]  BY <1>1, <1>2 DEF MemoryType
  <2> QED  BY <1>1, <2>1, MemoryAlone
<1>3. CASE m = k
  <2>1. entry'[m] = entry[m] + 1 /\ hits'[m] = hits[m] + 1
    BY <1>1, <1>3 DEF MemoryType
  <2>2. entry'[m] # Absent
    <3>1. entry[m] \in 0 .. MaxHits + 1 /\ MaxHits \in Nat
      BY DEF MemoryType, MM!Count, PartsAssumption, MemoryConstants
    <3> QED  BY <1>1, <1>3, <2>1, <3>1
  <2>3. entry[m] = hits[m]  BY <1>1, <1>3 DEF MemoryOf, Remembered
  <2>4. \A s \in Task : ~Loads(s, m)  BY <1>1, <1>3 DEF MemoryOf, Brought
  <2>5. \A s \in Task : ~Loads(s, m)'  BY <1>1, <2>4 DEF Loads
  <2>6. Remembered(m)'  BY <2>1, <2>2, <2>3 DEF Remembered
  <2>7. Brought(m)'  BY <1>1, <1>3, <2>2, <2>5 DEF MemoryOf, Brought
  <2>8. PutAway(m)'  BY <1>1, <2>2 DEF MemoryOf, PutAway
  <2> QED  BY <2>6, <2>7, <2>8 DEF MemoryOf
<1> QED  BY <1>2, <1>3

\* A row written while the rows are purged is known to be torn.
LEMMA MemoryUpsert ==
    ASSUME MemoryType, NEW t \in Task, MM!Upsert(t),
           NEW m \in Monster, MemoryOf(m), m \notin forgotten'
    PROVE  MemoryOf(m)'
<1> USE DEF MM!Absent, Absent
<1>0. PICK k \in Monster : k = tasks[t].mon  BY DEF MM!Upsert, MemoryType
<1>1. /\ UNCHANGED <<entry, hydrated, hits>> /\ tasks[t].at = "flushing"
      /\ tasks' = [tasks EXCEPT ![t] = MM!Free]
  BY DEF MM!Upsert, MM!End, MM!memory
<1>2. \A u \in Task : u # t => tasks'[u] = tasks[u]  BY <1>1 DEF MemoryType
<1>3. tasks'[t].at = "free"  BY <1>1 DEF MemoryType, MM!Free
<1>4. \/ entries' = [entries EXCEPT ![k] = tasks[t].snap]
         /\ (MM!Busy(MM!Free.mon, {"purging"}) => k \in forgotten')
      \/ entries' = entries
  BY <1>0 DEF MM!Upsert
<1>5. CASE m # k
  <2>1. entries'[m] = entries[m]  BY <1>4, <1>5 DEF MemoryType
  <2> QED  BY <1>0, <1>1, <1>2, <1>3, <1>5, <2>1, MemoryAlone DEF Loads, Flushes
<1>6. CASE m = k
  <2>1. entry[m] # Absent
    BY <1>0, <1>1, <1>6 DEF MemoryOf, PutAway, Flushes
  <2>2. \A s \in Task : ~Loads(s, m)  BY <2>1 DEF MemoryOf, Brought
  <2>3. \A s \in Task : ~Loads(s, m)'  BY <1>2, <1>3, <2>2 DEF Loads
  <2>4. Remembered(m)'  BY <1>1, <2>1 DEF MemoryOf, Remembered
  <2>5. Brought(m)'  BY <1>1, <2>1, <2>3 DEF MemoryOf, Brought
  <2>6. ASSUME NEW s \in Task, tasks'[s].at = "purging"
        PROVE  entries'[m] = Absent
    <3>1. tasks[s].at = "purging"  BY <1>2, <1>3, <2>6
    <3>2. tasks[s].mon = MM!Free.mon  BY <3>1 DEF MemoryType
    <3>3. MM!Busy(MM!Free.mon, {"purging"})  BY <3>1, <3>2 DEF MM!Busy
    <3>4. entries' = entries  BY <3>3, <1>4, <1>6
    <3> QED  BY <3>1, <3>4 DEF MemoryOf, PutAway
  <2>7. PutAway(m)'  BY <1>1, <2>1, <2>6 DEF PutAway
  <2> QED  BY <2>4, <2>5, <2>7 DEF MemoryOf
<1> QED  BY <1>5, <1>6

LEMMA MemoryPurgeRows ==
    ASSUME MemoryType, NEW t \in Task, MM!PurgeRows(t),
           NEW m \in Monster, MemoryOf(m), m \notin forgotten'
    PROVE  MemoryOf(m)'
<1> USE DEF MM!Absent, Absent
<1>1. /\ UNCHANGED <<entry, hydrated>> /\ tasks[t].at = "free"
      /\ tasks' = [tasks EXCEPT ![t] = [at |-> "purging", mon |-> MM!Free.mon, snap |-> Absent]]
  BY DEF MM!PurgeRows, MM!Become, MM!memory
<1>2. \A u \in Task : u # t => tasks'[u] = tasks[u]  BY <1>1 DEF MemoryType
<1>3. tasks'[t].at = "purging"  BY <1>1 DEF MemoryType
<1>4. \A s \in Task : Loads(s, m)' <=> Loads(s, m)  BY <1>1, <1>2, <1>3 DEF Loads
<1>5. \A s \in Task : Loads(s, m) => tasks'[s] = tasks[s]  BY <1>1, <1>2 DEF Loads
<1>6. \A s \in Task : Flushes(s, m)' => Flushes(s, m)  BY <1>2, <1>3 DEF Flushes
<1>7. CASE /\ entries' = [k \in Monster |-> Absent]
           /\ hits' = [k \in Monster |-> IF entry[k] = Absent THEN 0 ELSE hits[k]]
           /\ ~MM!Busy(m, {"loaded"})
  <2>1. entries'[m] = Absent  BY <1>7
  <2>2. hits'[m] = IF entry[m] = Absent THEN 0 ELSE hits[m]  BY <1>7
  <2>3. Remembered(m)'  BY <1>1, <2>1, <2>2 DEF MemoryOf, Remembered
  <2>4. \A s \in Task : Loads(s, m) => tasks[s].at # "loaded"
    BY <1>7 DEF MM!Busy, Loads
  <2>5. Brought(m)'  BY <1>1, <1>4, <1>5, <2>4 DEF MemoryOf, Brought
  <2>6. PutAway(m)'  BY <1>1, <1>6, <2>1 DEF MemoryOf, PutAway
  <2> QED  BY <2>3, <2>5, <2>6 DEF MemoryOf
<1>8. CASE UNCHANGED <<entries, hits>> /\ entries[m] = Absent
  <2>1. Remembered(m)'  BY <1>1, <1>8 DEF MemoryOf, Remembered
  <2>2. Brought(m)'  BY <1>1, <1>4, <1>5, <1>8 DEF MemoryOf, Brought
  <2>3. PutAway(m)'  BY <1>1, <1>6, <1>8 DEF MemoryOf, PutAway
  <2> QED  BY <2>1, <2>2, <2>3 DEF MemoryOf
<1> QED  BY <1>7, <1>8 DEF MM!PurgeRows

LEMMA MemoryPurgeEntries ==
    ASSUME MemoryType, NEW t \in Task, MM!PurgeEntries(t),
           NEW m \in Monster, MemoryOf(m), m \notin forgotten'
    PROVE  MemoryOf(m)'
<1> USE DEF MM!Absent, Absent
<1>1. /\ entry' = [k \in Monster |-> Absent] /\ hits' = [k \in Monster |-> 0]
      /\ hydrated' = {k \in hydrated : entry[k] = Absent}
      /\ UNCHANGED entries /\ tasks[t].at = "purging"
      /\ tasks' = [tasks EXCEPT ![t] = MM!Free]
      /\ ~MM!Busy(m, {"loaded", "flushing"})
  BY DEF MM!PurgeEntries, MM!End
<1>2. \A u \in Task : u # t => tasks'[u] = tasks[u]  BY <1>1 DEF MemoryType
<1>3. tasks'[t].at = "free"  BY <1>1 DEF MemoryType, MM!Free
<1>4. entry'[m] = Absent /\ hits'[m] = 0 /\ entries'[m] = Absent
  BY <1>1 DEF MemoryOf, PutAway
<1>5. \A s \in Task : Loads(s, m)' <=> Loads(s, m)  BY <1>1, <1>2, <1>3 DEF Loads
<1>6. \A s \in Task : tasks'[s].at \in {"loaded", "flushing"} => tasks'[s].mon # m
  BY <1>1, <1>2, <1>3 DEF MM!Busy
<1>7. Remembered(m)'  BY <1>4 DEF Remembered
<1>8. Brought(m)'
  <2>1. m \in hydrated' => \E s \in Task : Loads(s, m)'
    BY <1>1, <1>5 DEF MemoryOf, Brought
  <2>2. ASSUME NEW s \in Task, Loads(s, m)'
        PROVE  /\ m \in hydrated' /\ tasks'[s].at # "loaded"
               /\ \A u \in Task : Loads(u, m)' => u = s
    BY <2>2, <1>1, <1>5, <1>6 DEF MemoryOf, Brought, Loads
  <2> QED  BY <1>4, <2>1, <2>2 DEF Brought
<1>9. PutAway(m)'  BY <1>4, <1>6 DEF PutAway, Flushes
<1> QED  BY <1>7, <1>8, <1>9 DEF MemoryOf

LEMMA MemoryCrash ==
    ASSUME PartsAssumption, MemoryType, MM!Crash, NEW m \in Monster
    PROVE  MemoryOf(m)'
<1> USE DEF MM!Absent, Absent
<1>1. /\ entry'[m] = Absent /\ hydrated' = {} /\ entries' = entries
      /\ hits'[m] = IF entries[m] = Absent THEN 0 ELSE entries[m]
      /\ \A s \in Task : tasks'[s].at = "free"
  BY DEF MM!Crash, MM!Free
<1>2. Remembered(m)'  BY <1>1 DEF Remembered
<1>3. Brought(m)'  BY <1>1 DEF Brought, Loads
<1>4. PutAway(m)'  BY <1>1 DEF PutAway, Flushes
<1> QED  BY <1>2, <1>3, <1>4 DEF MemoryOf

LEMMA MemoryNext ==
    PartsAssumption /\ MemoryInv /\ [MM!Next]_MM!vars => MemoryInv'
<1> SUFFICES ASSUME PartsAssumption, MemoryInv, [MM!Next]_MM!vars
             PROVE  MemoryInv'
  OBVIOUS
<1>0. MemoryType  BY DEF MemoryInv
<1>1. MemoryType'  BY <1>0, MemoryTypeNext
<1>2. ASSUME NEW m \in Monster, m \notin forgotten'
      PROVE  MemoryOf(m)'
  <2>0. m \notin forgotten
    BY <1>2 DEF MM!Next, MM!Recall, MM!Flush, MM!Load, MM!Hydrate, MM!Upsert,
                MM!PurgeRows, MM!PurgeEntries, MM!Hit, MM!Crash, MM!vars
  <2>1. MemoryOf(m)  BY <2>0 DEF MemoryInv
  <2>2. ASSUME NEW t \in Task, NEW k \in Monster, MM!Recall(t, k) \/ MM!Flush(t, k)
        PROVE  MemoryOf(m)'
    BY <2>2, <1>0, <1>2, <2>1, MemoryRecall, MemoryFlush
  <2>3. ASSUME NEW t \in Task,
               MM!Load(t) \/ MM!Hydrate(t) \/ MM!Upsert(t) \/ MM!PurgeRows(t)
                 \/ MM!PurgeEntries(t)
        PROVE  MemoryOf(m)'
    BY <2>3, <1>0, <1>2, <2>1, MemoryLoad, MemoryHydrate, MemoryUpsert,
       MemoryPurgeRows, MemoryPurgeEntries
  <2>4. ASSUME NEW k \in Monster, MM!Hit(k)
        PROVE  MemoryOf(m)'
    BY <2>4, <1>0, <2>1, MemoryHit
  <2>5. CASE MM!Crash  BY <2>5, <1>0, MemoryCrash
  <2>6. CASE UNCHANGED MM!vars
    <3>1. UNCHANGED <<entry, hydrated, entries, tasks, hits>>
      BY <2>6 DEF MM!vars, MM!memory
    <3> QED  BY <3>1, <2>1, MemoryAlone
  <2> QED  BY <2>2, <2>3, <2>4, <2>5, <2>6 DEF MM!Next
<1> QED  BY <1>1, <1>2 DEF MemoryInv

-----------------------------------------------------------------------------
(* Cached sheets: CharacterCache. *)

Calls(c) == fetching[c] # CC!Idle
Fetched(c) == fetching[c].at = "fetched"

SheetType ==
    /\ sheet \in 1 .. MaxVersions
    /\ gone \in [1 .. MaxVersions -> 0 .. CharTTL + 1]
    /\ row \in [version : 0 .. sheet, age : 0 .. CharTTL + 1]
    /\ fetching \in [Caller -> [at : {"idle", "fetching", "fetched"},
                                age : 0 .. CharTTL, had : 0 .. sheet, got : 0 .. sheet]]
    /\ \A c \in Caller : fetching[c].at = "idle" <=> fetching[c] = CC!Idle

\* A version that dm20 has not replaced is not gone.
NotGone == \A v \in 1 .. MaxVersions : v >= sheet => gone[v] = 0

\* What a call got was dm20's when it asked, and all that came later still is or
\* was then; a call is over within half the TTL.
CallHonest(c) ==
    /\ 2 * fetching[c].age <= CharTTL
    /\ Fetched(c) =>
          /\ fetching[c].got # 0
          /\ \A v \in 1 .. MaxVersions :
                v >= fetching[c].got => gone[v] <= fetching[c].age

\* A row is no older than what a call has found there, and one that came after
\* what a call got did not come much before the call.
RowAfter(c) ==
    /\ row.version # 0 => row.version >= fetching[c].had
    /\ Fetched(c) /\ row.version > fetching[c].got
          => 2 * row.age <= 2 * fetching[c].age + CharTTL

\* No call has found a row that is newer than what another one got.
Overlap(b, c) == Calls(b) /\ Fetched(c) => fetching[b].had <= fetching[c].got

SheetInv ==
    /\ SheetType /\ NotGone /\ CC!StampHonest
    /\ \A c \in Caller : CallHonest(c) /\ (Calls(c) => RowAfter(c))
    /\ \A b \in Caller, c \in Caller : Overlap(b, c)

\* Half a TTL.
LEMMA Halves ==
    ASSUME NEW x \in Nat, NEW y \in Nat, NEW z \in Nat, NEW t \in Nat
    PROVE  /\ 2 * x <= t => 2 * x <= 2 * y + t
           /\ 2 * (x + 1) <= t => x + 1 \in 0 .. t
           /\ 2 * x <= 2 * y + t /\ z <= x + 1 => 2 * z <= 2 * (y + 1) + t
  OBVIOUS

\* The numbers the invariant compares.
LEMMA SheetNumbers ==
    ASSUME PartsAssumption, SheetType
    PROVE  /\ CharTTL \in Nat /\ MaxVersions \in Nat /\ sheet \in Nat
           /\ row.version \in 0 .. sheet /\ row.age \in 0 .. CharTTL + 1
           /\ row = [version |-> row.version, age |-> row.age]
           /\ \A v \in 1 .. MaxVersions : gone[v] \in 0 .. CharTTL + 1
           /\ \A c \in Caller : /\ fetching[c].age \in 0 .. CharTTL
                                /\ fetching[c].had \in 0 .. sheet
                                /\ fetching[c].got \in 0 .. sheet
                                /\ Fetched(c) => Calls(c)
<1>1. CharTTL \in Nat /\ MaxVersions \in Nat  BY DEF PartsAssumption, SheetConstants
<1>2. /\ sheet \in Nat
      /\ row.version \in 0 .. sheet /\ row.age \in 0 .. CharTTL + 1
      /\ row = [version |-> row.version, age |-> row.age]
  BY <1>1 DEF SheetType
<1>3. \A v \in 1 .. MaxVersions : gone[v] \in 0 .. CharTTL + 1  BY DEF SheetType
<1>4. ASSUME NEW c \in Caller
      PROVE  /\ fetching[c].age \in 0 .. CharTTL
             /\ fetching[c].had \in 0 .. sheet /\ fetching[c].got \in 0 .. sheet
  BY DEF SheetType
<1>5. ASSUME NEW c \in Caller
      PROVE  Fetched(c) => Calls(c)
  BY DEF Fetched, Calls, CC!Idle
<1> QED  BY <1>1, <1>2, <1>3, <1>4, <1>5

LEMMA SheetStarts == PartsAssumption /\ CC!Init => SheetInv
<1> SUFFICES ASSUME PartsAssumption, CC!Init
             PROVE  SheetInv
  OBVIOUS
<1>1. /\ sheet = 1 /\ row = [version |-> 0, age |-> 0]
      /\ gone = [v \in 1 .. MaxVersions |-> 0]
      /\ fetching = [c \in Caller |-> CC!Idle]
  BY DEF CC!Init, CC!NoRow, CC!Version
<1>2. SheetType  BY <1>1 DEF SheetType, CC!Idle, PartsAssumption, SheetConstants
<1>3. NotGone  BY <1>1 DEF NotGone
<1>4. CC!StampHonest  BY <1>1 DEF CC!StampHonest
<1>5. ASSUME NEW c \in Caller
      PROVE  CallHonest(c) /\ ~Calls(c) /\ ~Fetched(c)
  BY <1>1, <1>5 DEF CallHonest, Calls, Fetched, CC!Idle, PartsAssumption, SheetConstants
<1> QED  BY <1>2, <1>3, <1>4, <1>5 DEF SheetInv, Overlap

\* What a step that moves only the call of c has to show.
LEMMA SheetCall ==
    ASSUME SheetInv, UNCHANGED <<sheet, gone, row>>, NEW c \in Caller,
           NEW r \in [at : {"idle", "fetching", "fetched"},
                      age : 0 .. CharTTL, had : 0 .. sheet, got : 0 .. sheet],
           r.at = "idle" <=> r = CC!Idle,
           fetching' = [fetching EXCEPT ![c] = r],
           CallHonest(c)', Calls(c)' => RowAfter(c)',
           \A d \in Caller : d # c => Overlap(c, d)' /\ Overlap(d, c)',
           Overlap(c, c)'
    PROVE  SheetInv'
<1>1. SheetType'  BY DEF SheetInv, SheetType
<1>2. NotGone' /\ CC!StampHonest'  BY DEF SheetInv, NotGone, CC!StampHonest
<1>3. \A d \in Caller : d # c => fetching'[d] = fetching[d]  BY DEF SheetInv, SheetType
<1>4. ASSUME NEW d \in Caller
      PROVE  CallHonest(d)' /\ (Calls(d)' => RowAfter(d)')
  <2>1. CASE d = c  BY <2>1
  <2>2. CASE d # c
    <3>1. CallHonest(d) /\ (Calls(d) => RowAfter(d))  BY DEF SheetInv
    <3>2. fetching'[d] = fetching[d]  BY <1>3, <2>2
    <3> QED  BY <3>1, <3>2 DEF CallHonest, Calls, RowAfter, Fetched
  <2> QED  BY <2>1, <2>2
<1>5. ASSUME NEW b \in Caller, NEW d \in Caller
      PROVE  Overlap(b, d)'
  <2>1. CASE b = c \/ d = c  BY <2>1
  <2>2. CASE b # c /\ d # c
    <3>1. fetching'[b] = fetching[b] /\ fetching'[d] = fetching[d]  BY <1>3, <2>2
    <3>2. Overlap(b, d)  BY DEF SheetInv
    <3> QED  BY <3>1, <3>2 DEF Overlap, Calls, Fetched
  <2> QED  BY <2>1, <2>2
<1> QED  BY <1>1, <1>2, <1>4, <1>5 DEF SheetInv

\* A call begins when the row has expired: it is not newer than what another got.
LEMMA SheetLookup ==
    ASSUME PartsAssumption, SheetInv, NEW c \in Caller, CC!Lookup(c)
    PROVE  SheetInv'
<1> DEFINE r == [at |-> "fetching", age |-> 0, had |-> row.version, got |-> 0]
<1>0. SheetType  BY DEF SheetInv
<1>1. /\ UNCHANGED <<sheet, gone, row>>
      /\ row.version = 0 \/ row.age > CharTTL
      /\ fetching' = [fetching EXCEPT ![c] = r]
  BY DEF CC!Lookup, CC!Set
<1>2. /\ r \in [at : {"idle", "fetching", "fetched"},
                age : 0 .. CharTTL, had : 0 .. sheet, got : 0 .. sheet]
      /\ r.at # "idle" /\ r # CC!Idle
  BY <1>0, SheetNumbers DEF CC!Idle
<1>3. fetching'[c] = r  BY <1>0, <1>1 DEF SheetType
<1>4. ~Fetched(c)'  BY <1>3 DEF Fetched
<1>5. CallHonest(c)'  BY <1>0, <1>3, <1>4, SheetNumbers DEF CallHonest
<1>6. RowAfter(c)'  BY <1>0, <1>1, <1>3, <1>4, SheetNumbers DEF RowAfter
<1>7. Overlap(c, c)' /\ \A d \in Caller : Overlap(d, c)'  BY <1>4 DEF Overlap
<1>8. ASSUME NEW d \in Caller, d # c, Fetched(d)'
      PROVE  row.version <= fetching'[d].got
  <2>1. fetching'[d] = fetching[d]  BY <1>0, <1>1, <1>8 DEF SheetType
  <2>2. Fetched(d)  BY <1>8, <2>1 DEF Fetched
  <2>3. CallHonest(d) /\ RowAfter(d)  BY <1>0, <2>2, SheetNumbers DEF SheetInv
  <2>4. 2 * fetching[d].age <= CharTTL  BY <2>3 DEF CallHonest
  <2>5. row.version > fetching[d].got => 2 * row.age <= 2 * fetching[d].age + CharTTL
    BY <2>2, <2>3 DEF RowAfter
  <2>6. /\ CharTTL \in Nat /\ row.version \in Nat /\ row.age \in Nat
        /\ fetching[d].age \in Nat /\ fetching[d].got \in Nat
    <3>1. /\ CharTTL \in Nat /\ sheet \in Nat
          /\ row.version \in 0 .. sheet /\ row.age \in 0 .. CharTTL + 1
      BY <1>0, SheetNumbers
    <3>2. fetching[d].age \in 0 .. CharTTL /\ fetching[d].got \in 0 .. sheet
      BY <1>0, SheetNumbers
    <3> QED  BY <3>1, <3>2
  <2>7. row.version = 0 => row.version <= fetching[d].got  BY <2>6
  <2>8. row.age > CharTTL => ~(2 * row.age <= 2 * fetching[d].age + CharTTL)
    BY <2>4, <2>6
  <2>9. row.version <= fetching[d].got  BY <1>1, <2>5, <2>6, <2>7, <2>8
  <2> QED  BY <2>1, <2>9
<1>9. \A d \in Caller : d # c => Overlap(c, d)'
  BY <1>3, <1>8 DEF Overlap
<1> QED  BY <1>1, <1>2, <1>5, <1>6, <1>7, <1>9, SheetCall

\* What dm20 answers is its sheet, and nothing is newer.
LEMMA SheetFetch ==
    ASSUME PartsAssumption, SheetInv, NEW c \in Caller, CC!Fetch(c)
    PROVE  SheetInv'
<1> DEFINE r == [fetching[c] EXCEPT !.at = "fetched", !.got = sheet]
<1>0. SheetType  BY DEF SheetInv
<1>1. /\ UNCHANGED <<sheet, gone, row>> /\ fetching[c].at = "fetching"
      /\ fetching' = [fetching EXCEPT ![c] = r]
  BY DEF CC!Fetch, CC!Set
<1>2. /\ r \in [at : {"idle", "fetching", "fetched"},
                age : 0 .. CharTTL, had : 0 .. sheet, got : 0 .. sheet]
      /\ r.at = "fetched" /\ r.got = sheet
      /\ r.age = fetching[c].age /\ r.had = fetching[c].had
  <2>1. fetching[c] \in [at : {"idle", "fetching", "fetched"},
                         age : 0 .. CharTTL, had : 0 .. sheet, got : 0 .. sheet]
    BY <1>0 DEF SheetType
  <2>2. sheet \in 0 .. sheet  BY <1>0, SheetNumbers
  <2> QED  BY <2>1, <2>2
<1>3. r.at # "idle" /\ r # CC!Idle  BY <1>2 DEF CC!Idle
<1>4. fetching'[c] = r  BY <1>0, <1>1 DEF SheetType
<1>5. Calls(c)  BY <1>1 DEF Calls, CC!Idle
<1>6. CallHonest(c) /\ RowAfter(c)  BY <1>5 DEF SheetInv
<1> HIDE DEF r
<1>7. CallHonest(c)'
  <2>1. sheet # 0  BY <1>0 DEF SheetType
  <2>2. \A v \in 1 .. MaxVersions : v >= sheet => gone[v] <= fetching[c].age
    BY <1>0, SheetNumbers DEF SheetInv, NotGone
  <2>3. 2 * fetching[c].age <= CharTTL  BY <1>6 DEF CallHonest
  <2> QED  BY <1>1, <1>2, <1>4, <2>1, <2>2, <2>3 DEF CallHonest
<1>8. RowAfter(c)'
  <2>1. ~(row.version > sheet)  BY <1>0, SheetNumbers
  <2> QED  BY <1>1, <1>2, <1>4, <1>6, <2>1 DEF RowAfter
<1>9. ASSUME NEW d \in Caller
      PROVE  fetching'[d].had <= sheet
  <2>1. fetching'[d].had = fetching[d].had
    BY <1>0, <1>1, <1>2, <1>4 DEF SheetType
  <2> QED  BY <1>0, <2>1, SheetNumbers
<1>10. \A d \in Caller : Overlap(d, c)'  BY <1>2, <1>4, <1>9 DEF Overlap
<1>11. ASSUME NEW d \in Caller, d # c
       PROVE  Overlap(c, d)'
  <2>1. fetching'[d] = fetching[d]  BY <1>0, <1>1, <1>11 DEF SheetType
  <2>2. Overlap(c, d)  BY DEF SheetInv
  <2> QED  BY <1>2, <1>4, <1>5, <2>1, <2>2 DEF Overlap, Fetched
<1> QED  BY <1>1, <1>2, <1>3, <1>4, <1>7, <1>8, <1>10, <1>11, SheetCall

LEMMA SheetFails ==
    ASSUME PartsAssumption, SheetInv, NEW c \in Caller,
           UNCHANGED <<sheet, gone, row>>,
           fetching' = [fetching EXCEPT ![c] = CC!Idle]
    PROVE  SheetInv'
<1>0. SheetType  BY DEF SheetInv
<1>1. CC!Idle \in [at : {"idle", "fetching", "fetched"},
                   age : 0 .. CharTTL, had : 0 .. sheet, got : 0 .. sheet]
  BY <1>0, SheetNumbers DEF CC!Idle
<1>2. fetching'[c] = CC!Idle  BY <1>0 DEF SheetType
<1>3. ~Calls(c)' /\ ~Fetched(c)'  BY <1>2 DEF Calls, Fetched, CC!Idle
<1>4. CallHonest(c)'  BY <1>2, <1>3, <1>0, SheetNumbers DEF CallHonest, CC!Idle
<1>5. \A d \in Caller : Overlap(c, d)' /\ Overlap(d, c)'  BY <1>3 DEF Overlap
<1>6. CC!Idle.at = "idle"  BY DEF CC!Idle
<1> QED  BY <1>1, <1>3, <1>4, <1>5, <1>6, SheetCall

\* What an answered call has to show of the row it leaves.
LEMMA SheetAnswered ==
    ASSUME PartsAssumption, SheetInv, UNCHANGED <<sheet, gone>>,
           NEW c \in Caller, fetching' = [fetching EXCEPT ![c] = CC!Idle],
           row' \in [version : 0 .. sheet, age : 0 .. CharTTL + 1],
           CC!StampHonest',
           \A d \in Caller : Calls(d) =>
              /\ row'.version # 0 => row'.version >= fetching[d].had
              /\ 2 * row'.age <= 2 * fetching[d].age + CharTTL
                 \/ (row'.age = row.age /\ row'.version = row.version)
    PROVE  SheetInv'
<1>0. SheetType  BY DEF SheetInv
<1>1. CC!Idle \in [at : {"idle", "fetching", "fetched"},
                   age : 0 .. CharTTL, had : 0 .. sheet, got : 0 .. sheet]
  BY <1>0, SheetNumbers DEF CC!Idle
<1>2. fetching'[c] = CC!Idle  BY <1>0 DEF SheetType
<1>3. ~Calls(c)' /\ ~Fetched(c)'  BY <1>2 DEF Calls, Fetched, CC!Idle
<1>4. CC!Idle.at = "idle" /\ CC!Idle.age = 0  BY DEF CC!Idle
<1>5. \A d \in Caller : d # c => fetching'[d] = fetching[d]  BY <1>0 DEF SheetType
<1>6. SheetType'  BY <1>0, <1>1, <1>4 DEF SheetType
<1>7. NotGone'  BY DEF SheetInv, NotGone
<1>8. ASSUME NEW d \in Caller
      PROVE  CallHonest(d)' /\ (Calls(d)' => RowAfter(d)')
  <2>1. CASE d = c
    BY <1>0, <1>2, <1>3, <1>4, <2>1, SheetNumbers DEF CallHonest
  <2>2. CASE d # c
    <3>1. fetching'[d] = fetching[d]  BY <1>5, <2>2
    <3>2. CallHonest(d) /\ (Calls(d) => RowAfter(d))  BY DEF SheetInv
    <3>3. CallHonest(d)'  BY <3>1, <3>2 DEF CallHonest, Fetched
    <3>4. Calls(d)' => RowAfter(d)'  BY <3>1, <3>2 DEF RowAfter, Calls, Fetched
    <3> QED  BY <3>3, <3>4
  <2> QED  BY <2>1, <2>2
<1>9. ASSUME NEW b \in Caller, NEW d \in Caller
      PROVE  Overlap(b, d)'
  <2>1. CASE b = c \/ d = c  BY <1>3, <2>1 DEF Overlap
  <2>2. CASE b # c /\ d # c
    <3>1. fetching'[b] = fetching[b] /\ fetching'[d] = fetching[d]  BY <1>5, <2>2
    <3>2. Overlap(b, d)  BY DEF SheetInv
    <3> QED  BY <3>1, <3>2 DEF Overlap, Calls, Fetched
  <2> QED  BY <2>1, <2>2
<1> QED  BY <1>6, <1>7, <1>8, <1>9 DEF SheetInv

\* The etag of a row that was read stamps whatever row is there: it is no older.
LEMMA SheetEtagMatch ==
    ASSUME PartsAssumption, SheetInv, NEW c \in Caller, CC!EtagMatch(c)
    PROVE  SheetInv'
<1>0. SheetType  BY DEF SheetInv
<1>1. /\ UNCHANGED <<sheet, gone>> /\ fetching[c].at = "fetched"
      /\ fetching[c].got = fetching[c].had
      /\ row' = IF row.version = 0 THEN row ELSE [row EXCEPT !.age = fetching[c].age]
      /\ fetching' = [fetching EXCEPT ![c] = CC!Idle]
  BY DEF CC!EtagMatch, CC!Set
<1>2. Fetched(c) /\ Calls(c)  BY <1>0, <1>1, SheetNumbers DEF Fetched
<1>3. CallHonest(c) /\ RowAfter(c)  BY <1>2 DEF SheetInv
<1>4. CASE row.version = 0
  <2>1. row' = row  BY <1>1, <1>4
  <2>2. row' \in [version : 0 .. sheet, age : 0 .. CharTTL + 1]
    BY <1>0, <2>1 DEF SheetType
  <2>3. CC!StampHonest'  BY <1>4, <2>1 DEF CC!StampHonest
  <2> QED  BY <1>1, <1>4, <2>1, <2>2, <2>3, SheetAnswered
<1>5. CASE row.version # 0
  <2>1. row' = [version |-> row.version, age |-> fetching[c].age]
    <3>1. row' = [row EXCEPT !.age = fetching[c].age]  BY <1>1, <1>5
    <3>2. row \in [version : 0 .. sheet, age : 0 .. CharTTL + 1]  BY <1>0 DEF SheetType
    <3> QED  BY <3>1, <3>2
  <2>2. row' \in [version : 0 .. sheet, age : 0 .. CharTTL + 1]
    BY <1>0, <2>1, SheetNumbers
  <2>3. CC!StampHonest'
    <3>1. row.version >= fetching[c].got /\ row.version \in 1 .. MaxVersions
      BY <1>0, <1>1, <1>3, <1>5, SheetNumbers DEF RowAfter, SheetType
    <3>2. gone[row.version] <= fetching[c].age
      BY <1>2, <1>3, <3>1 DEF CallHonest
    <3> QED  BY <1>1, <2>1, <3>2 DEF CC!StampHonest
  <2>4. ASSUME NEW d \in Caller, Calls(d)
        PROVE  /\ row'.version # 0 => row'.version >= fetching[d].had
               /\ 2 * row'.age <= 2 * fetching[d].age + CharTTL
    <3>1. row.version >= fetching[d].had  BY <1>5, <2>4 DEF SheetInv, RowAfter
    <3>2. 2 * fetching[c].age <= CharTTL  BY <1>3 DEF CallHonest
    <3>3. fetching[c].age \in Nat /\ fetching[d].age \in Nat /\ CharTTL \in Nat
      BY <1>0, SheetNumbers
    <3>4. 2 * fetching[c].age <= 2 * fetching[d].age + CharTTL
      BY <3>2, <3>3, Halves
    <3> QED  BY <2>1, <3>1, <3>4
  <2> QED  BY <1>1, <2>2, <2>3, <2>4, SheetAnswered
<1> QED  BY <1>4, <1>5

\* What a call got replaces the row, and nobody has found a newer one.
LEMMA SheetMiss ==
    ASSUME PartsAssumption, SheetInv, NEW c \in Caller, CC!Miss(c)
    PROVE  SheetInv'
<1>0. SheetType  BY DEF SheetInv
<1>1. /\ UNCHANGED <<sheet, gone>> /\ fetching[c].at = "fetched"
      /\ row' = [version |-> fetching[c].got, age |-> fetching[c].age]
      /\ fetching' = [fetching EXCEPT ![c] = CC!Idle]
  BY DEF CC!Miss, CC!Set
<1>2. Fetched(c)  BY <1>1 DEF Fetched
<1>3. CallHonest(c)  BY DEF SheetInv
<1>4. row' \in [version : 0 .. sheet, age : 0 .. CharTTL + 1]
  BY <1>0, <1>1, SheetNumbers
<1>5. CC!StampHonest'
  <2>1. fetching[c].got \in 1 .. MaxVersions
    <3>1. fetching[c].got # 0  BY <1>2, <1>3 DEF CallHonest
    <3>2. fetching[c].got \in 0 .. sheet  BY <1>0, SheetNumbers
    <3>3. sheet \in 1 .. MaxVersions /\ MaxVersions \in Nat
      BY <1>0, SheetNumbers DEF SheetType
    <3> QED  BY <3>1, <3>2, <3>3
  <2>2. gone[fetching[c].got] <= fetching[c].age
    BY <1>2, <1>3, <2>1 DEF CallHonest
  <2> QED  BY <1>1, <2>2 DEF CC!StampHonest
<1>6. ASSUME NEW d \in Caller, Calls(d)
      PROVE  /\ row'.version # 0 => row'.version >= fetching[d].had
             /\ 2 * row'.age <= 2 * fetching[d].age + CharTTL
                \/ (row'.age = row.age /\ row'.version = row.version)
  <2>1. fetching[d].had <= fetching[c].got  BY <1>2, <1>6 DEF SheetInv, Overlap
  <2>2. fetching[c].got >= fetching[d].had  BY <1>0, <2>1, SheetNumbers
  <2>3. 2 * fetching[c].age <= CharTTL  BY <1>3 DEF CallHonest
  <2>4. fetching[c].age \in Nat /\ fetching[d].age \in Nat /\ CharTTL \in Nat
    BY <1>0, SheetNumbers
  <2>5. 2 * fetching[c].age <= 2 * fetching[d].age + CharTTL
    BY <2>3, <2>4, Halves
  <2>6. row'.version = fetching[c].got /\ row'.age = fetching[c].age  BY <1>1
  <2> QED  BY <2>2, <2>5, <2>6
<1> QED  BY <1>1, <1>4, <1>5, <1>6, SheetAnswered

LEMMA SheetInvalidate ==
    ASSUME PartsAssumption, SheetInv, CC!Invalidate
    PROVE  SheetInv'
<1>0. SheetType  BY DEF SheetInv
<1>1. UNCHANGED <<sheet, gone, fetching>> /\ row' = [version |-> 0, age |-> 0]
  BY DEF CC!Invalidate, CC!NoRow
<1>2. SheetType'  BY <1>0, <1>1, SheetNumbers DEF SheetType
<1>3. NotGone' /\ CC!StampHonest'  BY <1>1 DEF SheetInv, NotGone, CC!StampHonest
<1>4. ASSUME NEW c \in Caller
      PROVE  CallHonest(c)' /\ RowAfter(c)'
  <2>1. CallHonest(c)  BY DEF SheetInv
  <2>2. ~(0 > fetching[c].got)  BY <1>0, SheetNumbers
  <2> QED  BY <1>1, <2>1, <2>2 DEF CallHonest, RowAfter, Fetched
<1>5. \A b \in Caller, c \in Caller : Overlap(b, c)'
  BY <1>1 DEF SheetInv, Overlap, Calls, Fetched
<1> QED  BY <1>2, <1>3, <1>4, <1>5 DEF SheetInv

LEMMA SheetRestart ==
    ASSUME PartsAssumption, SheetInv, CC!Restart
    PROVE  SheetInv'
<1>0. SheetType  BY DEF SheetInv
<1>1. UNCHANGED <<sheet, gone, row>> /\ fetching' = [c \in Caller |-> CC!Idle]
  BY DEF CC!Restart
<1>2. CC!Idle \in [at : {"idle", "fetching", "fetched"},
                   age : 0 .. CharTTL, had : 0 .. sheet, got : 0 .. sheet]
  BY <1>0, SheetNumbers DEF CC!Idle
<1>3. CC!Idle.at = "idle" /\ CC!Idle.age = 0  BY DEF CC!Idle
<1>4. SheetType'  BY <1>0, <1>1, <1>2, <1>3 DEF SheetType
<1>5. NotGone' /\ CC!StampHonest'  BY <1>1 DEF SheetInv, NotGone, CC!StampHonest
<1>6. ASSUME NEW c \in Caller
      PROVE  CallHonest(c)' /\ ~Calls(c)' /\ ~Fetched(c)'
  BY <1>0, <1>1, <1>3, SheetNumbers DEF CallHonest, Calls, Fetched
<1> QED  BY <1>4, <1>5, <1>6 DEF SheetInv, Overlap

LEMMA SheetNewVersion ==
    ASSUME PartsAssumption, SheetInv, CC!NewVersion
    PROVE  SheetInv'
<1>0. SheetType  BY DEF SheetInv
<1>1. UNCHANGED <<gone, row, fetching>> /\ sheet' = sheet + 1 /\ sheet < MaxVersions
  BY DEF CC!NewVersion
<1>2. 0 .. sheet \subseteq 0 .. sheet' /\ sheet' \in 1 .. MaxVersions
  BY <1>0, <1>1, SheetNumbers
<1>3. row' \in [version : 0 .. sheet', age : 0 .. CharTTL + 1]
  BY <1>0, <1>1, <1>2 DEF SheetType
<1>4. fetching' \in [Caller -> [at : {"idle", "fetching", "fetched"},
                                age : 0 .. CharTTL, had : 0 .. sheet', got : 0 .. sheet']]
  BY <1>0, <1>1, <1>2 DEF SheetType
<1>5. SheetType'  BY <1>0, <1>1, <1>2, <1>3, <1>4 DEF SheetType
<1>6. NotGone'
  <2>1. \A v \in 1 .. MaxVersions : v >= sheet + 1 => v >= sheet
    BY <1>0, SheetNumbers
  <2> QED  BY <1>1, <2>1 DEF SheetInv, NotGone
<1>7. CC!StampHonest'  BY <1>1 DEF SheetInv, CC!StampHonest
<1>8. \A c \in Caller : CallHonest(c)' /\ (Calls(c)' => RowAfter(c)')
  BY <1>1 DEF SheetInv, CallHonest, RowAfter, Calls, Fetched
<1>9. \A b \in Caller, c \in Caller : Overlap(b, c)'
  BY <1>1 DEF SheetInv, Overlap, Calls, Fetched
<1> QED  BY <1>5, <1>6, <1>7, <1>8, <1>9 DEF SheetInv

\* Time passes for all alike.
LEMMA SheetTick ==
    ASSUME PartsAssumption, SheetInv, CC!Tick
    PROVE  SheetInv'
<1>0. SheetType  BY DEF SheetInv
<1>a. /\ CharTTL \in Nat /\ MaxVersions \in Nat /\ sheet \in Nat
      /\ row.version \in 0 .. sheet /\ row.age \in 0 .. CharTTL + 1
  BY <1>0, SheetNumbers
<1>b. ASSUME NEW a \in 0 .. CharTTL + 1
      PROVE  /\ CC!Older(a) \in 0 .. CharTTL + 1
             /\ a <= CC!Older(a) /\ CC!Older(a) <= a + 1
  BY <1>a DEF CC!Older
<1>1. sheet' = sheet  BY DEF CC!Tick
<1>2. \A c \in Caller : 2 * (fetching[c].age + 1) <= CharTTL
  BY DEF CC!Tick
<1>3. ASSUME NEW v \in 1 .. MaxVersions
      PROVE  /\ gone'[v] = IF v < sheet THEN CC!Older(gone[v]) ELSE 0
             /\ gone[v] \in 0 .. CharTTL + 1 /\ gone'[v] \in 0 .. CharTTL + 1
             /\ gone'[v] <= gone[v] + 1
  <2>1. gone'[v] = IF v < sheet THEN CC!Older(gone[v]) ELSE 0
    BY DEF CC!Tick, CC!Version
  <2>2. gone[v] \in 0 .. CharTTL + 1  BY <1>0 DEF SheetType
  <2>3. CC!Older(gone[v]) \in 0 .. CharTTL + 1 /\ CC!Older(gone[v]) <= gone[v] + 1
    BY <2>2, <1>b
  <2>4. 0 \in 0 .. CharTTL + 1 /\ 0 <= gone[v] + 1
    <3>1. CharTTL \in Nat  BY <1>a
    <3> QED  BY <3>1, <2>2
  <2> QED  BY <2>1, <2>2, <2>3, <2>4
<1>4. /\ row'.version = row.version
      /\ row'.age \in 0 .. CharTTL + 1 /\ row'.age <= row.age + 1
      /\ row.version # 0 => row'.age = CC!Older(row.age)
      /\ row' = [version |-> row'.version, age |-> row'.age]
  <2>1. CASE row.version = 0
    <3>1. row' = row  BY <2>1 DEF CC!Tick
    <3> QED  BY <3>1, <2>1, <1>a, <1>0, SheetNumbers
  <2>2. CASE row.version # 0
    <3>1. row' = [row EXCEPT !.age = CC!Older(row.age)]  BY <2>2 DEF CC!Tick
    <3>2. row' = [version |-> row.version, age |-> CC!Older(row.age)]
      BY <3>1, <1>0 DEF SheetType
    <3> QED  BY <3>2, <1>a, <1>b
  <2> QED  BY <2>1, <2>2
<1>5. ASSUME NEW c \in Caller
      PROVE  /\ fetching'[c] \in [at : {"idle", "fetching", "fetched"},
                        age : 0 .. CharTTL, had : 0 .. sheet, got : 0 .. sheet]
             /\ fetching'[c].at = fetching[c].at
             /\ fetching'[c].had = fetching[c].had /\ fetching'[c].got = fetching[c].got
             /\ fetching'[c].at = "idle" <=> fetching'[c] = CC!Idle
             /\ Calls(c)' <=> Calls(c)
             /\ Calls(c) => fetching'[c].age = fetching[c].age + 1
             /\ ~Calls(c) => fetching'[c].age = 0
  <2>0. fetching[c].at = "idle" <=> fetching[c] = CC!Idle  BY <1>0 DEF SheetType
  <2>1. CASE fetching[c] = CC!Idle
    <3>1. fetching'[c] = CC!Idle  BY <2>1 DEF CC!Tick
    <3> QED  BY <3>1, <2>1, <1>a DEF Calls, CC!Idle
  <2>2. CASE fetching[c] # CC!Idle
    <3>1. fetching'[c] = [fetching[c] EXCEPT !.age = CC!Older(fetching[c].age)]
      BY <2>2 DEF CC!Tick
    <3>2. fetching[c].age \in 0 .. CharTTL  BY <1>0, SheetNumbers
    <3>3. fetching[c].age + 1 \in 0 .. CharTTL
      <4>1. 2 * (fetching[c].age + 1) <= CharTTL  BY <1>2
      <4>2. fetching[c].age \in Nat /\ CharTTL \in Nat  BY <3>2, <1>a
      <4> QED  BY <4>1, <4>2, Halves
    <3>4. CC!Older(fetching[c].age) = fetching[c].age + 1
      BY <3>2, <1>a DEF CC!Older
    <3>5. fetching[c] \in [at : {"idle", "fetching", "fetched"},
                        age : 0 .. CharTTL, had : 0 .. sheet, got : 0 .. sheet]
      BY <1>0 DEF SheetType
    <3>6. fetching'[c] = [fetching[c] EXCEPT !.age = fetching[c].age + 1]
      BY <3>1, <3>4
    <3>7. fetching'[c].at # "idle"  BY <3>5, <3>6, <2>0, <2>2
    <3>8. fetching'[c] # CC!Idle  BY <3>7 DEF CC!Idle
    <3> QED  BY <3>3, <3>5, <3>6, <3>7, <3>8, <2>2 DEF Calls
  <2> QED  BY <2>1, <2>2
<1>6. SheetType'
  <2>1. gone' = [v \in 1 .. MaxVersions |-> gone'[v]]  BY DEF CC!Tick, CC!Version
  <2>2. gone' \in [1 .. MaxVersions -> 0 .. CharTTL + 1]  BY <1>3, <2>1
  <2>3. fetching' = [c \in Caller |-> fetching'[c]]  BY DEF CC!Tick
  <2>4. fetching' \in [Caller -> [at : {"idle", "fetching", "fetched"},
                        age : 0 .. CharTTL, had : 0 .. sheet, got : 0 .. sheet]]
    BY <1>5, <2>3
  <2>5. row' \in [version : 0 .. sheet, age : 0 .. CharTTL + 1]  BY <1>4, <1>a
  <2>6. sheet \in 1 .. MaxVersions  BY <1>0 DEF SheetType
  <2> QED  BY <1>1, <1>5, <2>2, <2>4, <2>5, <2>6 DEF SheetType
<1>7. NotGone'
  <2>1. \A v \in 1 .. MaxVersions : v >= sheet => ~(v < sheet)  BY <1>a
  <2> QED  BY <1>1, <1>3, <2>1 DEF NotGone
<1>8. CC!StampHonest'
  <2>1. CASE row.version = 0  BY <2>1, <1>4 DEF CC!StampHonest
  <2>2. CASE row.version # 0
    <3>1. row.version \in 1 .. MaxVersions  BY <2>2, <1>a, <1>0 DEF SheetType
    <3>2. gone[row.version] <= row.age  BY <2>2 DEF SheetInv, CC!StampHonest
    <3>3. gone'[row.version] <= CC!Older(row.age)
      <4>1. gone[row.version] \in 0 .. CharTTL + 1  BY <3>1, <1>3
      <4>2. CC!Older(gone[row.version]) <= CC!Older(row.age)
        BY <4>1, <3>2, <1>a DEF CC!Older
      <4>3. 0 <= CC!Older(row.age)  BY <1>a DEF CC!Older
      <4> QED  BY <4>2, <4>3, <3>1, <1>3
    <3> QED  BY <3>3, <2>2, <1>4 DEF CC!StampHonest
  <2> QED  BY <2>1, <2>2
<1>9. ASSUME NEW c \in Caller
      PROVE  CallHonest(c)' /\ (Calls(c)' => RowAfter(c)')
  <2>1. CallHonest(c) /\ (Calls(c) => RowAfter(c))  BY DEF SheetInv
  <2>2. fetching[c].age \in 0 .. CharTTL /\ fetching[c].got \in Nat
    BY <1>0, SheetNumbers
  <2>3. 2 * fetching'[c].age <= CharTTL
    <3>1. CASE Calls(c)
      <4>1. fetching'[c].age = fetching[c].age + 1  BY <1>5, <3>1
      <4> QED  BY <1>2, <4>1
    <3>2. CASE ~Calls(c)
      <4>1. fetching'[c].age = 0  BY <1>5, <3>2
      <4> QED  BY <1>a, <4>1
    <3> QED  BY <3>1, <3>2
  <2>4. Fetched(c)' => Fetched(c) /\ Calls(c)  BY <1>0, <1>5, SheetNumbers DEF Fetched
  <2>5. Fetched(c)' => /\ fetching'[c].got # 0
                       /\ \A v \in 1 .. MaxVersions :
                             v >= fetching'[c].got => gone'[v] <= fetching'[c].age
    <3> SUFFICES ASSUME Fetched(c)'
                 PROVE  /\ fetching'[c].got # 0
                        /\ \A v \in 1 .. MaxVersions :
                              v >= fetching'[c].got => gone'[v] <= fetching'[c].age
      OBVIOUS
    <3>1. /\ fetching[c].got # 0
          /\ \A v \in 1 .. MaxVersions : v >= fetching[c].got => gone[v] <= fetching[c].age
      BY <2>1, <2>4 DEF CallHonest
    <3>2. fetching'[c].got = fetching[c].got /\ fetching'[c].age = fetching[c].age + 1
      BY <1>5, <2>4
    <3>3. ASSUME NEW v \in 1 .. MaxVersions, v >= fetching[c].got
          PROVE  gone'[v] <= fetching[c].age + 1
      <4>1. gone[v] <= fetching[c].age  BY <3>1, <3>3
      <4>2. gone'[v] <= gone[v] + 1 /\ gone[v] \in Nat /\ gone'[v] \in Nat
        BY <1>3, <1>a
      <4>3. fetching[c].age \in Nat  BY <2>2
      <4> QED  BY <4>1, <4>2, <4>3
    <3> QED  BY <3>1, <3>2, <3>3
  <2>6. CallHonest(c)'  BY <1>1, <2>3, <2>5 DEF CallHonest
  <2>7. ASSUME Calls(c)'
        PROVE  RowAfter(c)'
    <3>1. RowAfter(c) /\ fetching'[c].age = fetching[c].age + 1  BY <2>1, <2>7, <1>5
    <3>2. row'.version # 0 => row'.version >= fetching'[c].had
      BY <3>1, <1>4, <1>5 DEF RowAfter
    <3>3. ASSUME Fetched(c)', row'.version > fetching'[c].got
          PROVE  2 * row'.age <= 2 * fetching'[c].age + CharTTL
      <4>1. 2 * row.age <= 2 * fetching[c].age + CharTTL
        BY <3>1, <3>3, <2>4, <1>4, <1>5 DEF RowAfter
      <4>2. /\ row'.age \in Nat /\ row.age \in Nat /\ CharTTL \in Nat
            /\ row'.age <= row.age + 1
        BY <1>4, <1>a
      <4>3. fetching[c].age \in Nat  BY <2>2
      <4>4. 2 * row'.age <= 2 * (fetching[c].age + 1) + CharTTL
        BY <4>1, <4>2, <4>3, Halves
      <4> QED  BY <4>4, <3>1
    <3> QED  BY <3>2, <3>3 DEF RowAfter
  <2> QED  BY <2>6, <2>7
<1>10. ASSUME NEW b \in Caller, NEW c \in Caller
       PROVE  Overlap(b, c)'
  <2>1. Overlap(b, c)  BY DEF SheetInv
  <2> QED  BY <2>1, <1>5 DEF Overlap, Fetched
<1> QED  BY <1>6, <1>7, <1>8, <1>9, <1>10 DEF SheetInv

LEMMA SheetNext ==
    PartsAssumption /\ SheetInv /\ [CC!Next]_CC!vars => SheetInv'
<1> SUFFICES ASSUME PartsAssumption, SheetInv, [CC!Next]_CC!vars
             PROVE  SheetInv'
  OBVIOUS
<1>1. ASSUME NEW c \in Caller, CC!Fails(c)
      PROVE  SheetInv'
  BY <1>1, SheetFails DEF CC!Fails, CC!Set
<1>2. ASSUME NEW c \in Caller,
             CC!Lookup(c) \/ CC!Fetch(c) \/ CC!EtagMatch(c) \/ CC!Miss(c)
      PROVE  SheetInv'
  BY <1>2, SheetLookup, SheetFetch, SheetEtagMatch, SheetMiss
<1>3. CASE CC!Invalidate \/ CC!Restart \/ CC!NewVersion \/ CC!Tick
  BY <1>3, SheetInvalidate, SheetRestart, SheetNewVersion, SheetTick
<1>4. CASE UNCHANGED CC!vars
  <2>1. UNCHANGED <<sheet, gone, row, fetching>>  BY <1>4 DEF CC!vars
  <2>2. SheetType' /\ NotGone' /\ CC!StampHonest'
    BY <2>1 DEF SheetInv, SheetType, NotGone, CC!StampHonest
  <2>3. \A c \in Caller : CallHonest(c)' /\ (Calls(c)' => RowAfter(c)')
    BY <2>1 DEF SheetInv, CallHonest, RowAfter, Calls, Fetched
  <2>4. \A b \in Caller, c \in Caller : Overlap(b, c)'
    BY <2>1 DEF SheetInv, Overlap, Calls, Fetched
  <2> QED  BY <2>2, <2>3, <2>4 DEF SheetInv
<1> QED  BY <1>1, <1>2, <1>3, <1>4 DEF CC!Next

-----------------------------------------------------------------------------
(* The responses of dm20: ResponseCache. *)

Memo == [key : Key, age : 0 .. TTL1 + 1, val : RC!Value]

\* Keys that an invalidation has not cleared for good, or not yet.
Uncleared == torn \cup wipe

\* What a hit in memory would return is no older than both times to live allow, and
\* known if it was invalidated; so is a row, and what a call has in hand.
EntryHonest(e) ==
    e.age <= TTL1 => e.val.born <= e.age + TTL2 /\ (e.val.old => e.key \in Uncleared)
RowHonest(k) ==
    l2[k].age <= TTL2
       => l2[k].val.born <= l2[k].age /\ (l2[k].val.old => k \in Uncleared)
HandHonest(c) ==
    /\ call[c].at = "idle" => call[c] = RC!Idle
    /\ call[c].at # "idle" /\ call[c].val.old => call[c].key \in Uncleared
    /\ call[c].val.born <= IF call[c].at = "promoting" THEN TTL2 ELSE 0

EntriesHonest == \A i \in 1 .. Len(l1) : EntryHonest(l1[i])

CacheType ==
    /\ l1 \in Seq(Memo) /\ Len(l1) <= Size1
    /\ l2 \in [Key -> [age : 0 .. TTL2 + 1, val : RC!Value]]
    /\ l2conn \in BOOLEAN
    /\ call \in [Caller -> [at : {"idle", "second", "promoting", "asking", "storing"},
                            key : Key, val : RC!Value]]
    /\ wipe \subseteq Key /\ torn \subseteq Key

CacheInv ==
    /\ CacheType /\ EntriesHonest
    /\ \A k \in Key : RowHonest(k)
    /\ \A c \in Caller : HandHonest(c)

\* What an entry, a row and a call are made of.
LEMMA CacheValues ==
    ASSUME PartsAssumption
    PROVE  /\ TTL1 \in Nat /\ TTL2 \in Nat /\ Size1 \in Nat
           /\ RC!AnyKey \in Key /\ RC!Fresh \in RC!Value
           /\ RC!Fresh.born = 0 /\ RC!Fresh.old = FALSE
           /\ RC!NoRow \in [age : 0 .. TTL2 + 1, val : RC!Value]
           /\ RC!NoRow.age = TTL2 + 1 /\ RC!NoRow.val = RC!Fresh
           /\ RC!Idle.at = "idle" /\ RC!Idle.key = RC!AnyKey /\ RC!Idle.val = RC!Fresh
           /\ RC!Idle \in [at : {"idle"}, key : Key, val : RC!Value]
<1>1. TTL1 \in Nat /\ TTL2 \in Nat /\ Size1 \in Nat /\ Key # {}  BY DEF PartsAssumption, CacheConstants
<1>2. RC!AnyKey \in Key  BY <1>1 DEF RC!AnyKey
<1>3. 0 \in 0 .. RC!Oldest  BY <1>1 DEF RC!Oldest
<1>4. RC!Fresh \in RC!Value /\ RC!Fresh.born = 0 /\ RC!Fresh.old = FALSE
  BY <1>3 DEF RC!Fresh, RC!Value
<1>5. TTL2 + 1 \in 0 .. TTL2 + 1  BY <1>1
<1> QED  BY <1>1, <1>2, <1>4, <1>5 DEF RC!NoRow, RC!Idle

\* What is left in memory without the entries of some keys.
LEMMA CacheWithout ==
    ASSUME CacheType, NEW K
    PROVE  /\ RC!Without(K) \in Seq(Memo) /\ Len(RC!Without(K)) <= Len(l1)
           /\ (\E i \in 1 .. Len(l1) : l1[i].key \in K) => Len(RC!Without(K)) < Len(l1)
           /\ \A j \in 1 .. Len(RC!Without(K)) : \E i \in 1 .. Len(l1) :
                 RC!Without(K)[j] = l1[i] /\ l1[i].key \notin K
<1> DEFINE I == {i \in 1 .. Len(l1) : l1[i].key \notin K}
           t == SelectAt(l1, I)
<1>1. RC!Without(K) = t  BY DEF RC!Without, RC!SelectAt, SelectAt
<1>2. l1 \in Seq(Memo)  BY DEF CacheType
<1>3. IsTaken(t, Memo, l1, I, Len(l1))  BY <1>2, SelectAtTaken
<1> HIDE DEF t
<1>4. PICK pos : Taken(t, l1, I, Len(l1), pos)  BY <1>3 DEF IsTaken
<1>5. \A j \in 1 .. Len(t) : pos[j] \in (1 .. Len(l1)) \cap I /\ t[j] = l1[pos[j]]
  BY <1>4 DEF Taken
<1>6. t \in Seq(Memo) /\ Len(t) <= Len(l1)
  BY <1>3 DEF IsTaken
<1>7. (\E i \in 1 .. Len(l1) : l1[i].key \in K) => Len(t) < Len(l1)
  BY <1>3 DEF IsTaken
<1> QED  BY <1>1, <1>5, <1>6, <1>7

\* A new entry at the end; the first one makes room.
LEMMA CacheAppend ==
    ASSUME NEW s \in Seq(Memo), NEW e \in Memo
    PROVE  /\ Append(s, e) \in Seq(Memo) /\ Len(Append(s, e)) = Len(s) + 1
           /\ \A j \in 1 .. Len(s) + 1 :
                 Append(s, e)[j] = IF j = Len(s) + 1 THEN e ELSE s[j]
  OBVIOUS

LEMMA CacheTail ==
    ASSUME NEW s \in Seq(Memo), Len(s) > 0
    PROVE  /\ Tail(s) \in Seq(Memo) /\ Len(Tail(s)) = Len(s) - 1
           /\ \A j \in 1 .. Len(s) - 1 : Tail(s)[j] = s[j + 1]
<1>1. s # <<>>  OBVIOUS
<1> QED  BY <1>1

LEMMA CachePut ==
    ASSUME PartsAssumption, CacheType, NEW k \in Key, NEW v \in RC!Value, RC!Put1(k, v)
    PROVE  /\ l1' \in Seq(Memo) /\ Len(l1') <= Size1
           /\ \A j \in 1 .. Len(l1') :
                 \/ l1'[j] = [key |-> k, age |-> 0, val |-> v]
                 \/ \E i \in 1 .. Len(l1) : l1'[j] = l1[i]
<1> DEFINE e == [key |-> k, age |-> 0, val |-> v]
           o == RC!Others(k)
           s == Append(o, e)
<1>1. l1' = IF Len(s) > Size1 THEN Tail(s) ELSE s  BY DEF RC!Put1
<1>2. /\ o \in Seq(Memo) /\ Len(o) <= Len(l1)
      /\ \A j \in 1 .. Len(o) : \E i \in 1 .. Len(l1) : o[j] = l1[i]
  <2> DEFINE w == RC!Without({k})
  <2>1. /\ w \in Seq(Memo) /\ Len(w) <= Len(l1)
        /\ \A j \in 1 .. Len(w) : \E i \in 1 .. Len(l1) :
              w[j] = l1[i] /\ l1[i].key \notin {k}
    BY CacheWithout, Zenon
  <2>2. o = w  BY DEF RC!Others
  <2> HIDE DEF o, w
  <2> QED  BY <2>1, <2>2
<1>3. e \in Memo  BY CacheValues DEF Memo
<1>4. /\ s \in Seq(Memo) /\ Len(s) = Len(o) + 1
      /\ \A j \in 1 .. Len(o) + 1 : s[j] = IF j = Len(o) + 1 THEN e ELSE o[j]
  BY <1>2, <1>3, CacheAppend
<1>5. Len(o) \in Nat /\ Size1 \in Nat /\ Len(l1) \in Nat /\ Len(l1) <= Size1
  BY <1>2, CacheValues DEF CacheType
<1> HIDE DEF e, o, s
<1>6. ASSUME NEW j \in 1 .. Len(s)
      PROVE  s[j] = e \/ \E i \in 1 .. Len(l1) : s[j] = l1[i]
  <2>1. j = Len(o) + 1 \/ j \in 1 .. Len(o)  BY <1>4, <1>5
  <2> QED  BY <2>1, <1>2, <1>4, <1>5
<1>7. CASE Len(s) > Size1
  <2>1. /\ Tail(s) \in Seq(Memo) /\ Len(Tail(s)) = Len(s) - 1
        /\ \A j \in 1 .. Len(s) - 1 : Tail(s)[j] = s[j + 1]
    BY <1>4, <1>5, CacheTail
  <2>2. Len(Tail(s)) <= Size1  BY <2>1, <1>2, <1>4, <1>5
  <2>3. \A j \in 1 .. Len(s) - 1 : j + 1 \in 1 .. Len(s)  BY <1>4, <1>5
  <2> QED  BY <1>1, <1>6, <1>7, <2>1, <2>2, <2>3 DEF e
<1>8. CASE ~(Len(s) > Size1)
  <2>1. Len(s) <= Size1  BY <1>4, <1>5, <1>8
  <2> QED  BY <1>1, <1>4, <1>6, <1>8, <2>1 DEF e
<1> QED  BY <1>7, <1>8

\* An entry that stays is honest while keys stay uncleared.
LEMMA CacheStays ==
    ASSUME EntriesHonest, Uncleared \subseteq Uncleared',
           \A j \in 1 .. Len(l1') : EntryHonest(l1[j])' \/ \E i \in 1 .. Len(l1) : l1'[j] = l1[i]
    PROVE  EntriesHonest'
  BY DEF EntriesHonest, EntryHonest

\* A call's step: the call, or its end, and nothing else that calls have in hand.
LEMMA CacheCall ==
    ASSUME CacheType, \A d \in Caller : HandHonest(d), Uncleared \subseteq Uncleared',
           NEW c \in Caller,
           NEW r \in [at : {"idle", "second", "promoting", "asking", "storing"},
                      key : Key, val : RC!Value],
           call' = [call EXCEPT ![c] = r],
           r.at = "idle" => r = RC!Idle,
           r.at # "idle" /\ r.val.old => r.key \in Uncleared',
           r.val.born <= IF r.at = "promoting" THEN TTL2 ELSE 0
    PROVE  /\ call' \in [Caller -> [at : {"idle", "second", "promoting", "asking", "storing"},
                                    key : Key, val : RC!Value]]
           /\ \A d \in Caller : HandHonest(d)'
<1>1. call \in [Caller -> [at : {"idle", "second", "promoting", "asking", "storing"},
                           key : Key, val : RC!Value]]
  BY DEF CacheType
<1>2. ASSUME NEW d \in Caller
      PROVE  HandHonest(d)'
  <2>1. CASE d = c
    <3>1. call'[d] = r  BY <1>1, <2>1
    <3> QED  BY <3>1 DEF HandHonest
  <2>2. CASE d # c
    <3>1. call'[d] = call[d]  BY <1>1, <2>2
    <3> QED  BY <3>1 DEF HandHonest
  <2> QED  BY <2>1, <2>2
<1> QED  BY <1>1, <1>2

\* An ended call.
LEMMA CacheEnd ==
    ASSUME PartsAssumption
    PROVE  /\ RC!Idle \in [at : {"idle", "second", "promoting", "asking", "storing"},
                           key : Key, val : RC!Value]
           /\ RC!Idle.at = "idle"
           /\ RC!Idle.val.born <= IF RC!Idle.at = "promoting" THEN TTL2 ELSE 0
<1>1. RC!Idle.at = "idle" /\ RC!Idle.val.born = 0  BY CacheValues
<1>2. RC!Idle \in [at : {"idle"}, key : Key, val : RC!Value]  BY CacheValues
<1>3. RC!Idle.val.born <= IF RC!Idle.at = "promoting" THEN TTL2 ELSE 0  BY <1>1
<1> QED  BY <1>1, <1>2, <1>3

\* A step that leaves the database and what is uncleared alone, or adds to it.
LEMMA CacheStep ==
    ASSUME CacheInv,
           l1' \in Seq(Memo), Len(l1') <= Size1, EntriesHonest',
           UNCHANGED <<l2, torn, wipe>>, l2conn' \in BOOLEAN,
           call' \in [Caller -> [at : {"idle", "second", "promoting", "asking", "storing"},
                                 key : Key, val : RC!Value]],
           \A c \in Caller : HandHonest(c)'
    PROVE  CacheInv'
<1>1. CacheType'  BY DEF CacheInv, CacheType
<1>2. \A k \in Key : RowHonest(k)'  BY DEF CacheInv, RowHonest, Uncleared
<1> QED  BY <1>1, <1>2 DEF CacheInv

\* A hit moves an entry to the end.
LEMMA CacheHit ==
    ASSUME PartsAssumption, CacheInv, NEW c \in Caller, NEW k \in Key, RC!Hit(c, k)
    PROVE  CacheInv'
<1> DEFINE w == RC!Without({k})
<1>0. CacheType  BY DEF CacheInv
<1>1. PICK h \in RC!Entry(k) : l1' = Append(RC!Others(k), l1[h])  BY DEF RC!Hit
<1>2. h \in 1 .. Len(l1) /\ l1[h].key = k  BY <1>1 DEF RC!Entry
<1>3. l1' = Append(w, l1[h])  BY <1>1 DEF RC!Others
<1>4. /\ w \in Seq(Memo) /\ Len(w) <= Len(l1)
      /\ (\E i \in 1 .. Len(l1) : l1[i].key \in {k}) => Len(w) < Len(l1)
      /\ \A j \in 1 .. Len(w) : \E i \in 1 .. Len(l1) :
            w[j] = l1[i] /\ l1[i].key \notin {k}
  BY <1>0, CacheWithout, Zenon
<1> HIDE DEF w
<1>5. Len(w) < Len(l1)  BY <1>2, <1>4
<1>6. l1[h] \in Memo  BY <1>0, <1>2 DEF CacheType
<1>7. /\ l1' \in Seq(Memo) /\ Len(l1') = Len(w) + 1
      /\ \A j \in 1 .. Len(w) + 1 : l1'[j] = IF j = Len(w) + 1 THEN l1[h] ELSE w[j]
  BY <1>3, <1>4, <1>6, CacheAppend
<1>8. /\ Len(w) \in Nat /\ Len(l1) \in Nat /\ Len(l1) <= Size1 /\ Size1 \in Nat
  BY <1>0, <1>4, CacheValues DEF CacheType
<1>9. Len(l1') <= Size1  BY <1>5, <1>7, <1>8
<1>10. \A j \in 1 .. Len(l1') : \E i \in 1 .. Len(l1) : l1'[j] = l1[i]
  <2> SUFFICES ASSUME NEW j \in 1 .. Len(l1')
               PROVE  \E i \in 1 .. Len(l1) : l1'[j] = l1[i]
    OBVIOUS
  <2>1. j = Len(w) + 1 \/ j \in 1 .. Len(w)  BY <1>7, <1>8
  <2> QED  BY <2>1, <1>2, <1>4, <1>7, <1>8
<1>11. UNCHANGED <<l2, l2conn, call, wipe, torn>>  BY DEF RC!Hit
<1>12. EntriesHonest'
  BY <1>10, <1>11, CacheStays DEF CacheInv, Uncleared
<1>13. /\ l2conn' \in BOOLEAN
       /\ call' \in [Caller -> [at : {"idle", "second", "promoting", "asking", "storing"},
                                key : Key, val : RC!Value]]
  BY <1>0, <1>11 DEF CacheType
<1>14. \A d \in Caller : HandHonest(d)'
  BY <1>11 DEF CacheInv, HandHonest, Uncleared
<1> QED  BY <1>7, <1>9, <1>11, <1>12, <1>13, <1>14, CacheStep

\* What is not found, or is past its time, is asked of the database.
LEMMA CacheMiss ==
    ASSUME PartsAssumption, CacheInv, NEW c \in Caller, NEW k \in Key, RC!Miss(c, k)
    PROVE  CacheInv'
<1> DEFINE w == RC!Without({k})
           r == [at |-> "second", key |-> k, val |-> RC!Fresh]
<1>0. CacheType  BY DEF CacheInv
<1>1. l1' = w  BY DEF RC!Miss, RC!Others
<1>2. /\ w \in Seq(Memo) /\ Len(w) <= Len(l1)
      /\ \A j \in 1 .. Len(w) : \E i \in 1 .. Len(l1) :
            w[j] = l1[i] /\ l1[i].key \notin {k}
  BY <1>0, CacheWithout, Zenon
<1> HIDE DEF w
<1>3. Len(l1') <= Size1
  BY <1>0, <1>1, <1>2, CacheValues DEF CacheType
<1>4. UNCHANGED <<l2, l2conn, wipe, torn>> /\ call' = [call EXCEPT ![c] = r]
  BY DEF RC!Miss, RC!Set
<1>5. EntriesHonest'
  BY <1>1, <1>2, <1>4, CacheStays DEF CacheInv, Uncleared
<1>6. /\ r \in [at : {"idle", "second", "promoting", "asking", "storing"},
                key : Key, val : RC!Value]
      /\ r.at = "second" /\ r.val.old = FALSE
      /\ r.val.born <= IF r.at = "promoting" THEN TTL2 ELSE 0
  <2>1. RC!Fresh \in RC!Value /\ RC!Fresh.born = 0 /\ RC!Fresh.old = FALSE
    BY CacheValues
  <2>2. 0 <= 0  OBVIOUS
  <2> QED  BY <2>1, <2>2
<1> HIDE DEF r
<1>7. /\ call' \in [Caller -> [at : {"idle", "second", "promoting", "asking", "storing"},
                               key : Key, val : RC!Value]]
      /\ \A d \in Caller : HandHonest(d)'
  <2>1. (\A d \in Caller : HandHonest(d)) /\ Uncleared' = Uncleared
    BY <1>4 DEF CacheInv, Uncleared
  <2> QED  BY <1>0, <1>4, <1>6, <2>1, CacheCall
<1>8. l2conn' \in BOOLEAN  BY <1>0, <1>4 DEF CacheType
<1> QED  BY <1>1, <1>2, <1>3, <1>4, <1>5, <1>7, <1>8, CacheStep

\* The database answers, and forgets a row past its time.
LEMMA CacheSecond ==
    ASSUME PartsAssumption, CacheInv, NEW c \in Caller, RC!Second(c)
    PROVE  CacheInv'
<1> DEFINE k == call[c].key
<1>0. CacheType  BY DEF CacheInv
<1>1. k \in Key /\ l2[k].val \in RC!Value /\ l2[k].age \in 0 .. TTL2 + 1
  BY <1>0 DEF CacheType
<1>2. /\ UNCHANGED <<l1, wipe, torn>> /\ l2conn' = TRUE
  BY DEF RC!Second
<1>3. l1' \in Seq(Memo) /\ Len(l1') <= Size1  BY <1>0, <1>2 DEF CacheType
<1>4. EntriesHonest'  BY <1>2 DEF CacheInv, EntriesHonest, EntryHonest, Uncleared
<1>5. \A d \in Caller : HandHonest(d)  BY DEF CacheInv
<1>6. Uncleared' = Uncleared  BY <1>2 DEF Uncleared
<1>7. CASE l2[k].age <= TTL2
  <2> DEFINE r == [at |-> "promoting", key |-> k, val |-> l2[k].val]
  <2>1. UNCHANGED l2 /\ call' = [call EXCEPT ![c] = r]  BY <1>7 DEF RC!Second, RC!Set
  <2>2. /\ r \in [at : {"idle", "second", "promoting", "asking", "storing"},
                  key : Key, val : RC!Value]
        /\ r.at = "promoting" /\ r.key = k /\ r.val = l2[k].val
    BY <1>1
  <2> HIDE DEF r, k
  <2>3. l2[k].val.born <= l2[k].age /\ (l2[k].val.old => k \in Uncleared)
    BY <1>1, <1>7 DEF CacheInv, RowHonest
  <2>4. l2[k].val.born <= TTL2
    <3>1. l2[k].val.born \in Nat /\ l2[k].age \in Nat /\ TTL2 \in Nat
      BY <1>1, CacheValues DEF RC!Value
    <3> QED  BY <3>1, <2>3, <1>7
  <2>5. /\ call' \in [Caller -> [at : {"idle", "second", "promoting", "asking", "storing"},
                                 key : Key, val : RC!Value]]
        /\ \A d \in Caller : HandHonest(d)'
    BY <1>0, <1>5, <1>6, <2>1, <2>2, <2>3, <2>4, CacheCall
  <2> QED  BY <1>2, <1>3, <1>4, <2>1, <2>5, CacheStep
<1>8. CASE ~(l2[k].age <= TTL2)
  <2> DEFINE r == [at |-> "asking", key |-> k, val |-> RC!Fresh]
  <2>1. l2' = [l2 EXCEPT ![k] = RC!NoRow] /\ call' = [call EXCEPT ![c] = r]
    BY <1>8 DEF RC!Second, RC!Set
  <2>2. /\ r \in [at : {"idle", "second", "promoting", "asking", "storing"},
                  key : Key, val : RC!Value]
        /\ r.at = "asking" /\ r.val.old = FALSE
        /\ r.val.born <= IF r.at = "promoting" THEN TTL2 ELSE 0
    <3>1. RC!Fresh \in RC!Value /\ RC!Fresh.born = 0 /\ RC!Fresh.old = FALSE
      BY CacheValues
    <3>2. 0 <= 0  OBVIOUS
    <3> QED  BY <1>1, <3>1, <3>2
  <2> HIDE DEF r
  <2>3. /\ call' \in [Caller -> [at : {"idle", "second", "promoting", "asking", "storing"},
                                 key : Key, val : RC!Value]]
        /\ \A d \in Caller : HandHonest(d)'
    BY <1>0, <1>5, <1>6, <2>1, <2>2, CacheCall
  <2>4. /\ l2' \in [Key -> [age : 0 .. TTL2 + 1, val : RC!Value]]
        /\ l2'[k] = RC!NoRow /\ \A q \in Key \ {k} : l2'[q] = l2[q]
    BY <1>0, <1>1, <2>1, CacheValues DEF CacheType
  <2> HIDE DEF k
  <2>5. ASSUME NEW q \in Key
        PROVE  RowHonest(q)'
    <3>1. CASE q = k
      <4>1. l2'[q].age = TTL2 + 1 /\ TTL2 \in Nat  BY <3>1, <2>4, CacheValues
      <4>2. ~(l2'[q].age <= TTL2)  BY <4>1
      <4> QED  BY <4>2 DEF RowHonest
    <3>2. CASE q # k
      <4>1. l2'[q] = l2[q] /\ RowHonest(q)  BY <3>2, <2>4 DEF CacheInv
      <4> QED  BY <4>1, <1>6 DEF RowHonest
    <3> QED  BY <3>1, <3>2
  <2>6. CacheType'  BY <1>0, <1>2, <1>3, <2>3, <2>4 DEF CacheType
  <2> QED  BY <1>4, <2>3, <2>5, <2>6 DEF CacheInv
<1> QED  BY <1>7, <1>8

\* A new entry in memory, for a value that is honest in hand.
LEMMA CachePutHonest ==
    ASSUME PartsAssumption, CacheInv, NEW c \in Caller, call[c].at # "idle",
           RC!Put1(call[c].key, call[c].val), UNCHANGED <<torn, wipe>>
    PROVE  l1' \in Seq(Memo) /\ Len(l1') <= Size1 /\ EntriesHonest'
<1> DEFINE k == call[c].key
           v == call[c].val
<1>1. CacheType /\ k \in Key /\ v \in RC!Value  BY DEF CacheInv, CacheType
<1>2. (v.old => k \in Uncleared) /\ v.born <= TTL2
  <2>1. HandHonest(c) /\ TTL2 \in Nat  BY CacheValues DEF CacheInv
  <2>2. v.born \in Nat  BY <1>1, CacheValues DEF RC!Value
  <2>3. v.born <= IF call[c].at = "promoting" THEN TTL2 ELSE 0  BY <2>1 DEF HandHonest
  <2>4. v.old => k \in Uncleared  BY <2>1 DEF HandHonest
  <2> QED  BY <2>1, <2>2, <2>3, <2>4
<1> HIDE DEF k, v
<1>3. /\ l1' \in Seq(Memo) /\ Len(l1') <= Size1
      /\ \A j \in 1 .. Len(l1') :
            \/ l1'[j] = [key |-> k, age |-> 0, val |-> v]
            \/ \E i \in 1 .. Len(l1) : l1'[j] = l1[i]
  BY <1>1, CachePut DEF k, v
<1>4. Uncleared' = Uncleared  BY DEF Uncleared
<1>5. \A j \in 1 .. Len(l1') :
         l1'[j] = [key |-> k, age |-> 0, val |-> v] => EntryHonest(l1[j])'
  <2>1. 0 + TTL2 = TTL2  BY CacheValues
  <2> QED  BY <1>2, <1>4, <2>1 DEF EntryHonest
<1>6. EntriesHonest'  BY <1>3, <1>4, <1>5, CacheStays DEF CacheInv
<1> QED  BY <1>3, <1>6

\* A value from the database or from dm20 goes into memory.
LEMMA CacheKeep ==
    ASSUME PartsAssumption, CacheInv, NEW c \in Caller, RC!Promote(c) \/ RC!Answer(c)
    PROVE  CacheInv'
<1>0. CacheType /\ \A d \in Caller : HandHonest(d)  BY DEF CacheInv
<1>1. /\ call[c].at \in {"promoting", "asking"} /\ RC!Put1(call[c].key, call[c].val)
      /\ UNCHANGED <<l2, l2conn, wipe, torn>>
  BY DEF RC!Promote, RC!Answer
<1>2. l1' \in Seq(Memo) /\ Len(l1') <= Size1 /\ EntriesHonest'
  BY <1>1, CachePutHonest
<1>3. PICK r : /\ call' = [call EXCEPT ![c] = r]
               /\ \/ r = RC!Idle
                  \/ /\ call[c].at = "asking"
                     /\ r = [at |-> "storing", key |-> call[c].key, val |-> call[c].val]
  BY DEF RC!Promote, RC!Answer, RC!End, RC!Set
<1>4. /\ r \in [at : {"idle", "second", "promoting", "asking", "storing"},
                key : Key, val : RC!Value]
      /\ r.at = "idle" => r = RC!Idle
      /\ r.at # "idle" /\ r.val.old => r.key \in Uncleared
      /\ r.val.born <= IF r.at = "promoting" THEN TTL2 ELSE 0
  <2>1. CASE r = RC!Idle  BY <2>1, CacheEnd
  <2>2. CASE /\ call[c].at = "asking"
             /\ r = [at |-> "storing", key |-> call[c].key, val |-> call[c].val]
    <3>1. HandHonest(c)  BY <1>0
    <3>2. call[c].key \in Key /\ call[c].val \in RC!Value  BY <1>0 DEF CacheType
    <3> QED  BY <2>2, <3>1, <3>2 DEF HandHonest
  <2> QED  BY <1>3, <2>1, <2>2
<1>5. Uncleared' = Uncleared  BY <1>1 DEF Uncleared
<1>6. /\ call' \in [Caller -> [at : {"idle", "second", "promoting", "asking", "storing"},
                               key : Key, val : RC!Value]]
      /\ \A d \in Caller : HandHonest(d)'
  BY <1>0, <1>3, <1>4, <1>5, CacheCall
<1>7. l2conn' \in BOOLEAN  BY <1>0, <1>1 DEF CacheType
<1> QED  BY <1>1, <1>2, <1>6, <1>7, CacheStep

\* A failed call is not remembered.
LEMMA CacheRaise ==
    ASSUME PartsAssumption, CacheInv, NEW c \in Caller, RC!Raise(c)
    PROVE  CacheInv'
<1>0. CacheType /\ \A d \in Caller : HandHonest(d)  BY DEF CacheInv
<1>1. UNCHANGED <<l1, l2, l2conn, wipe, torn>> /\ call' = [call EXCEPT ![c] = RC!Idle]
  BY DEF RC!Raise, RC!End
<1>2. /\ call' \in [Caller -> [at : {"idle", "second", "promoting", "asking", "storing"},
                               key : Key, val : RC!Value]]
      /\ \A d \in Caller : HandHonest(d)'
  <2>1. Uncleared' = Uncleared  BY <1>1 DEF Uncleared
  <2> QED  BY <1>0, <1>1, <2>1, CacheEnd, CacheCall
<1>3. l1' \in Seq(Memo) /\ Len(l1') <= Size1 /\ l2conn' \in BOOLEAN
  BY <1>0, <1>1 DEF CacheType
<1>4. EntriesHonest'  BY <1>1 DEF CacheInv, EntriesHonest, EntryHonest, Uncleared
<1> QED  BY <1>1, <1>2, <1>3, <1>4, CacheStep

\* dm20's value goes into the database, as of now.
LEMMA CacheStore ==
    ASSUME PartsAssumption, CacheInv, NEW c \in Caller, RC!Store(c)
    PROVE  CacheInv'
<1> DEFINE k == call[c].key
           x == [age |-> 0, val |-> call[c].val]
<1>0. CacheType /\ \A d \in Caller : HandHonest(d)  BY DEF CacheInv
<1>1. /\ UNCHANGED <<l1, l2conn, wipe, torn>> /\ call' = [call EXCEPT ![c] = RC!Idle]
      /\ l2' = [l2 EXCEPT ![k] = x] /\ call[c].at = "storing"
  BY DEF RC!Store, RC!End
<1>2. /\ call' \in [Caller -> [at : {"idle", "second", "promoting", "asking", "storing"},
                               key : Key, val : RC!Value]]
      /\ \A d \in Caller : HandHonest(d)'
  <2>1. Uncleared' = Uncleared  BY <1>1 DEF Uncleared
  <2> QED  BY <1>0, <1>1, <2>1, CacheEnd, CacheCall
<1>3. k \in Key /\ x \in [age : 0 .. TTL2 + 1, val : RC!Value]
  BY <1>0, CacheValues DEF CacheType
<1>4. /\ x.age = 0 /\ x.val.born <= 0 /\ (x.val.old => k \in Uncleared)
  <2>1. HandHonest(c)  BY <1>0
  <2> QED  BY <2>1, <1>1 DEF HandHonest
<1> HIDE DEF k, x
<1>5. /\ l2' \in [Key -> [age : 0 .. TTL2 + 1, val : RC!Value]]
      /\ l2'[k] = x /\ \A q \in Key \ {k} : l2'[q] = l2[q]
  BY <1>0, <1>1, <1>3 DEF CacheType
<1>6. Uncleared' = Uncleared  BY <1>1 DEF Uncleared
<1>7. ASSUME NEW q \in Key
      PROVE  RowHonest(q)'
  <2>1. CASE q = k
    <3>1. l2'[q] = x  BY <2>1, <1>5
    <3> QED  BY <3>1, <2>1, <1>4, <1>6 DEF RowHonest
  <2>2. CASE q # k
    <3>1. l2'[q] = l2[q] /\ RowHonest(q)  BY <2>2, <1>5 DEF CacheInv
    <3> QED  BY <3>1, <1>6 DEF RowHonest
  <2> QED  BY <2>1, <2>2
<1>8. CacheType'  BY <1>0, <1>1, <1>2, <1>5 DEF CacheType
<1>9. EntriesHonest'  BY <1>1 DEF CacheInv, EntriesHonest, EntryHonest, Uncleared
<1> QED  BY <1>2, <1>7, <1>8, <1>9 DEF CacheInv

\* An invalidation: from memory at once, the rest is owed or torn.
LEMMA CacheInvalidate ==
    ASSUME PartsAssumption, CacheInv, NEW K \in SUBSET Key, RC!Invalidate(K)
    PROVE  CacheInv'
<1> DEFINE w == RC!Without(K)
           Row == [age : 0 .. TTL2 + 1, val : RC!Value]
           Call == [at : {"idle", "second", "promoting", "asking", "storing"},
                    key : Key, val : RC!Value]
<1>0. CacheType  BY DEF CacheInv
<1>1. /\ wipe = {} /\ l1' = w /\ l2' = RC!Aged(K) /\ call' = RC!InHand(K)
      /\ wipe' = IF l2conn THEN K ELSE {}
      /\ torn' = torn \cup {k \in K : RC!Calling(k) \/ (~l2conn /\ l2[k].age <= TTL2)}
      /\ l2conn' = l2conn
  BY DEF RC!Invalidate
<1>2. /\ w \in Seq(Memo) /\ Len(w) <= Len(l1)
      /\ \A j \in 1 .. Len(w) : \E i \in 1 .. Len(l1) :
            w[j] = l1[i] /\ l1[i].key \notin K
  BY <1>0, CacheWithout, Zenon
<1> HIDE DEF w
<1>3. Len(l1') <= Size1 /\ l1' \in Seq(Memo)
  BY <1>0, <1>1, <1>2, CacheValues DEF CacheType
<1>4. Uncleared \subseteq Uncleared' /\ wipe' \subseteq Key /\ torn' \subseteq Key
  BY <1>0, <1>1 DEF Uncleared, CacheType
<1>5. EntriesHonest'  BY <1>1, <1>2, <1>4, CacheStays DEF CacheInv
<1>6. /\ l2 \in [Key -> Row] /\ call \in [Caller -> Call]  BY <1>0 DEF CacheType
<1>7. /\ l2' \in [Key -> Row]
      /\ \A k \in Key : /\ l2'[k].age = l2[k].age /\ l2'[k].val.born = l2[k].val.born
                        /\ k \notin K => l2'[k] = l2[k]
  <2> SUFFICES ASSUME NEW k \in Key
               PROVE  /\ l2'[k] \in Row /\ l2'[k].age = l2[k].age
                      /\ l2'[k].val.born = l2[k].val.born
                      /\ k \notin K => l2'[k] = l2[k]
    BY <1>1 DEF RC!Aged
  <2>1. /\ l2[k] \in Row
        /\ l2'[k] = IF k \in K THEN [l2[k] EXCEPT !.val.old = TRUE] ELSE l2[k]
    BY <1>1, <1>6 DEF RC!Aged
  <2>2. CASE k \in K
    <3>1. l2'[k] = [age |-> l2[k].age, val |-> [born |-> l2[k].val.born, old |-> TRUE]]
      BY <2>1, <2>2 DEF RC!Value
    <3>2. l2[k].age \in 0 .. TTL2 + 1 /\ l2[k].val.born \in 0 .. RC!Oldest
      BY <2>1 DEF RC!Value
    <3> QED  BY <2>2, <3>1, <3>2 DEF RC!Value
  <2>3. CASE k \notin K  BY <2>1, <2>3
  <2> QED  BY <2>2, <2>3
<1>8. ASSUME NEW k \in Key
      PROVE  RowHonest(k)'
  <2>1. RowHonest(k)  BY DEF CacheInv
  <2>2. CASE k \in K
    <3>1. l2[k].age <= TTL2 => k \in Uncleared'  BY <1>1, <2>2 DEF Uncleared
    <3> QED  BY <3>1, <2>1, <1>7 DEF RowHonest
  <2>3. CASE k \notin K  BY <2>1, <2>3, <1>4, <1>7 DEF RowHonest
  <2> QED  BY <2>2, <2>3
<1>9. /\ call' \in [Caller -> Call]
      /\ \A c \in Caller :
            \/ call'[c] = call[c]
            \/ /\ call[c].key \in K /\ call[c] # RC!Idle
               /\ call'[c] = [call[c] EXCEPT !.val.old = TRUE]
  <2> SUFFICES ASSUME NEW c \in Caller
               PROVE  /\ call'[c] \in Call
                      /\ \/ call'[c] = call[c]
                         \/ /\ call[c].key \in K /\ call[c] # RC!Idle
                            /\ call'[c] = [call[c] EXCEPT !.val.old = TRUE]
    BY <1>1 DEF RC!InHand
  <2>1. /\ call[c] \in Call
        /\ call'[c] = IF call[c] # RC!Idle /\ call[c].key \in K
                      THEN [call[c] EXCEPT !.val.old = TRUE] ELSE call[c]
    BY <1>1, <1>6 DEF RC!InHand
  <2>2. [call[c] EXCEPT !.val.old = TRUE] \in Call
    <3>1. PICK v \in RC!Value : v = call[c].val
      BY <2>1
    <3>2. [v EXCEPT !.old = TRUE] \in RC!Value
      BY DEF RC!Value
    <3>3. [call[c] EXCEPT !.val.old = TRUE]
            = [call[c] EXCEPT !.val = [v EXCEPT !.old = TRUE]]
      BY <2>1, <3>1
    <3> QED  BY <2>1, <3>2, <3>3
  <2> QED  BY <2>1, <2>2
<1>10. ASSUME NEW c \in Caller
       PROVE  HandHonest(c)'
  <2>1. HandHonest(c)  BY DEF CacheInv
  <2>2. CASE call'[c] = call[c]  BY <2>1, <2>2, <1>4 DEF HandHonest
  <2>3. CASE /\ call[c].key \in K /\ call[c] # RC!Idle
             /\ call'[c] = [call[c] EXCEPT !.val.old = TRUE]
    <3>1. /\ call'[c].at = call[c].at /\ call'[c].key = call[c].key
          /\ call'[c].val.born = call[c].val.born
      BY <2>3, <1>6 DEF RC!Value
    <3>2. call[c].at # "idle"  BY <2>1, <2>3 DEF HandHonest
    <3>3. RC!Calling(call[c].key)  BY <3>2 DEF RC!Calling
    <3>4. call[c].key \in Uncleared'  BY <1>1, <2>3, <3>3 DEF Uncleared
    <3> QED  BY <2>1, <3>1, <3>2, <3>4 DEF HandHonest
  <2> QED  BY <1>9, <2>2, <2>3
<1>11. CacheType'
  BY <1>0, <1>1, <1>3, <1>4, <1>7, <1>9 DEF CacheType
<1> QED  BY <1>5, <1>8, <1>10, <1>11 DEF CacheInv

\* The rows go; what stays in memory or in a call's hand is torn.
LEMMA CacheWipe ==
    ASSUME PartsAssumption, CacheInv, RC!Wipe
    PROVE  CacheInv'
<1> DEFINE Row == [age : 0 .. TTL2 + 1, val : RC!Value]
<1>0. CacheType  BY DEF CacheInv
<1>1. /\ l2' = [k \in Key |-> IF k \in wipe THEN RC!NoRow ELSE l2[k]]
      /\ wipe' = {}
      /\ torn' = torn \cup {k \in wipe : RC!Calling(k) \/ RC!Entry(k) # {}}
      /\ UNCHANGED <<l1, l2conn, call>>
  BY DEF RC!Wipe
<1>2. l2 \in [Key -> Row] /\ RC!NoRow \in Row  BY <1>0, CacheValues DEF CacheType
<1>3. l2' \in [Key -> Row]  BY <1>1, <1>2
<1>4. CacheType'  BY <1>0, <1>1, <1>3 DEF CacheType
<1>5. ASSUME NEW i \in 1 .. Len(l1')
      PROVE  EntryHonest(l1[i])'
  <2>1. EntryHonest(l1[i]) /\ i \in 1 .. Len(l1) /\ l1' = l1
    BY <1>1 DEF CacheInv, EntriesHonest
  <2>2. l1[i].age <= TTL1 => RC!Entry(l1[i].key) # {}  BY <2>1 DEF RC!Entry
  <2>3. l1[i].age <= TTL1 /\ l1[i].key \in Uncleared => l1[i].key \in Uncleared'
    BY <2>2, <1>1 DEF Uncleared
  <2> QED  BY <2>1, <2>3 DEF EntryHonest
<1>6. ASSUME NEW k \in Key
      PROVE  RowHonest(k)'
  <2>1. CASE k \in wipe
    <3>1. l2'[k].age = TTL2 + 1 /\ TTL2 \in Nat  BY <2>1, <1>1, CacheValues
    <3>2. ~(l2'[k].age <= TTL2)  BY <3>1
    <3> QED  BY <3>2 DEF RowHonest
  <2>2. CASE k \notin wipe
    <3>1. l2'[k] = l2[k] /\ RowHonest(k)  BY <2>2, <1>1 DEF CacheInv
    <3> QED  BY <2>2, <3>1, <1>1 DEF RowHonest, Uncleared
  <2> QED  BY <2>1, <2>2
<1>7. ASSUME NEW c \in Caller
      PROVE  HandHonest(c)'
  <2>1. HandHonest(c) /\ call' = call  BY <1>1 DEF CacheInv
  <2>2. call[c].at # "idle" => RC!Calling(call[c].key)  BY DEF RC!Calling
  <2>3. call[c].at # "idle" /\ call[c].key \in Uncleared => call[c].key \in Uncleared'
    BY <2>2, <1>1 DEF Uncleared
  <2> QED  BY <2>1, <2>3 DEF HandHonest
<1> QED  BY <1>4, <1>5, <1>6, <1>7 DEF CacheInv, EntriesHonest

\* The database refuses to be wiped: its rows are torn.
LEMMA CacheWipeFails ==
    ASSUME CacheInv, RC!WipeFails
    PROVE  CacheInv'
<1>1. /\ UNCHANGED <<l1, l2, l2conn, call>> /\ torn' = torn \cup wipe /\ wipe' = {}
  BY DEF RC!WipeFails
<1>2. Uncleared' = Uncleared  BY <1>1 DEF Uncleared
<1>3. CacheType'  BY <1>1 DEF CacheInv, CacheType
<1>4. EntriesHonest'  BY <1>1, <1>2 DEF CacheInv, EntriesHonest, EntryHonest
<1>5. \A k \in Key : RowHonest(k)'  BY <1>1, <1>2 DEF CacheInv, RowHonest
<1>6. \A c \in Caller : HandHonest(c)'  BY <1>1, <1>2 DEF CacheInv, HandHonest
<1> QED  BY <1>3, <1>4, <1>5, <1>6 DEF CacheInv

\* Calls that are none, and a memory with nothing in it.
LEMMA CacheNothing ==
    ASSUME PartsAssumption
    PROVE  /\ <<>> \in Seq(Memo) /\ Len(<<>>) <= Size1
           /\ [c \in Caller |-> RC!Idle]
                 \in [Caller -> [at : {"idle", "second", "promoting", "asking", "storing"},
                                 key : Key, val : RC!Value]]
           /\ \A c \in Caller : RC!Idle.val.born <= IF RC!Idle.at = "promoting" THEN TTL2 ELSE 0
<1>1. Len(<<>>) <= Size1
  <2>1. Len(<<>>) = 0  OBVIOUS
  <2> QED  BY <2>1, CacheValues
<1> QED  BY <1>1, CacheEnd

\* Memory goes with the process, the rows stay.
LEMMA CacheRestart ==
    ASSUME PartsAssumption, CacheInv, RC!Restart
    PROVE  CacheInv'
<1>1. /\ l1' = <<>> /\ l2conn' = FALSE /\ call' = [c \in Caller |-> RC!Idle]
      /\ torn' = torn \cup wipe /\ wipe' = {} /\ l2' = l2
  BY DEF RC!Restart
<1>2. Uncleared' = Uncleared  BY <1>1 DEF Uncleared
<1>3. CacheType'  BY <1>1, CacheNothing DEF CacheInv, CacheType
<1>4. EntriesHonest'
  <2>1. 1 .. Len(l1') = {}  BY <1>1
  <2> QED  BY <2>1 DEF EntriesHonest
<1>5. \A k \in Key : RowHonest(k)'  BY <1>1, <1>2 DEF CacheInv, RowHonest
<1>6. ASSUME NEW c \in Caller
      PROVE  HandHonest(c)'
  <2>1. call'[c] = RC!Idle  BY <1>1
  <2> QED  BY <2>1, CacheEnd DEF HandHonest
<1> QED  BY <1>3, <1>4, <1>5, <1>6 DEF CacheInv

\* What a tick makes of a value.
LEMMA CacheOlder ==
    ASSUME PartsAssumption, NEW v \in RC!Value
    PROVE  /\ RC!Older(v) \in RC!Value /\ RC!Older(v).old = v.old
           /\ RC!Older(v).born <= v.born + 1
<1>1. v.born \in 0 .. RC!Oldest /\ v.old \in BOOLEAN  BY DEF RC!Value
<1>2. RC!Oldest \in Nat  BY CacheValues DEF RC!Oldest
<1>3. /\ RC!Older(v) = [v EXCEPT !.born = IF v.born < RC!Oldest THEN v.born + 1 ELSE v.born]
  BY DEF RC!Older
<1> DEFINE b == IF v.born < RC!Oldest THEN v.born + 1 ELSE v.born
<1>4. b \in 0 .. RC!Oldest /\ b <= v.born + 1  BY <1>1, <1>2
<1>5. RC!Older(v) = [v EXCEPT !.born = b]  BY <1>3
<1> HIDE DEF b
<1>6. RC!Older(v) = [born |-> b, old |-> v.old]  BY <1>5 DEF RC!Value
<1> QED  BY <1>1, <1>4, <1>6 DEF RC!Value

\* Time passes for what is kept.
LEMMA CacheTick ==
    ASSUME PartsAssumption, CacheInv, RC!Tick
    PROVE  CacheInv'
<1> DEFINE Row == [age : 0 .. TTL2 + 1, val : RC!Value]
           a(i) == IF l1[i].age <= TTL1 THEN l1[i].age + 1 ELSE l1[i].age
<1>0. CacheType  BY DEF CacheInv
<1>1. /\ l1' = [i \in 1 .. Len(l1) |->
                   [l1[i] EXCEPT !.age = IF l1[i].age <= TTL1 THEN l1[i].age + 1
                                         ELSE l1[i].age,
                                 !.val = RC!Older(l1[i].val)]]
      /\ l2' = [k \in Key |-> IF l2[k].age <= TTL2
                              THEN [age |-> l2[k].age + 1, val |-> RC!Older(l2[k].val)]
                              ELSE RC!NoRow]
      /\ UNCHANGED <<l2conn, call, wipe, torn>>
  BY DEF RC!Tick
<1>2. Uncleared' = Uncleared  BY <1>1 DEF Uncleared
<1>3. TTL1 \in Nat /\ TTL2 \in Nat  BY CacheValues
<1>4. \A i \in 1 .. Len(l1) : /\ l1[i] \in Memo /\ l1[i].age \in 0 .. TTL1 + 1
                              /\ l1[i].val \in RC!Value /\ l1[i].val.born \in Nat
  <2>1. \A i \in 1 .. Len(l1) : l1[i] \in Memo  BY <1>0 DEF CacheType
  <2>2. \A v \in RC!Value : v.born \in Nat  BY DEF RC!Value
  <2>3. \A m \in Memo : m.age \in 0 .. TTL1 + 1 /\ m.val \in RC!Value  BY DEF Memo
  <2> QED  BY <2>1, <2>2, <2>3
<1>5. \A i \in 1 .. Len(l1) : a(i) \in 0 .. TTL1 + 1 /\ (a(i) <= TTL1 => a(i) = l1[i].age + 1)
  BY <1>3, <1>4
<1>6. \A i \in 1 .. Len(l1) :
         l1'[i] = [l1[i] EXCEPT !.age = a(i), !.val = RC!Older(l1[i].val)]
  BY <1>1
<1>7. DOMAIN l1' = 1 .. Len(l1)  BY <1>1
<1> HIDE DEF a
<1>8. \A i \in 1 .. Len(l1) :
         /\ l1'[i].age = a(i) /\ l1'[i].val = RC!Older(l1[i].val)
         /\ l1'[i].key = l1[i].key /\ l1'[i] \in Memo
  <2> SUFFICES ASSUME NEW i \in 1 .. Len(l1)
               PROVE  /\ l1'[i].age = a(i) /\ l1'[i].val = RC!Older(l1[i].val)
                      /\ l1'[i].key = l1[i].key /\ l1'[i] \in Memo
    OBVIOUS
  <2>1. l1[i] \in Memo  BY <1>4
  <2>2. l1'[i] = [key |-> l1[i].key, age |-> a(i), val |-> RC!Older(l1[i].val)]
    BY <2>1, <1>6 DEF Memo
  <2>3. RC!Older(l1[i].val) \in RC!Value  BY <1>4, CacheOlder
  <2> QED  BY <2>1, <2>2, <2>3, <1>5 DEF Memo
<1>9. l1' \in Seq(Memo) /\ Len(l1') = Len(l1)
  <2>1. Len(l1) \in Nat  BY <1>0 DEF CacheType
  <2>2. l1' \in [1 .. Len(l1) -> Memo]  BY <1>1, <1>7, <1>8
  <2> QED  BY <2>1, <2>2, <1>7, LenProperties, SeqDef
<1>10. ASSUME NEW i \in 1 .. Len(l1')
       PROVE  EntryHonest(l1[i])'
  <2>1. i \in 1 .. Len(l1)  BY <1>9
  <2>2. EntryHonest(l1[i])  BY <2>1 DEF CacheInv, EntriesHonest
  <2>3. /\ RC!Older(l1[i].val).old = l1[i].val.old
        /\ RC!Older(l1[i].val) \in RC!Value
        /\ RC!Older(l1[i].val).born <= l1[i].val.born + 1
    BY <2>1, <1>4, CacheOlder
  <2>4. RC!Older(l1[i].val).born \in Nat  BY <2>3, CacheValues DEF RC!Value
  <2>5. ASSUME a(i) <= TTL1
        PROVE  /\ RC!Older(l1[i].val).born <= a(i) + TTL2
               /\ l1[i].val.old => l1[i].key \in Uncleared
    <3>1. a(i) = l1[i].age + 1 /\ l1[i].age \in Nat /\ l1[i].val.born \in Nat
      BY <2>1, <2>5, <1>4, <1>5
    <3>2. l1[i].age <= TTL1  BY <3>1, <2>5, <1>3
    <3>3. l1[i].val.born <= l1[i].age + TTL2 /\ (l1[i].val.old => l1[i].key \in Uncleared)
      BY <3>2, <2>2 DEF EntryHonest
    <3>4. \A o, b, g \in Nat : o <= b + 1 /\ b <= g + TTL2 => o <= (g + 1) + TTL2
      BY <1>3
    <3>5. RC!Older(l1[i].val).born <= (l1[i].age + 1) + TTL2
      BY <3>1, <3>3, <3>4, <2>3, <2>4, Zenon
    <3>6. RC!Older(l1[i].val).born <= a(i) + TTL2  BY <3>1, <3>5, Zenon
    <3> QED  BY <3>3, <3>6
  <2>6. /\ l1'[i].age = a(i) /\ l1'[i].val = RC!Older(l1[i].val)
        /\ l1'[i].key = l1[i].key
    BY <2>1, <1>8
  <2> QED  BY <2>3, <2>5, <2>6, <1>2 DEF EntryHonest
<1>11. l2 \in [Key -> Row] /\ RC!NoRow \in Row  BY <1>0, CacheValues DEF CacheType
<1>12. ASSUME NEW k \in Key
       PROVE  l2'[k] \in Row /\ RowHonest(k)'
  <2>1. RowHonest(k) /\ l2[k] \in Row  BY <1>11 DEF CacheInv
  <2>2. l2[k].age \in 0 .. TTL2 + 1 /\ l2[k].val \in RC!Value /\ l2[k].val.born \in Nat
    BY <2>1 DEF RC!Value
  <2>3. CASE l2[k].age <= TTL2
    <3>1. l2'[k] = [age |-> l2[k].age + 1, val |-> RC!Older(l2[k].val)]  BY <2>3, <1>1
    <3>2. /\ RC!Older(l2[k].val) \in RC!Value /\ RC!Older(l2[k].val).old = l2[k].val.old
          /\ RC!Older(l2[k].val).born <= l2[k].val.born + 1
      BY <2>2, CacheOlder
    <3>3. l2[k].val.born <= l2[k].age /\ (l2[k].val.old => k \in Uncleared)
      BY <2>1, <2>3 DEF RowHonest
    <3>4. l2[k].age + 1 \in 0 .. TTL2 + 1  BY <2>2, <2>3, <1>3
    <3>5. RC!Older(l2[k].val).born \in Nat  BY <3>2, CacheValues DEF RC!Value
    <3>6. RC!Older(l2[k].val).born <= l2[k].age + 1  BY <3>2, <3>3, <3>5, <2>2
    <3>7. l2'[k] \in Row  BY <3>1, <3>2, <3>4
    <3> QED  BY <3>1, <3>2, <3>3, <3>6, <3>7, <1>2 DEF RowHonest
  <2>4. CASE ~(l2[k].age <= TTL2)
    <3>1. l2'[k] = RC!NoRow  BY <2>4, <1>1
    <3>2. ~(RC!NoRow.age <= TTL2)
      <4>1. RC!NoRow.age = TTL2 + 1  BY CacheValues
      <4> QED  BY <4>1, <1>3
    <3> QED  BY <3>1, <3>2, <1>11 DEF RowHonest
  <2> QED  BY <2>3, <2>4
<1>13. CacheType'
  <2>1. l2' \in [Key -> Row]  BY <1>1, <1>12
  <2> QED  BY <2>1, <1>0, <1>1, <1>9 DEF CacheType
<1>14. \A c \in Caller : HandHonest(c)'  BY <1>1, <1>2 DEF CacheInv, HandHonest
<1> QED  BY <1>10, <1>12, <1>13, <1>14 DEF CacheInv, EntriesHonest

\* The start, and a step of another part.
LEMMA CacheStarts ==
    ASSUME PartsAssumption, RC!Init
    PROVE  CacheInv
<1>1. /\ l1 = <<>> /\ l2 = [k \in Key |-> RC!NoRow] /\ l2conn = FALSE
      /\ call = [c \in Caller |-> RC!Idle] /\ wipe = {} /\ torn = {}
  BY DEF RC!Init
<1>2. CacheType  BY <1>1, CacheNothing, CacheValues DEF CacheType
<1>3. EntriesHonest
  <2>1. 1 .. Len(l1) = {}  BY <1>1
  <2> QED  BY <2>1 DEF EntriesHonest
<1>4. ASSUME NEW k \in Key
      PROVE  RowHonest(k)
  <2>1. l2[k].age = TTL2 + 1 /\ TTL2 \in Nat  BY <1>1, CacheValues
  <2>2. ~(l2[k].age <= TTL2)  BY <2>1
  <2> QED  BY <2>2 DEF RowHonest
<1>5. ASSUME NEW c \in Caller
      PROVE  HandHonest(c)
  <2>1. call[c] = RC!Idle  BY <1>1
  <2> QED  BY <2>1, CacheEnd DEF HandHonest
<1> QED  BY <1>2, <1>3, <1>4, <1>5 DEF CacheInv

LEMMA CacheSame ==
    ASSUME CacheInv, UNCHANGED cacheVars
    PROVE  CacheInv'
<1>1. UNCHANGED <<l1, l2, l2conn, call, wipe, torn>>  BY DEF cacheVars
<1>2. Uncleared' = Uncleared  BY <1>1 DEF Uncleared
<1>3. CacheType'  BY <1>1 DEF CacheInv, CacheType
<1>4. EntriesHonest'  BY <1>1, <1>2 DEF CacheInv, EntriesHonest, EntryHonest
<1>5. \A k \in Key : RowHonest(k)'  BY <1>1, <1>2 DEF CacheInv, RowHonest
<1>6. \A c \in Caller : HandHonest(c)'  BY <1>1, <1>2 DEF CacheInv, HandHonest
<1> QED  BY <1>3, <1>4, <1>5, <1>6 DEF CacheInv

LEMMA CacheNext ==
    ASSUME PartsAssumption, CacheInv, RC!Next
    PROVE  CacheInv'
<1>1. CASE \E c \in Caller : \E k \in Key : RC!Hit(c, k) \/ RC!Miss(c, k)
  BY <1>1, CacheHit, CacheMiss
<1>2. CASE \E c \in Caller : \/ RC!Second(c) \/ RC!Promote(c) \/ RC!Answer(c)
                             \/ RC!Raise(c) \/ RC!Store(c)
  BY <1>2, CacheSecond, CacheKeep, CacheRaise, CacheStore
<1>3. CASE \E K \in SUBSET Key \ {{}} : RC!Invalidate(K)
  BY <1>3, CacheInvalidate
<1>4. CASE RC!Wipe \/ RC!WipeFails \/ RC!Restart \/ RC!Tick
  BY <1>4, CacheWipe, CacheWipeFails, CacheRestart, CacheTick
<1> QED  BY <1>1, <1>2, <1>3, <1>4 DEF RC!Next

\* No answer from either layer is too old or, unknown to anyone, invalidated.
LEMMA CacheServes ==
    ASSUME PartsAssumption, CacheInv
    PROVE  RC!ServedIsCurrent
<1>0. TTL1 \in Nat /\ TTL2 \in Nat  BY CacheValues
<1>1. ASSUME NEW k \in Key, NEW i \in RC!Entry(k)
      PROVE  l1[i].val.born <= TTL1 + TTL2 /\ (k \in torn \cup wipe \/ ~l1[i].val.old)
  <2>1. i \in 1 .. Len(l1) /\ l1[i].key = k /\ l1[i].age <= TTL1  BY DEF RC!Entry
  <2>2. l1[i].val.born <= l1[i].age + TTL2 /\ (l1[i].val.old => l1[i].key \in Uncleared)
    BY <2>1 DEF CacheInv, EntriesHonest, EntryHonest
  <2>3. l1[i].age \in Nat /\ l1[i].val.born \in Nat
    <3>1. l1[i] \in Memo  BY <2>1 DEF CacheInv, CacheType
    <3> QED  BY <3>1 DEF Memo, RC!Value
  <2>4. l1[i].val.born <= TTL1 + TTL2  BY <1>0, <2>1, <2>2, <2>3
  <2> QED  BY <2>1, <2>2, <2>4 DEF Uncleared
<1>2. ASSUME NEW k \in Key, l2[k].age <= TTL2
      PROVE  l2[k].val.born <= TTL1 + TTL2 /\ (k \in torn \cup wipe \/ ~l2[k].val.old)
  <2>1. l2[k].val.born <= l2[k].age /\ (l2[k].val.old => k \in Uncleared)
    BY <1>2 DEF CacheInv, RowHonest
  <2>2. l2[k].age \in Nat /\ l2[k].val.born \in Nat
    <3>1. l2[k] \in [age : 0 .. TTL2 + 1, val : RC!Value]  BY DEF CacheInv, CacheType
    <3> QED  BY <3>1 DEF RC!Value
  <2>3. l2[k].val.born <= TTL1 + TTL2  BY <1>0, <1>2, <2>1, <2>2
  <2> QED  BY <2>1, <2>3 DEF Uncleared
<1> QED  BY <1>1, <1>2 DEF RC!ServedIsCurrent, RC!Served

\* The bound on restarts and refusals.
LEMMA CacheFaults ==
    ASSUME cacheFaults \in 0 .. MaxCacheFaults, MaxCacheFaults \in Nat,
           RC!Next \/ UNCHANGED cacheVars
    PROVE  cacheFaults' \in 0 .. MaxCacheFaults
<1>1. \/ cacheFaults' = cacheFaults
      \/ cacheFaults < MaxCacheFaults /\ cacheFaults' = cacheFaults + 1
  BY DEF RC!Next, RC!Hit, RC!Miss, RC!Second, RC!Promote, RC!Answer, RC!Raise, RC!Store,
         RC!Invalidate, RC!Wipe, RC!WipeFails, RC!Restart, RC!Tick, cacheVars
<1> QED  BY <1>1

-----------------------------------------------------------------------------
(* What was narrated: NarrationCache. *)

Story == [prompt : Prompt, text : NC!Text, age : 0 .. NarrTTL, born : 0 .. NarrTTL + 1]

\* Within its time, an entry is as old as it says.
StoryHonest(e) == NC!Pure(e.text) /\ (e.age < NarrTTL => e.born <= e.age)

\* Honest entries, one for a prompt.
Shelf(s) ==
    /\ s \in Seq(Story)
    /\ \A j \in 1 .. Len(s) : StoryHonest(s[j])
    /\ \A i, j \in 1 .. Len(s) : s[i].prompt = s[j].prompt => i = j

Asking == {c \in Asker : talk[c].at = "asking"}

TalkType ==
    /\ talk \in [Asker -> [at : {"idle", "asking", "passing"}, prompt : Prompt]]
    /\ off \in BOOLEAN /\ broken = FALSE
    /\ tally \in [NC!Counter -> Nat] /\ begun \in 0 .. MaxCalls

\* b calls are h hits, m misses (f of them refused), y that passed by, r that failed
\* and n under way.
Summed(b, h, m, y, r, f, n) == b = h + m + y + r + n /\ f <= m
TalkCounted ==
    Summed(begun, tally["hits"], tally["misses"], tally["bypass"], tally["raised"],
            tally["refused"], Cardinality(Asking))

TalkInv == TalkType /\ TalkCounted /\ Shelf(shelf) /\ Len(shelf) <= NarrSize

\* What stays without a prompt's entry, and that it is one less.
LEMMA ShelfOthers ==
    ASSUME Shelf(shelf), NEW p
    PROVE  /\ Shelf(NC!Others(p)) /\ Len(NC!Others(p)) <= Len(shelf)
           /\ \A j \in 1 .. Len(NC!Others(p)) : NC!Others(p)[j].prompt # p
           /\ NC!Entry(p) # {} => Len(NC!Others(p)) < Len(shelf)
<1> DEFINE I == {i \in 1 .. Len(shelf) : shelf[i].prompt # p}
           t == SelectAt(shelf, I)
<1>1. NC!Others(p) = t  BY DEF NC!Others, NC!SelectAt, SelectAt
<1>2. shelf \in Seq(Story)  BY DEF Shelf
<1>3. IsTaken(t, Story, shelf, I, Len(shelf))  BY <1>2, SelectAtTaken
<1> HIDE DEF t
<1>4. PICK pos : Taken(t, shelf, I, Len(shelf), pos)  BY <1>3 DEF IsTaken
<1>5. /\ \A j \in 1 .. Len(t) : /\ pos[j] \in (1 .. Len(shelf)) \cap I
                                /\ t[j] = shelf[pos[j]]
      /\ \A i, j \in 1 .. Len(t) : i < j => pos[i] < pos[j]
  BY <1>4 DEF Taken
<1>6. t \in Seq(Story) /\ Len(t) <= Len(shelf) /\ Len(t) \in Nat
  BY <1>3 DEF IsTaken
<1>7. NC!Entry(p) # {} => Len(t) < Len(shelf)
  BY <1>3 DEF IsTaken, NC!Entry
<1>8. \A j \in 1 .. Len(t) : StoryHonest(t[j]) /\ t[j].prompt # p
  BY <1>5 DEF Shelf
<1>9. ASSUME NEW i \in 1 .. Len(t), NEW j \in 1 .. Len(t), t[i].prompt = t[j].prompt
      PROVE  i = j
  <2>1. pos[i] = pos[j] /\ pos[i] \in 1 .. Len(shelf)  BY <1>5, <1>9 DEF Shelf
  <2>2. ~(i < j) /\ ~(j < i)  BY <2>1, <1>5
  <2> QED  BY <2>2, <1>6
<1>10. Shelf(t)  BY <1>6, <1>8, <1>9 DEF Shelf
<1> QED  BY <1>1, <1>6, <1>7, <1>8, <1>10

LEMMA ShelfAppend ==
    ASSUME NEW s, Shelf(s), NEW e \in Story, StoryHonest(e),
           \A j \in 1 .. Len(s) : s[j].prompt # e.prompt
    PROVE  Shelf(Append(s, e)) /\ Len(Append(s, e)) = Len(s) + 1
<1> DEFINE u == Append(s, e)
<1>1. s \in Seq(Story) /\ Len(s) \in Nat  BY DEF Shelf
<1>2. /\ u \in Seq(Story) /\ Len(u) = Len(s) + 1
      /\ \A j \in 1 .. Len(s) + 1 : u[j] = IF j = Len(s) + 1 THEN e ELSE s[j]
  BY <1>1
<1> HIDE DEF u
<1>3. \A j \in 1 .. Len(s) + 1 : j = Len(s) + 1 \/ j \in 1 .. Len(s)  BY <1>1
<1>4. \A j \in 1 .. Len(u) : StoryHonest(u[j])
  BY <1>2, <1>3 DEF Shelf
<1>5. \A i, j \in 1 .. Len(u) : u[i].prompt = u[j].prompt => i = j
  BY <1>2, <1>3 DEF Shelf
<1>6. Shelf(u)  BY <1>2, <1>4, <1>5 DEF Shelf
<1> QED  BY <1>2, <1>6 DEF u

LEMMA ShelfTail ==
    ASSUME NEW s, Shelf(s), Len(s) > 0
    PROVE  Shelf(Tail(s)) /\ Len(Tail(s)) = Len(s) - 1
<1> DEFINE u == Tail(s)
<1>1. s \in Seq(Story) /\ Len(s) \in Nat  BY DEF Shelf
<1>2. s # <<>>  BY <1>1
<1>3. /\ u \in Seq(Story) /\ Len(u) = Len(s) - 1
      /\ \A j \in 1 .. Len(s) - 1 : u[j] = s[j + 1]
  BY <1>1, <1>2
<1> HIDE DEF u
<1>4. \A j \in 1 .. Len(s) - 1 : j + 1 \in 1 .. Len(s)  BY <1>1
<1>5. \A i, j \in 1 .. Len(s) - 1 : i + 1 = j + 1 => i = j  BY <1>1
<1>6. \A i, j \in 1 .. Len(u) : u[i].prompt = u[j].prompt => i = j
  <2> SUFFICES ASSUME NEW i \in 1 .. Len(s) - 1, NEW j \in 1 .. Len(s) - 1,
                      u[i].prompt = u[j].prompt
               PROVE  i = j
    BY <1>3
  <2>1. s[i + 1].prompt = s[j + 1].prompt  BY <1>3
  <2>2. i + 1 = j + 1  BY <2>1, <1>4 DEF Shelf
  <2> QED  BY <2>2, <1>5
<1>7. \A j \in 1 .. Len(u) : StoryHonest(u[j])  BY <1>3, <1>4 DEF Shelf
<1>8. Shelf(u)  BY <1>3, <1>6, <1>7 DEF Shelf
<1> QED  BY <1>3, <1>8 DEF u

\* A call comes or goes among those that ask the model.
LEMMA AskingMoves ==
    ASSUME IsFiniteSet(Asker), TalkType, NEW c \in Asker,
           NEW r \in [at : {"idle", "asking", "passing"}, prompt : Prompt],
           talk' = [talk EXCEPT ![c] = r]
    PROVE  /\ talk' \in [Asker -> [at : {"idle", "asking", "passing"}, prompt : Prompt]]
           /\ Cardinality(Asking) \in Nat
           /\ Cardinality(Asking)' = Cardinality(Asking)
                + (IF r.at = "asking" THEN 1 ELSE 0)
                - (IF talk[c].at = "asking" THEN 1 ELSE 0)
<1>1. talk \in [Asker -> [at : {"idle", "asking", "passing"}, prompt : Prompt]]
  BY DEF TalkType
<1>2. talk' \in [Asker -> [at : {"idle", "asking", "passing"}, prompt : Prompt]]
  BY <1>1
<1>3. IsFiniteSet(Asking)
  <2>1. Asking \subseteq Asker  BY DEF Asking
  <2> QED  BY <2>1, FS_Subset
<1>4. talk'[c] = r /\ \A d \in Asker \ {c} : talk'[d] = talk[d]  BY <1>1
<1>5. Asking' = IF r.at = "asking" THEN Asking \cup {c} ELSE Asking \ {c}
  <2>1. ASSUME NEW d \in Asker
        PROVE  d \in Asking' <=> IF r.at = "asking" THEN d \in Asking \cup {c}
                                                    ELSE d \in Asking \ {c}
    <3>1. d = c \/ talk'[d] = talk[d]  BY <1>4
    <3> QED  BY <1>4, <3>1 DEF Asking
  <2>2. Asking \subseteq Asker /\ Asking' \subseteq Asker  BY DEF Asking
  <2>3. CASE r.at = "asking"  BY <2>1, <2>2, <2>3
  <2>4. CASE r.at # "asking"  BY <2>1, <2>2, <2>4
  <2> QED  BY <2>3, <2>4
<1>6. c \in Asking <=> talk[c].at = "asking"  BY DEF Asking
<1>7. Cardinality(Asking) \in Nat  BY <1>3, FS_CardinalityType
<1>8. Cardinality(Asking \cup {c}) = IF c \in Asking THEN Cardinality(Asking)
                                     ELSE Cardinality(Asking) + 1
  BY <1>3, FS_AddElement
<1>9. Cardinality(Asking \ {c}) = IF c \in Asking THEN Cardinality(Asking) - 1
                                  ELSE Cardinality(Asking)
  BY <1>3, FS_RemoveElement
<1>10. Cardinality(Asking)' = IF r.at = "asking" THEN Cardinality(Asking \cup {c})
                              ELSE Cardinality(Asking \ {c})
  BY <1>5
<1>11. CASE r.at = "asking"  BY <1>2, <1>6, <1>7, <1>8, <1>10, <1>11
<1>12. CASE r.at # "asking"  BY <1>2, <1>6, <1>7, <1>9, <1>10, <1>12
<1> QED  BY <1>11, <1>12

LEMMA SilentIsIdle ==
    ASSUME PartsAssumption
    PROVE  /\ NC!Silent \in [at : {"idle", "asking", "passing"}, prompt : Prompt]
           /\ NC!Silent.at = "idle"
<1>1. (CHOOSE p \in Prompt : TRUE) \in Prompt  BY DEF PartsAssumption, TalkConstants
<1> QED  BY <1>1 DEF NC!Silent

\* The counters.
LEMMA TallyIs ==
    ASSUME TalkType, MaxCalls \in Nat
    PROVE  /\ begun \in Nat /\ tally["hits"] \in Nat /\ tally["misses"] \in Nat /\ tally["bypass"] \in Nat
           /\ tally["raised"] \in Nat /\ tally["refused"] \in Nat
  BY DEF TalkType, NC!Counter

LEMMA SummedMoves ==
    ASSUME NEW b \in Nat, NEW h \in Nat, NEW m \in Nat, NEW y \in Nat, NEW r \in Nat,
           NEW f \in Nat, NEW n \in Nat, Summed(b, h, m, y, r, f, n)
    PROVE  /\ Summed(b + 1, h + 1, m, y, r, f, n) /\ Summed(b + 1, h, m, y + 1, r, f, n)
           /\ Summed(b + 1, h, m, y, r, f, n + 1) /\ Summed(b, h, m, y, r + 1, f, n - 1)
           /\ \A g \in Nat : g <= f + 1 => Summed(b, h, m + 1, y, r, g, n - 1)
  BY DEF Summed

LEMMA TallyUp ==
    ASSUME TalkType, NEW n \in NC!Counter, NC!Count(n)
    PROVE  /\ tally' \in [NC!Counter -> Nat] /\ tally'[n] = tally[n] + 1
           /\ \A k \in NC!Counter \ {n} : tally'[k] = tally[k]
<1>1. tally \in [NC!Counter -> Nat] /\ tally' = [tally EXCEPT ![n] = tally[n] + 1]
  BY DEF TalkType, NC!Count
<1>2. tally[n] + 1 \in Nat  BY <1>1
<1> QED  BY <1>1, <1>2

\* A call begins: it bypasses the cache, finds its prompt, or asks.
LEMMA TalkBegins ==
    ASSUME PartsAssumption, TalkInv, NEW c \in Asker, NEW p \in Prompt,
           NC!Bypass(c, p) \/ NC!Hit(c, p) \/ NC!Miss(c, p)
    PROVE  TalkInv'
<1>0. /\ TalkType /\ Shelf(shelf) /\ Len(shelf) <= NarrSize /\ TalkCounted
      /\ NarrSize \in Nat /\ NarrTTL \in Nat /\ IsFiniteSet(Asker) /\ MaxCalls \in Nat
  BY DEF TalkInv, PartsAssumption, TalkConstants
<1>1. talk[c] = NC!Silent /\ begun < MaxCalls /\ begun' = begun + 1 /\ off' = off
  BY DEF NC!Bypass, NC!Hit, NC!Miss, NC!Begin
<1>2. talk[c].at # "asking"  BY <1>1, SilentIsIdle
<1>3. begun' \in 0 .. MaxCalls /\ off' \in BOOLEAN
  BY <1>0, <1>1 DEF TalkType
<1>4. Len(shelf) \in Nat  BY <1>0 DEF Shelf
<1> DEFINE w == NC!Others(p)
<1>5. /\ Shelf(w) /\ Len(w) <= Len(shelf) /\ Len(w) \in Nat
      /\ \A j \in 1 .. Len(w) : w[j].prompt # p
      /\ NC!Entry(p) # {} => Len(w) < Len(shelf)
  <2>1. /\ Shelf(w) /\ Len(w) <= Len(shelf)
        /\ \A j \in 1 .. Len(w) : w[j].prompt # p
        /\ NC!Entry(p) # {} => Len(w) < Len(shelf)
    BY <1>0, ShelfOthers
  <2> HIDE DEF w
  <2>2. Len(w) \in Nat  BY <2>1 DEF Shelf
  <2> QED  BY <2>1, <2>2
<1>6. CASE NC!Bypass(c, p)
  <2>1. /\ NC!Count("bypass") /\ shelf' = shelf /\ broken' = broken
        /\ talk' = [talk EXCEPT ![c] = [at |-> "passing", prompt |-> p]]
    BY <1>6 DEF NC!Bypass, NC!Go
  <2>2. /\ [at |-> "passing", prompt |-> p]
             \in [at : {"idle", "asking", "passing"}, prompt : Prompt]
        /\ [at |-> "passing", prompt |-> p].at # "asking"
    OBVIOUS
  <2>3. /\ talk' \in [Asker -> [at : {"idle", "asking", "passing"}, prompt : Prompt]]
        /\ Cardinality(Asking) \in Nat /\ Cardinality(Asking)' = Cardinality(Asking)
    <3> DEFINE r == [at |-> "passing", prompt |-> p]
    <3>1. r.at # "asking" /\ r \in [at : {"idle", "asking", "passing"}, prompt : Prompt]
          /\ talk' = [talk EXCEPT ![c] = r]
      BY <2>1, <2>2
    <3> HIDE DEF r
    <3>2. /\ talk' \in [Asker -> [at : {"idle", "asking", "passing"}, prompt : Prompt]]
          /\ Cardinality(Asking) \in Nat
          /\ Cardinality(Asking)' = Cardinality(Asking)
                + (IF r.at = "asking" THEN 1 ELSE 0)
                - (IF talk[c].at = "asking" THEN 1 ELSE 0)
      BY <1>0, <3>1, AskingMoves
    <3>3. Cardinality(Asking)' = Cardinality(Asking) + 0 - 0  BY <1>2, <3>1, <3>2
    <3> QED  BY <3>2, <3>3
  <2>4. /\ tally' \in [NC!Counter -> Nat] /\ tally'["bypass"] = tally["bypass"] + 1
        /\ \A k \in NC!Counter \ {"bypass"} : tally'[k] = tally[k]
    BY <1>0, <2>1, TallyUp DEF NC!Counter
  <2>5. /\ tally'["hits"] = tally["hits"] /\ tally'["misses"] = tally["misses"]
        /\ tally'["raised"] = tally["raised"] /\ tally'["refused"] = tally["refused"]
    BY <2>4 DEF NC!Counter
  <2>6. TalkType'  BY <1>0, <1>3, <2>1, <2>3, <2>4 DEF TalkType
  <2>7. TalkCounted'
    <3>1. Summed(begun + 1, tally["hits"], tally["misses"], tally["bypass"] + 1,
                  tally["raised"], tally["refused"], Cardinality(Asking))
      BY <1>0, <2>3, TallyIs, SummedMoves DEF TalkCounted
    <3> QED  BY <3>1, <1>1, <2>3, <2>4, <2>5 DEF TalkCounted
  <2> QED  BY <1>0, <2>1, <2>6, <2>7 DEF TalkInv
<1>7. CASE NC!Hit(c, p)
  <2>1. NC!Count("hits") /\ talk' = talk  BY <1>7 DEF NC!Hit
  <2>2. PICK i \in NC!Entry(p) :
           /\ NC!Live(shelf[i]) /\ shelf' = Append(w, shelf[i])
           /\ broken' = (broken \/ ~NC!Pure(shelf[i].text) \/ shelf[i].born >= NarrTTL)
    BY <1>7 DEF NC!Hit
  <2>3. i \in 1 .. Len(shelf) /\ shelf[i].prompt = p  BY <2>2 DEF NC!Entry
  <2>4. shelf[i] \in Story /\ StoryHonest(shelf[i])  BY <1>0, <2>3 DEF Shelf
  <2> HIDE DEF w
  <2>5. Shelf(shelf') /\ Len(shelf') = Len(w) + 1
    BY <1>5, <2>2, <2>3, <2>4, ShelfAppend
  <2>6. Len(shelf') <= NarrSize  BY <1>0, <1>4, <1>5, <2>2, <2>5
  <2>7. broken' = FALSE
    <3>1. shelf[i].age \in 0 .. NarrTTL /\ shelf[i].born \in 0 .. NarrTTL + 1
      BY <2>4 DEF Story
    <3>2. NC!Pure(shelf[i].text) /\ shelf[i].born <= shelf[i].age /\ shelf[i].age < NarrTTL
      BY <2>2, <2>4 DEF StoryHonest, NC!Live
    <3>3. ~(shelf[i].born >= NarrTTL)  BY <1>0, <3>1, <3>2
    <3> QED  BY <1>0, <2>2, <3>2, <3>3 DEF TalkType
  <2>8. /\ tally' \in [NC!Counter -> Nat] /\ tally'["hits"] = tally["hits"] + 1
        /\ \A k \in NC!Counter \ {"hits"} : tally'[k] = tally[k]
    BY <1>0, <2>1, TallyUp DEF NC!Counter
  <2>9. /\ tally'["bypass"] = tally["bypass"] /\ tally'["misses"] = tally["misses"]
        /\ tally'["raised"] = tally["raised"] /\ tally'["refused"] = tally["refused"]
    BY <2>8 DEF NC!Counter
  <2>10. TalkType'  BY <1>0, <1>3, <2>1, <2>7, <2>8 DEF TalkType
  <2>11. Asking' = Asking  BY <2>1 DEF Asking
  <2>12. Cardinality(Asking) \in Nat
    <3>1. Asking \subseteq Asker  BY DEF Asking
    <3> QED  BY <1>0, <3>1, FS_Subset, FS_CardinalityType
  <2>13. TalkCounted'
    <3>1. Summed(begun + 1, tally["hits"] + 1, tally["misses"], tally["bypass"],
                  tally["raised"], tally["refused"], Cardinality(Asking))
      BY <1>0, <2>12, TallyIs, SummedMoves DEF TalkCounted
    <3> QED  BY <3>1, <1>1, <2>8, <2>9, <2>11 DEF TalkCounted
  <2> QED  BY <2>5, <2>6, <2>10, <2>13 DEF TalkInv
<1>8. CASE NC!Miss(c, p)
  <2>1. /\ shelf' = w /\ UNCHANGED <<tally, broken>>
        /\ talk' = [talk EXCEPT ![c] = [at |-> "asking", prompt |-> p]]
    BY <1>8 DEF NC!Miss, NC!Go
  <2> HIDE DEF w
  <2>2. /\ [at |-> "asking", prompt |-> p]
             \in [at : {"idle", "asking", "passing"}, prompt : Prompt]
        /\ [at |-> "asking", prompt |-> p].at = "asking"
    OBVIOUS
  <2>3. /\ talk' \in [Asker -> [at : {"idle", "asking", "passing"}, prompt : Prompt]]
        /\ Cardinality(Asking) \in Nat /\ Cardinality(Asking)' = Cardinality(Asking) + 1
    <3> DEFINE r == [at |-> "asking", prompt |-> p]
    <3>1. r.at = "asking" /\ r \in [at : {"idle", "asking", "passing"}, prompt : Prompt]
          /\ talk' = [talk EXCEPT ![c] = r]
      BY <2>1, <2>2
    <3> HIDE DEF r
    <3>2. /\ talk' \in [Asker -> [at : {"idle", "asking", "passing"}, prompt : Prompt]]
          /\ Cardinality(Asking) \in Nat
          /\ Cardinality(Asking)' = Cardinality(Asking)
                + (IF r.at = "asking" THEN 1 ELSE 0)
                - (IF talk[c].at = "asking" THEN 1 ELSE 0)
      BY <1>0, <3>1, AskingMoves
    <3>3. Cardinality(Asking)' = Cardinality(Asking) + 1 - 0  BY <1>2, <3>1, <3>2
    <3> QED  BY <3>2, <3>3
  <2>4. Shelf(shelf') /\ Len(shelf') <= NarrSize  BY <1>0, <1>4, <1>5, <2>1
  <2>5. TalkType'  BY <1>0, <1>3, <2>1, <2>3 DEF TalkType
  <2>6. TalkCounted'
    <3>1. Summed(begun + 1, tally["hits"], tally["misses"], tally["bypass"],
                  tally["raised"], tally["refused"], Cardinality(Asking) + 1)
      BY <1>0, <2>3, TallyIs, SummedMoves DEF TalkCounted
    <3> QED  BY <3>1, <1>1, <2>1, <2>3 DEF TalkCounted
  <2> QED  BY <2>4, <2>5, <2>6 DEF TalkInv
<1> QED  BY <1>6, <1>7, <1>8

\* What is kept after the model's answer.
LEMMA ShelfKept ==
    ASSUME PartsAssumption, Shelf(shelf), Len(shelf) <= NarrSize, NEW p \in Prompt,
           NEW text \in NC!Text, NC!Pure(text)
    PROVE  Shelf(NC!Kept(p, text)) /\ Len(NC!Kept(p, text)) <= NarrSize
<1> DEFINE e == [prompt |-> p, text |-> text, age |-> 0, born |-> 0]
           w == NC!Others(p)
           s == Append(w, e)
<1>1. NC!Kept(p, text) = IF Len(s) > NarrSize THEN Tail(s) ELSE s  BY DEF NC!Kept
<1>2. Shelf(w) /\ Len(w) <= Len(shelf) /\ \A j \in 1 .. Len(w) : w[j].prompt # p
  BY ShelfOthers
<1> HIDE DEF w
<1>3. Len(w) \in Nat /\ Len(shelf) \in Nat /\ NarrSize \in Nat /\ NarrTTL \in Nat
  BY <1>2 DEF Shelf, PartsAssumption, TalkConstants
<1>4. e \in Story /\ e.prompt = p /\ StoryHonest(e)
  <2>1. 0 \in 0 .. NarrTTL /\ 0 \in 0 .. NarrTTL + 1 /\ 0 <= 0  BY <1>3
  <2> QED  BY <2>1 DEF Story, StoryHonest
<1> HIDE DEF e
<1>5. Shelf(s) /\ Len(s) = Len(w) + 1  BY <1>2, <1>4, ShelfAppend
<1> HIDE DEF s
<1>6. CASE Len(s) > NarrSize
  <2>1. Len(s) > 0  BY <1>3, <1>5
  <2>2. Shelf(Tail(s)) /\ Len(Tail(s)) = Len(s) - 1  BY <1>5, <2>1, ShelfTail
  <2>3. Len(s) - 1 <= NarrSize  BY <1>2, <1>3, <1>5
  <2> QED  BY <1>1, <1>6, <2>2, <2>3
<1>7. CASE ~(Len(s) > NarrSize)
  <2>1. Len(s) <= NarrSize  BY <1>3, <1>5, <1>7
  <2> QED  BY <1>1, <1>5, <1>7, <2>1
<1> QED  BY <1>6, <1>7

\* A call ends: the model answers it or fails it, or it passed the cache by.
LEMMA TalkEnds ==
    ASSUME PartsAssumption, TalkInv, NEW c \in Asker,
           (\E text \in NC!Text : NC!Answer(c, text)) \/ NC!Raise(c) \/ NC!Return(c)
    PROVE  TalkInv'
<1>0. /\ TalkType /\ Shelf(shelf) /\ Len(shelf) <= NarrSize /\ TalkCounted
      /\ IsFiniteSet(Asker) /\ MaxCalls \in Nat
  BY DEF TalkInv, PartsAssumption, TalkConstants
<1>1. talk' = [talk EXCEPT ![c] = NC!Silent] /\ UNCHANGED <<off, begun, broken>>
  BY DEF NC!Answer, NC!Raise, NC!Return, NC!End
<1>2. /\ talk' \in [Asker -> [at : {"idle", "asking", "passing"}, prompt : Prompt]]
      /\ Cardinality(Asking) \in Nat
      /\ Cardinality(Asking)' = Cardinality(Asking)
                                  - (IF talk[c].at = "asking" THEN 1 ELSE 0)
  <2>1. /\ talk' \in [Asker -> [at : {"idle", "asking", "passing"}, prompt : Prompt]]
        /\ Cardinality(Asking) \in Nat
        /\ Cardinality(Asking)' = Cardinality(Asking)
                + (IF NC!Silent.at = "asking" THEN 1 ELSE 0)
                - (IF talk[c].at = "asking" THEN 1 ELSE 0)
    BY <1>0, <1>1, SilentIsIdle, AskingMoves
  <2>2. (IF NC!Silent.at = "asking" THEN 1 ELSE 0) = 0  BY SilentIsIdle
  <2> QED  BY <2>1, <2>2
<1>3. CASE \E text \in NC!Text : NC!Answer(c, text)
  <2>1. PICK text \in NC!Text : NC!Answer(c, text)  BY <1>3
  <2>2. /\ talk[c].at = "asking"
        /\ tally' = [tally EXCEPT !["misses"] = tally["misses"] + 1,
                                  !["refused"] = IF NC!Pure(text) THEN tally["refused"]
                                                 ELSE tally["refused"] + 1]
        /\ shelf' = IF NC!Pure(text) THEN NC!Kept(talk[c].prompt, text) ELSE shelf
    BY <2>1 DEF NC!Answer
  <2>3. talk[c].prompt \in Prompt  BY <1>0 DEF TalkType
  <2>4. Shelf(shelf') /\ Len(shelf') <= NarrSize
    <3>1. CASE NC!Pure(text)
      <4>1. shelf' = NC!Kept(talk[c].prompt, text)  BY <2>2, <3>1
      <4>2. Shelf(NC!Kept(talk[c].prompt, text)) /\ Len(NC!Kept(talk[c].prompt, text)) <= NarrSize
        BY <1>0, <2>3, <3>1, ShelfKept
      <4> QED  BY <4>1, <4>2
    <3>2. CASE ~NC!Pure(text)  BY <1>0, <2>2, <3>2
    <3> QED  BY <3>1, <3>2
  <2> DEFINE up == IF NC!Pure(text) THEN tally["refused"] ELSE tally["refused"] + 1
  <2>5. up \in Nat /\ up <= tally["refused"] + 1  BY <1>0, TallyIs
  <2>6. tally' = [tally EXCEPT !["misses"] = tally["misses"] + 1, !["refused"] = up]
    BY <2>2
  <2> HIDE DEF up
  <2>7. /\ tally' \in [NC!Counter -> Nat]
        /\ tally'["hits"] = tally["hits"] /\ tally'["bypass"] = tally["bypass"]
        /\ tally'["raised"] = tally["raised"] /\ tally'["refused"] = up
        /\ tally'["misses"] = tally["misses"] + 1
    <3> DEFINE m == tally["misses"] + 1
    <3>0. tally["misses"] \in Nat  BY <1>0, TallyIs
    <3>1. tally \in [NC!Counter -> Nat] /\ m \in Nat  BY <3>0, <1>0 DEF TalkType
    <3>2. tally' = [tally EXCEPT !["misses"] = m, !["refused"] = up]  BY <2>6
    <3> HIDE DEF m
    <3>3. /\ tally' \in [NC!Counter -> Nat]
          /\ tally'["hits"] = tally["hits"] /\ tally'["bypass"] = tally["bypass"]
          /\ tally'["raised"] = tally["raised"] /\ tally'["refused"] = up
          /\ tally'["misses"] = m
      BY <3>1, <3>2, <2>5 DEF NC!Counter
    <3> QED  BY <3>3 DEF m
  <2>8. TalkType'  BY <1>0, <1>1, <1>2, <2>7 DEF TalkType
  <2>9. Cardinality(Asking)' = Cardinality(Asking) - 1  BY <1>2, <2>2
  <2>10. TalkCounted'
    <3>1. Summed(begun, tally["hits"], tally["misses"] + 1, tally["bypass"],
                  tally["raised"], up, Cardinality(Asking) - 1)
      BY <1>0, <1>2, <2>5, TallyIs, SummedMoves DEF TalkCounted
    <3> QED  BY <3>1, <1>1, <2>7, <2>9 DEF TalkCounted
  <2> QED  BY <2>4, <2>8, <2>10 DEF TalkInv
<1>4. CASE NC!Raise(c)
  <2>1. talk[c].at = "asking" /\ NC!Count("raised") /\ shelf' = shelf
    BY <1>4 DEF NC!Raise
  <2>2. /\ tally' \in [NC!Counter -> Nat] /\ tally'["raised"] = tally["raised"] + 1
        /\ \A k \in NC!Counter \ {"raised"} : tally'[k] = tally[k]
    BY <1>0, <2>1, TallyUp DEF NC!Counter
  <2>3. /\ tally'["hits"] = tally["hits"] /\ tally'["misses"] = tally["misses"]
        /\ tally'["bypass"] = tally["bypass"] /\ tally'["refused"] = tally["refused"]
    BY <2>2 DEF NC!Counter
  <2>4. TalkType'  BY <1>0, <1>1, <1>2, <2>2 DEF TalkType
  <2>5. Cardinality(Asking)' = Cardinality(Asking) - 1  BY <1>2, <2>1
  <2>6. TalkCounted'
    <3>1. Summed(begun, tally["hits"], tally["misses"], tally["bypass"],
                  tally["raised"] + 1, tally["refused"], Cardinality(Asking) - 1)
      BY <1>0, <1>2, TallyIs, SummedMoves DEF TalkCounted
    <3> QED  BY <3>1, <1>1, <2>2, <2>3, <2>5 DEF TalkCounted
  <2> QED  BY <1>0, <2>1, <2>4, <2>6 DEF TalkInv
<1>5. CASE NC!Return(c)
  <2>1. talk[c].at = "passing" /\ UNCHANGED <<shelf, tally>>  BY <1>5 DEF NC!Return
  <2>2. Cardinality(Asking)' = Cardinality(Asking)  BY <1>2, <2>1
  <2>3. TalkType'  BY <1>0, <1>1, <1>2, <2>1 DEF TalkType
  <2>4. TalkCounted'  BY <1>0, <1>1, <2>1, <2>2 DEF TalkCounted
  <2> QED  BY <1>0, <2>1, <2>3, <2>4 DEF TalkInv
<1> QED  BY <1>3, <1>4, <1>5

\* Time passes for what is kept.
LEMMA TalkTick ==
    ASSUME PartsAssumption, TalkInv, NC!Tick
    PROVE  TalkInv'
<1> DEFINE a(i) == IF shelf[i].age < NarrTTL THEN shelf[i].age + 1 ELSE shelf[i].age
           b(i) == IF shelf[i].born <= NarrTTL THEN shelf[i].born + 1 ELSE shelf[i].born
<1>0. /\ TalkType /\ Shelf(shelf) /\ Len(shelf) <= NarrSize /\ TalkCounted
      /\ NarrTTL \in Nat
  BY DEF TalkInv, PartsAssumption, TalkConstants
<1>1. /\ shelf' = [i \in 1 .. Len(shelf) |-> [shelf[i] EXCEPT !.age = a(i), !.born = b(i)]]
      /\ UNCHANGED <<talk, off, tally, begun, broken>>
  BY DEF NC!Tick
<1>2. \A i \in 1 .. Len(shelf) : shelf[i] \in Story
  BY <1>0 DEF Shelf
<1>3. \A e \in Story : e.age \in 0 .. NarrTTL /\ e.born \in 0 .. NarrTTL + 1
  BY DEF Story
<1>4. ASSUME NEW i \in 1 .. Len(shelf)
      PROVE  /\ a(i) \in 0 .. NarrTTL /\ b(i) \in 0 .. NarrTTL + 1
             /\ a(i) < NarrTTL /\ shelf[i].born <= shelf[i].age => b(i) <= a(i)
             /\ a(i) < NarrTTL => shelf[i].age < NarrTTL
  <2>1. shelf[i].age \in 0 .. NarrTTL /\ shelf[i].born \in 0 .. NarrTTL + 1
    BY <1>2, <1>3
  <2>2. \A x \in 0 .. NarrTTL : \A y \in 0 .. NarrTTL + 1 :
           /\ (IF x < NarrTTL THEN x + 1 ELSE x) \in 0 .. NarrTTL
           /\ (IF y <= NarrTTL THEN y + 1 ELSE y) \in 0 .. NarrTTL + 1
           /\ (IF x < NarrTTL THEN x + 1 ELSE x) < NarrTTL
                 => /\ x < NarrTTL
                    /\ y <= x => (IF y <= NarrTTL THEN y + 1 ELSE y)
                                    <= (IF x < NarrTTL THEN x + 1 ELSE x)
    BY <1>0
  <2>3. /\ a(i) \in 0 .. NarrTTL /\ b(i) \in 0 .. NarrTTL + 1
        /\ a(i) < NarrTTL => /\ shelf[i].age < NarrTTL
                             /\ shelf[i].born <= shelf[i].age => b(i) <= a(i)
    BY <2>1, <2>2, Zenon
  <2> QED  BY <2>3
<1> HIDE DEF a, b
<1>5. ASSUME NEW i \in 1 .. Len(shelf)
      PROVE  /\ shelf'[i] \in Story /\ shelf'[i].prompt = shelf[i].prompt
             /\ StoryHonest(shelf'[i])
  <2>1. shelf[i] \in Story /\ StoryHonest(shelf[i])  BY <1>0, <1>2 DEF Shelf
  <2>2. shelf'[i] = [prompt |-> shelf[i].prompt, text |-> shelf[i].text,
                     age |-> a(i), born |-> b(i)]
    BY <1>1, <2>1 DEF Story
  <2>3. shelf'[i] \in Story  BY <2>1, <2>2, <1>4 DEF Story
  <2>4. a(i) < NarrTTL => b(i) <= a(i)  BY <2>1, <1>4 DEF StoryHonest
  <2> QED  BY <2>1, <2>2, <2>3, <2>4 DEF StoryHonest
<1>6. DOMAIN shelf' = 1 .. Len(shelf)  BY <1>1
<1>7. shelf' \in Seq(Story) /\ Len(shelf') = Len(shelf)
  <2>1. Len(shelf) \in Nat  BY <1>0 DEF Shelf
  <2>2. shelf' \in [1 .. Len(shelf) -> Story]  BY <1>1, <1>5, <1>6
  <2> QED  BY <2>1, <2>2, <1>6, LenProperties, SeqDef
<1>8. \A i, j \in 1 .. Len(shelf') : shelf'[i].prompt = shelf'[j].prompt => i = j
  BY <1>0, <1>5, <1>7 DEF Shelf
<1>9. Shelf(shelf')  BY <1>5, <1>7, <1>8 DEF Shelf
<1>10. TalkType'  BY <1>0, <1>1 DEF TalkType
<1>11. TalkCounted'  BY <1>0, <1>1 DEF TalkCounted, Asking
<1> QED  BY <1>0, <1>7, <1>9, <1>10, <1>11 DEF TalkInv

LEMMA TalkSame ==
    ASSUME TalkInv, UNCHANGED <<shelf, talk, tally, begun, broken>>, off' \in BOOLEAN
    PROVE  TalkInv'
<1>1. TalkType'  BY DEF TalkInv, TalkType
<1>2. TalkCounted'  BY DEF TalkInv, TalkCounted, Asking
<1> QED  BY <1>1, <1>2 DEF TalkInv

LEMMA TalkStarts ==
    ASSUME PartsAssumption, NC!Init
    PROVE  TalkInv
<1>1. /\ shelf = <<>> /\ talk = [c \in Asker |-> NC!Silent] /\ off = FALSE
      /\ tally = [n \in NC!Counter |-> 0] /\ begun = 0 /\ broken = FALSE
  BY DEF NC!Init
<1>2. NarrSize \in Nat /\ MaxCalls \in Nat  BY DEF PartsAssumption, TalkConstants
<1>3. TalkType
  <2>1. talk \in [Asker -> [at : {"idle", "asking", "passing"}, prompt : Prompt]]
    BY <1>1, SilentIsIdle
  <2>2. tally \in [NC!Counter -> Nat] /\ begun \in 0 .. MaxCalls  BY <1>1, <1>2
  <2> QED  BY <1>1, <2>1, <2>2 DEF TalkType
<1>4. Asking = {}  BY <1>1, SilentIsIdle DEF Asking
<1>5. TalkCounted
  <2>1. Summed(0, 0, 0, 0, 0, 0, 0)  BY DEF Summed
  <2>2. /\ tally["hits"] = 0 /\ tally["misses"] = 0 /\ tally["bypass"] = 0
        /\ tally["raised"] = 0 /\ tally["refused"] = 0
    BY <1>1 DEF NC!Counter
  <2> QED  BY <2>1, <2>2, <1>1, <1>4, FS_EmptySet DEF TalkCounted
<1>6. Shelf(shelf) /\ Len(shelf) = 0
  <2>1. shelf \in Seq(Story) /\ Len(shelf) = 0 /\ 1 .. Len(shelf) = {}  BY <1>1
  <2> QED  BY <2>1 DEF Shelf
<1>7. Len(shelf) <= NarrSize  BY <1>2, <1>6
<1> QED  BY <1>3, <1>5, <1>6, <1>7 DEF TalkInv

LEMMA TalkNext ==
    ASSUME PartsAssumption, TalkInv, NC!Next
    PROVE  TalkInv'
<1>1. CASE \E c \in Asker : \E p \in Prompt : NC!Bypass(c, p) \/ NC!Hit(c, p) \/ NC!Miss(c, p)
  BY <1>1, TalkBegins
<1>2. CASE \E c \in Asker : \/ \E text \in NC!Text : NC!Answer(c, text)
                            \/ NC!Raise(c) \/ NC!Return(c)
  BY <1>2, TalkEnds
<1>3. CASE NC!Switch
  <2>1. UNCHANGED <<shelf, talk, tally, begun, broken>> /\ off' \in BOOLEAN
    BY <1>3 DEF NC!Switch
  <2> QED  BY <2>1, TalkSame
<1>4. CASE NC!Tick  BY <1>4, TalkTick
<1> QED  BY <1>1, <1>2, <1>3, <1>4 DEF NC!Next

\* Nothing mechanical, nothing twice, nothing uncounted.
LEMMA TalkHonest ==
    ASSUME PartsAssumption, TalkInv
    PROVE  NC!NarrationHonest
<1>1. ASSUME NEW e \in {shelf[i] : i \in 1 .. Len(shelf)}
      PROVE  NC!Pure(e.text) /\ NC!Cardinality(NC!Entry(e.prompt)) = 1
  <2>1. PICK i \in 1 .. Len(shelf) : e = shelf[i]  BY <1>1
  <2>2. NC!Pure(e.text)  BY <2>1 DEF TalkInv, Shelf, StoryHonest
  <2>3. NC!Entry(e.prompt) = {i}  BY <2>1 DEF TalkInv, Shelf, NC!Entry
  <2>4. Cardinality({i}) = 1  BY FS_Singleton
  <2>5. NC!Cardinality({i}) = Cardinality({i})  BY DEF NC!Cardinality, Cardinality
  <2> QED  BY <2>2, <2>3, <2>4, <2>5
<1>2. NC!UnderWay = Cardinality(Asking)
  <2>1. NC!UnderWay = NC!Cardinality(Asking)  BY DEF NC!UnderWay, Asking
  <2>2. NC!Cardinality(Asking) = Cardinality(Asking)  BY DEF NC!Cardinality, Cardinality
  <2> QED  BY <2>1, <2>2
<1>3. /\ begun = tally["hits"] + tally["misses"] + tally["bypass"] + tally["raised"]
                   + NC!UnderWay
      /\ Len(shelf) <= NarrSize /\ broken = FALSE
  BY <1>2 DEF TalkInv, TalkCounted, TalkType, Summed
<1> QED  BY <1>1, <1>3 DEF NC!NarrationHonest

\* No counter passes the number of calls.
LEMMA TalkTypeOK ==
    ASSUME PartsAssumption, TalkInv
    PROVE  NC!TypeOK
<1>1. /\ Cardinality(Asking) \in Nat /\ begun \in 0 .. MaxCalls /\ MaxCalls \in Nat
  <2>1. Asking \subseteq Asker /\ IsFiniteSet(Asker)  BY DEF Asking, PartsAssumption, TalkConstants
  <2> QED  BY <2>1, FS_Subset, FS_CardinalityType
           DEF TalkInv, TalkType, PartsAssumption, TalkConstants
<1>2. /\ tally["hits"] \in 0 .. MaxCalls /\ tally["misses"] \in 0 .. MaxCalls
      /\ tally["bypass"] \in 0 .. MaxCalls /\ tally["raised"] \in 0 .. MaxCalls
      /\ tally["refused"] \in 0 .. MaxCalls
  <2>1. \A b, h, m, y, r, f, n \in Nat :
           b \in 0 .. MaxCalls /\ Summed(b, h, m, y, r, f, n)
              => /\ h \in 0 .. MaxCalls /\ m \in 0 .. MaxCalls /\ y \in 0 .. MaxCalls
                 /\ r \in 0 .. MaxCalls /\ f \in 0 .. MaxCalls
    BY <1>1 DEF Summed
  <2> QED  BY <2>1, <1>1, TallyIs DEF TalkInv, TalkCounted
<1>3. tally \in [NC!Counter -> 0 .. MaxCalls]
  <2>1. tally \in [NC!Counter -> Nat]  BY DEF TalkInv, TalkType
  <2> QED  BY <2>1, <1>2 DEF NC!Counter
<1> QED  BY <1>1, <1>3 DEF TalkInv, TalkType, Shelf, Story, NC!TypeOK

-----------------------------------------------------------------------------
(* Traced spans: SpanBuffer. *)

Rising(s) == \A i, j \in 1 .. Len(s) : i < j => s[i] < s[j]

Queued == SB!Elements(spans)
InHand == SB!Elements(hand)
Away == disk \cup limbo \cup dropped

SpanType ==
    /\ recorded \in Nat
    /\ spans \in Seq(1 .. recorded) /\ hand \in Seq(1 .. recorded)
    /\ disk \subseteq 1 .. recorded /\ limbo \subseteq 1 .. recorded
    /\ dropped \subseteq 1 .. recorded
    /\ reader \in [at : {"idle", "emptying", "settling", "reads"}, upto : 0 .. recorded]

\* No row is in two places, and each is in one.
Placed ==
    /\ disk \cap limbo = {} /\ disk \cap dropped = {} /\ limbo \cap dropped = {}
    /\ Away \cap (Queued \cup InHand) = {}
    /\ 1 .. recorded = Queued \cup InHand \cup Away

Counted ==
    recorded = Len(spans) + Len(hand) + Cardinality(disk) + Cardinality(limbo)
                  + Cardinality(dropped)

\* The batch in hand came before what is queued.
InOrder ==
    /\ Rising(hand) /\ Rising(spans)
    /\ \A i \in 1 .. Len(hand), j \in 1 .. Len(spans) : hand[i] < spans[j]

\* Once the drainer has left its loop, only what came after close() is queued.
TailLate ==
    /\ drainer \in {"tail", "stopped"} => stop /\ Queued \subseteq late
    /\ drainer = "stopped" => hand = <<>>

\* A reader that waits for rows up to n has seen them leave the queue.
ReaderSees ==
    reader.at = "settling" => \A i \in 1 .. Len(spans) : spans[i] > reader.upto

SpanInv ==
    /\ SpanType /\ Placed /\ Counted /\ InOrder /\ TailLate
    /\ ReaderSees /\ SB!FlushedIsRead

\* The rows of a sequence that rises are as many as it is long.
LEMMA RisingCount ==
    ASSUME NEW n \in Nat, NEW s \in Seq(1 .. n), Rising(s)
    PROVE  IsFiniteSet(SB!Elements(s)) /\ Cardinality(SB!Elements(s)) = Len(s)
<1> DEFINE f == [i \in 1 .. Len(s) |-> s[i]]
<1>1. Len(s) \in Nat  OBVIOUS
<1>2. f \in [1 .. Len(s) -> SB!Elements(s)]  BY DEF SB!Elements
<1>3. ASSUME NEW i \in 1 .. Len(s), NEW j \in 1 .. Len(s), i # j
      PROVE  s[i] # s[j]
  <2>1. s[i] \in 1 .. n /\ s[j] \in 1 .. n  BY ElementOfSeq
  <2>2. CASE i < j
    <3>1. s[i] < s[j]  BY <2>2 DEF Rising
    <3> QED  BY <2>1, <3>1
  <2>3. CASE j < i
    <3>1. s[j] < s[i]  BY <2>3 DEF Rising
    <3> QED  BY <2>1, <3>1
  <2> QED  BY <1>1, <1>3, <2>2, <2>3
<1>4. f \in Injection(1 .. Len(s), SB!Elements(s))
  BY <1>2, <1>3 DEF Injection, IsInjective
<1>5. f \in Surjection(1 .. Len(s), SB!Elements(s))
  BY <1>2 DEF Surjection, SB!Elements
<1>6. ExistsBijection(1 .. Len(s), SB!Elements(s))
  BY <1>4, <1>5 DEF ExistsBijection, Bijection
<1>7. IsFiniteSet(1 .. Len(s)) /\ Cardinality(1 .. Len(s)) = Len(s)
  <2>1. PICK k \in Nat : k = Len(s)  BY <1>1
  <2>2. /\ IsFiniteSet(1 .. k)
        /\ Cardinality(1 .. k) = IF 1 > k THEN 0 ELSE k - 1 + 1
    BY FS_Interval
  <2>3. Cardinality(1 .. k) = k  BY <2>2
  <2> QED  BY <2>1, <2>2, <2>3
<1> QED  BY <1>6, <1>7, FS_Bijection

\* Adding a row, and taking the first.
LEMMA RisingAppend ==
    ASSUME NEW n \in Nat, NEW s \in Seq(1 .. n), NEW x \in 1 .. n, Rising(s),
           \A i \in 1 .. Len(s) : s[i] < x
    PROVE  /\ Append(s, x) \in Seq(1 .. n) /\ Rising(Append(s, x))
           /\ SB!Elements(Append(s, x)) = SB!Elements(s) \cup {x}
           /\ Len(Append(s, x)) = Len(s) + 1
           /\ \A i \in 1 .. Len(s) + 1 : Append(s, x)[i] = IF i <= Len(s) THEN s[i] ELSE x
<1>1. /\ Append(s, x) \in Seq(1 .. n) /\ Len(Append(s, x)) = Len(s) + 1
      /\ Len(s) \in Nat
  BY AppendProperties
<1>2. \A i \in 1 .. Len(s) + 1 : Append(s, x)[i] = IF i <= Len(s) THEN s[i] ELSE x
  BY <1>1, AppendProperties
<1>3. Rising(Append(s, x))
  <2> SUFFICES ASSUME NEW i \in 1 .. Len(s) + 1, NEW j \in 1 .. Len(s) + 1, i < j
               PROVE  Append(s, x)[i] < Append(s, x)[j]
    BY <1>1 DEF Rising
  <2>1. i \in 1 .. Len(s) /\ Append(s, x)[i] = s[i]  BY <1>1, <1>2
  <2>2. CASE j <= Len(s)
    <3>1. j \in 1 .. Len(s) /\ Append(s, x)[j] = s[j]  BY <1>1, <1>2, <2>2
    <3> QED  BY <2>1, <3>1 DEF Rising
  <2>3. CASE ~(j <= Len(s))
    <3>1. Append(s, x)[j] = x  BY <1>2, <2>3
    <3> QED  BY <2>1, <3>1
  <2> QED  BY <2>2, <2>3
<1>4. SB!Elements(Append(s, x)) = SB!Elements(s) \cup {x}
  <2>1. ASSUME NEW y \in SB!Elements(Append(s, x))
        PROVE  y \in SB!Elements(s) \cup {x}
    <3>1. PICK i \in 1 .. Len(s) + 1 : y = Append(s, x)[i]
      BY <1>1, <2>1 DEF SB!Elements
    <3>2. CASE i <= Len(s)
      <4>1. i \in 1 .. Len(s) /\ y = s[i]  BY <1>1, <1>2, <3>1, <3>2
      <4> QED  BY <4>1 DEF SB!Elements
    <3>3. CASE ~(i <= Len(s))  BY <1>2, <3>1, <3>3
    <3> QED  BY <3>2, <3>3
  <2>2. ASSUME NEW y \in SB!Elements(s)
        PROVE  y \in SB!Elements(Append(s, x))
    <3>1. PICK i \in 1 .. Len(s) : y = s[i]  BY <2>2 DEF SB!Elements
    <3>2. i \in 1 .. Len(s) + 1 /\ i <= Len(s) /\ y = Append(s, x)[i]
      BY <1>1, <1>2, <3>1
    <3> QED  BY <1>1, <3>2 DEF SB!Elements
  <2>3. x \in SB!Elements(Append(s, x))
    <3>1. Len(s) + 1 \in 1 .. Len(s) + 1 /\ ~(Len(s) + 1 <= Len(s))  BY <1>1
    <3>2. x = Append(s, x)[Len(s) + 1]  BY <1>2, <3>1
    <3> QED  BY <1>1, <3>1, <3>2 DEF SB!Elements
  <2> QED  BY <2>1, <2>2, <2>3
<1> QED  BY <1>1, <1>2, <1>3, <1>4

LEMMA RisingTail ==
    ASSUME NEW n \in Nat, NEW s \in Seq(1 .. n), Rising(s), s # <<>>
    PROVE  /\ Head(s) \in 1 .. n /\ Head(s) = s[1] /\ Len(s) \in Nat \ {0}
           /\ Tail(s) \in Seq(1 .. n) /\ Rising(Tail(s))
           /\ Len(Tail(s)) = Len(s) - 1
           /\ SB!Elements(s) = {s[1]} \cup SB!Elements(Tail(s))
           /\ \A i \in 1 .. Len(s) - 1 : Tail(s)[i] = s[i + 1] /\ s[1] < Tail(s)[i]
<1>1. /\ Head(s) \in 1 .. n /\ Tail(s) \in Seq(1 .. n) /\ Len(Tail(s)) = Len(s) - 1
      /\ Len(s) \in Nat \ {0} /\ Head(s) = s[1]
      /\ \A i \in 1 .. Len(s) - 1 : Tail(s)[i] = s[i + 1]
  BY HeadTailProperties, EmptySeq
<1>2. ASSUME NEW i \in 1 .. Len(s) - 1
      PROVE  i + 1 \in 1 .. Len(s) /\ 1 \in 1 .. Len(s) /\ 1 < i + 1
  BY <1>1
<1>3. \A i \in 1 .. Len(s) - 1 : s[1] < Tail(s)[i]  BY <1>1, <1>2 DEF Rising
<1>4. Rising(Tail(s))
  <2> SUFFICES ASSUME NEW i \in 1 .. Len(s) - 1, NEW j \in 1 .. Len(s) - 1, i < j
               PROVE  Tail(s)[i] < Tail(s)[j]
    BY <1>1 DEF Rising
  <2>1. i + 1 \in 1 .. Len(s) /\ j + 1 \in 1 .. Len(s) /\ i + 1 < j + 1  BY <1>1
  <2>2. s[i + 1] < s[j + 1]  BY <2>1 DEF Rising
  <2> QED  BY <1>1, <2>2
<1>5. SB!Elements(s) = {s[1]} \cup SB!Elements(Tail(s))
  <2>1. ASSUME NEW y \in SB!Elements(s), y # s[1]
        PROVE  y \in SB!Elements(Tail(s))
    <3>1. PICK i \in 1 .. Len(s) : y = s[i]  BY <2>1 DEF SB!Elements
    <3>2. i - 1 \in 1 .. Len(s) - 1 /\ (i - 1) + 1 = i  BY <1>1, <2>1, <3>1
    <3>3. y = Tail(s)[i - 1]  BY <1>1, <3>1, <3>2
    <3> QED  BY <1>1, <3>2, <3>3 DEF SB!Elements
  <2>2. ASSUME NEW y \in SB!Elements(Tail(s))
        PROVE  y \in SB!Elements(s)
    <3>1. PICK i \in 1 .. Len(s) - 1 : y = Tail(s)[i]  BY <1>1, <2>2 DEF SB!Elements
    <3>2. y = s[i + 1] /\ i + 1 \in 1 .. Len(s)  BY <1>1, <1>2, <3>1
    <3> QED  BY <3>2 DEF SB!Elements
  <2>3. s[1] \in SB!Elements(s)  BY <1>1 DEF SB!Elements
  <2> QED  BY <2>1, <2>2, <2>3
<1> QED  BY <1>1, <1>3, <1>4, <1>5

LEMMA NoElements == SB!Elements(<<>>) = {} /\ Rising(<<>>)
  BY DEF SB!Elements, Rising

\* The sets of rows are finite, so they can be counted.
LEMMA SpanFinite ==
    ASSUME SpanType
    PROVE  /\ IsFiniteSet(disk) /\ IsFiniteSet(limbo) /\ IsFiniteSet(dropped)
           /\ Cardinality(disk) \in Nat /\ Cardinality(limbo) \in Nat
           /\ Cardinality(dropped) \in Nat
           /\ Len(spans) \in Nat /\ Len(hand) \in Nat
<1>1. IsFiniteSet(1 .. recorded)  BY FS_Interval DEF SpanType
<1>2. IsFiniteSet(disk) /\ IsFiniteSet(limbo) /\ IsFiniteSet(dropped)
  BY <1>1, FS_Subset DEF SpanType
<1> QED  BY <1>2, FS_CardinalityType DEF SpanType

\* Two sets without a common row.
LEMMA CountApart ==
    ASSUME NEW S, NEW T, IsFiniteSet(S), IsFiniteSet(T), S \cap T = {}
    PROVE  /\ IsFiniteSet(S \cup T)
           /\ Cardinality(S \cup T) = Cardinality(S) + Cardinality(T)
<1>1. Cardinality(S) \in Nat /\ Cardinality(T) \in Nat  BY FS_CardinalityType
<1>2. Cardinality(S \cap T) = 0  BY FS_EmptySet
<1>3. /\ IsFiniteSet(S \cup T)
      /\ Cardinality(S \cup T) = Cardinality(S) + Cardinality(T) - Cardinality(S \cap T)
  BY FS_Union
<1>4. Cardinality(S) + Cardinality(T) - 0 = Cardinality(S) + Cardinality(T)  BY <1>1
<1> QED  BY <1>2, <1>3, <1>4

LEMMA SpanAccounts == SpanInv => SB!RowsAccounted
<1> SUFFICES ASSUME SpanInv
             PROVE  SB!RowsAccounted
  OBVIOUS
<1>1. 1 .. recorded = SB!Elements(spans) \cup SB!Elements(hand) \cup disk \cup limbo
                         \cup dropped
  BY DEF SpanInv, Placed, Away, Queued, InHand
<1>2. recorded = Len(spans) + Len(hand) + SB!Cardinality(disk) + SB!Cardinality(limbo)
                    + SB!Cardinality(dropped)
  <2>1. /\ SB!Cardinality(disk) = Cardinality(disk)
        /\ SB!Cardinality(limbo) = Cardinality(limbo)
        /\ SB!Cardinality(dropped) = Cardinality(dropped)
    BY DEF SB!Cardinality, Cardinality
  <2> QED  BY <2>1 DEF SpanInv, Counted
<1>3. drainer = "stopped" => hand = <<>> /\ SB!Elements(spans) \subseteq late
  BY DEF SpanInv, TailLate, Queued
<1>4. ASSUME NEW i \in 1 .. Len(hand \o spans), NEW j \in 1 .. Len(hand \o spans), i < j
      PROVE  (hand \o spans)[i] < (hand \o spans)[j]
  <2>1. hand \in Seq(1 .. recorded) /\ spans \in Seq(1 .. recorded)  BY DEF SpanInv, SpanType
  <2>2. PICK m \in Nat, n \in Nat : m = Len(hand) /\ n = Len(spans)  BY <2>1
  <2>3. /\ Len(hand \o spans) = m + n
        /\ \A k \in 1 .. m + n :
              (hand \o spans)[k] = IF k <= m THEN hand[k] ELSE spans[k - m]
    BY <2>1, <2>2, ConcatProperties
  <2>4. i \in 1 .. m + n /\ j \in 1 .. m + n  BY <1>4, <2>3
  <2>5. CASE j <= m
    <3>1. i \in 1 .. m /\ j \in 1 .. m  BY <1>4, <2>4, <2>5
    <3>2. hand[i] < hand[j]  BY <1>4, <2>2, <3>1 DEF SpanInv, InOrder, Rising
    <3> QED  BY <2>3, <2>4, <3>1, <3>2
  <2>6. CASE i <= m /\ ~(j <= m)
    <3>1. i \in 1 .. m /\ j - m \in 1 .. n  BY <2>4, <2>6
    <3>2. hand[i] < spans[j - m]  BY <2>2, <3>1 DEF SpanInv, InOrder
    <3> QED  BY <2>3, <2>4, <2>6, <3>2
  <2>7. CASE ~(i <= m)
    <3>1. i - m \in 1 .. n /\ j - m \in 1 .. n /\ i - m < j - m /\ ~(j <= m)
      BY <1>4, <2>4, <2>7
    <3>2. spans[i - m] < spans[j - m]  BY <2>2, <3>1 DEF SpanInv, InOrder, Rising
    <3> QED  BY <2>3, <2>4, <2>7, <3>1, <3>2
  <2> QED  BY <2>5, <2>6, <2>7
<1>5. \A i, j \in 1 .. Len(hand \o spans) :
         i < j => (hand \o spans)[i] < (hand \o spans)[j]
  BY <1>4
<1> QED  BY <1>1, <1>2, <1>3, <1>5, Zenon DEF SB!RowsAccounted

LEMMA SpanStarts == SB!Init => SpanInv
<1> SUFFICES ASSUME SB!Init
             PROVE  SpanInv
  OBVIOUS
<1> USE DEF SB!Init
<1>1. Queued = {} /\ InHand = {} /\ Rising(hand) /\ Rising(spans)
  BY NoElements DEF Queued, InHand
<1>2. SpanType
  <2>1. spans \in Seq(1 .. recorded) /\ hand \in Seq(1 .. recorded)  BY EmptySeq
  <2> QED  BY <2>1 DEF SpanType
<1>3. Placed  BY <1>1 DEF Placed, Away
<1>4. Len(spans) = 0 /\ Len(hand) = 0 /\ Cardinality({}) = 0  BY EmptySeq, FS_EmptySet
<1>5. Counted  BY <1>4 DEF Counted
<1>6. InOrder  BY <1>1, <1>4 DEF InOrder
<1> QED  BY <1>2, <1>3, <1>5, <1>6
         DEF SpanInv, TailLate, ReaderSees, SB!FlushedIsRead

\* The drainer has written what a reader was let in for.
LEMMA SpanReadOn ==
    ASSUME SpanInv, reader' = reader, Away \subseteq Away'
    PROVE  SB!FlushedIsRead'
  BY DEF SpanInv, SB!FlushedIsRead, Away

LEMMA SpanRecord ==
    ASSUME SpanInv, SB!Record
    PROVE  SpanInv'
<1> DEFINE x == recorded + 1
<1>0. SpanType /\ recorded \in Nat /\ x \in Nat  BY DEF SpanInv, SpanType
<1>1. /\ recorded' = x /\ UNCHANGED <<hand, drainer, disk, limbo, stop, reader>>
      /\ late' = IF stop THEN late \cup {x} ELSE late
  BY DEF SB!Record
<1>2. \/ spans' = Append(spans, x) /\ dropped' = dropped
      \/ dropped' = dropped \cup {x} /\ spans' = spans
  BY DEF SB!Record
<1>3. 1 .. recorded \subseteq 1 .. x /\ 1 .. x = 1 .. recorded \cup {x}
      /\ x \notin 1 .. recorded /\ 0 .. recorded \subseteq 0 .. x /\ x \in 1 .. x
  BY <1>0
<1>4. /\ spans \in Seq(1 .. x) /\ hand \in Seq(1 .. x)
      /\ \A i \in 1 .. Len(spans) : spans[i] < x
      /\ \A i \in 1 .. Len(hand) : hand[i] < x
  <2>1. ASSUME NEW s \in Seq(1 .. recorded)
        PROVE  s \in Seq(1 .. x) /\ \A i \in 1 .. Len(s) : s[i] < x
    <3>1. \A i \in 1 .. Len(s) : s[i] \in 1 .. recorded  BY ElementOfSeq
    <3>2. s \in Seq(1 .. x)  BY <1>3, <3>1
    <3> QED  BY <1>0, <3>1, <3>2
  <2> QED  BY <1>0, <2>1 DEF SpanType
<1>5. reader \in [at : {"idle", "emptying", "settling", "reads"}, upto : 0 .. x]
  BY <1>0, <1>3 DEF SpanType
<1>6. reader.upto < x  BY <1>0 DEF SpanType
<1>7. x \notin Queued /\ x \notin InHand /\ x \notin Away
  <2>1. Queued \cup InHand \cup Away = 1 .. recorded  BY DEF SpanInv, Placed
  <2> QED  BY <1>3, <2>1
<1>8. InHand' = InHand  BY <1>1 DEF InHand
<1>c. /\ IsFiniteSet(dropped) /\ Len(spans) \in Nat /\ Len(hand) \in Nat
      /\ Cardinality(disk) \in Nat /\ Cardinality(limbo) \in Nat
      /\ Cardinality(dropped) \in Nat
  BY <1>0, SpanFinite
<1> HIDE DEF x
<1>9. CASE spans' = Append(spans, x) /\ dropped' = dropped
  <2>1. /\ Append(spans, x) \in Seq(1 .. x) /\ Rising(Append(spans, x))
        /\ SB!Elements(Append(spans, x)) = SB!Elements(spans) \cup {x}
        /\ Len(Append(spans, x)) = Len(spans) + 1
        /\ \A i \in 1 .. Len(spans) + 1 :
              Append(spans, x)[i] = IF i <= Len(spans) THEN spans[i] ELSE x
    <3>1. Rising(spans)  BY DEF SpanInv, InOrder
    <3> QED  BY <1>0, <1>3, <1>4, <3>1, RisingAppend
  <2>2. Queued' = Queued \cup {x}  BY <1>9, <2>1 DEF Queued
  <2>3. Away' = Away  BY <1>1, <1>9 DEF Away
  <2>4. SpanType'
    BY <1>0, <1>1, <1>3, <1>4, <1>5, <1>9, <2>1 DEF SpanType
  <2>5. Placed'
    <3>1. 1 .. recorded' = Queued' \cup InHand' \cup Away'
      BY <1>1, <1>3, <1>8, <2>2, <2>3 DEF SpanInv, Placed
    <3>2. Away' \cap (Queued' \cup InHand') = {}
      BY <1>7, <1>8, <2>2, <2>3 DEF SpanInv, Placed
    <3> QED  BY <1>1, <1>9, <3>1, <3>2 DEF SpanInv, Placed
  <2>6. Counted'
    <3>1. Len(spans') = Len(spans) + 1  BY <1>9, <2>1
    <3>2. recorded' = recorded + 1  BY <1>1 DEF x
    <3>3. recorded = Len(spans) + Len(hand) + Cardinality(disk) + Cardinality(limbo)
                        + Cardinality(dropped)
      BY DEF SpanInv, Counted
    <3>4. recorded + 1 = (Len(spans) + 1) + Len(hand) + Cardinality(disk)
                            + Cardinality(limbo) + Cardinality(dropped)
      BY <1>c, <3>3
    <3> QED  BY <1>1, <1>9, <3>1, <3>2, <3>4 DEF Counted
  <2>7. InOrder'
    <3>1. Rising(hand') /\ Rising(spans')  BY <1>1, <1>9, <2>1 DEF SpanInv, InOrder
    <3>2. ASSUME NEW i \in 1 .. Len(hand), NEW j \in 1 .. Len(spans) + 1
          PROVE  hand[i] < Append(spans, x)[j]
      <4>1. CASE j <= Len(spans)
        <5>1. j \in 1 .. Len(spans)  BY <1>c, <4>1
        <5> QED  BY <2>1, <4>1, <5>1 DEF SpanInv, InOrder
      <4>2. CASE ~(j <= Len(spans))  BY <1>4, <2>1, <4>2
      <4> QED  BY <4>1, <4>2
    <3> QED  BY <1>1, <1>9, <2>1, <3>1, <3>2 DEF InOrder
  <2>8. TailLate'  BY <1>1, <2>2 DEF SpanInv, TailLate
  <2>9. ReaderSees'
    <3>1. ASSUME reader.at = "settling", NEW i \in 1 .. Len(spans) + 1
          PROVE  Append(spans, x)[i] > reader.upto
      <4>1. CASE i <= Len(spans)
        <5>1. i \in 1 .. Len(spans)  BY <1>c, <4>1
        <5> QED  BY <2>1, <3>1, <4>1, <5>1 DEF SpanInv, ReaderSees
      <4>2. CASE ~(i <= Len(spans))
        <5>1. reader.upto \in Nat  BY <1>0 DEF SpanType
        <5>2. x > reader.upto  BY <1>0, <1>6, <5>1
        <5> QED  BY <2>1, <4>2, <5>2
      <4> QED  BY <4>1, <4>2
    <3> QED  BY <1>1, <1>9, <2>1, <3>1 DEF ReaderSees
  <2>10. SB!FlushedIsRead'  BY <1>1, <2>3, SpanReadOn
  <2> QED  BY <2>4, <2>5, <2>6, <2>7, <2>8, <2>9, <2>10 DEF SpanInv
<1>10. CASE dropped' = dropped \cup {x} /\ spans' = spans
  <2>1. Queued' = Queued /\ Away' = Away \cup {x}
    BY <1>1, <1>10 DEF Queued, Away
  <2>2. SpanType'
    BY <1>0, <1>1, <1>3, <1>4, <1>5, <1>10 DEF SpanType
  <2>3. Placed'
    <3>1. 1 .. recorded' = Queued' \cup InHand' \cup Away'
      BY <1>1, <1>3, <1>8, <2>1 DEF SpanInv, Placed
    <3>2. Away' \cap (Queued' \cup InHand') = {}
      BY <1>7, <1>8, <2>1 DEF SpanInv, Placed
    <3>3. x \notin disk /\ x \notin limbo  BY <1>7 DEF Away
    <3> QED  BY <1>1, <1>10, <3>1, <3>2, <3>3 DEF SpanInv, Placed
  <2>4. Counted'
    <3>1. x \notin dropped  BY <1>7 DEF Away
    <3>2. Cardinality(dropped') = Cardinality(dropped) + 1
      BY <1>c, <1>10, <3>1, FS_AddElement
    <3>3. recorded' = recorded + 1  BY <1>1 DEF x
    <3>4. recorded = Len(spans) + Len(hand) + Cardinality(disk) + Cardinality(limbo)
                        + Cardinality(dropped)
      BY DEF SpanInv, Counted
    <3>5. recorded + 1 = Len(spans) + Len(hand) + Cardinality(disk)
                            + Cardinality(limbo) + (Cardinality(dropped) + 1)
      BY <1>c, <3>4
    <3> QED  BY <1>1, <1>10, <3>2, <3>3, <3>5 DEF Counted
  <2>5. InOrder'  BY <1>1, <1>10 DEF SpanInv, InOrder
  <2>6. TailLate'  BY <1>1, <2>1 DEF SpanInv, TailLate
  <2>7. ReaderSees'  BY <1>1, <1>10 DEF SpanInv, ReaderSees
  <2>8. SB!FlushedIsRead'  BY <1>1, <2>1, SpanReadOn
  <2> QED  BY <2>2, <2>3, <2>4, <2>5, <2>6, <2>7, <2>8 DEF SpanInv
<1> QED  BY <1>2, <1>9, <1>10

\* A step of the drainer or of a reader that moves no row.
LEMMA SpanStill ==
    ASSUME SpanInv, UNCHANGED <<recorded, spans, hand, disk, limbo, dropped, late>>,
           reader' \in [at : {"idle", "emptying", "settling", "reads"}, upto : 0 .. recorded],
           TailLate', ReaderSees', SB!FlushedIsRead'
    PROVE  SpanInv'
<1>1. SpanType'  BY DEF SpanInv, SpanType
<1>2. Placed'  BY DEF SpanInv, Placed, Away, Queued, InHand
<1>3. Counted' /\ InOrder'  BY DEF SpanInv, Counted, InOrder
<1> QED  BY <1>1, <1>2, <1>3 DEF SpanInv

\* The oldest queued row comes behind the others in hand.
LEMMA SpanCollect ==
    ASSUME SpanInv, SB!Collect
    PROVE  SpanInv'
<1> DEFINE x == spans[1]
<1>0. SpanType /\ recorded \in Nat  BY DEF SpanInv, SpanType
<1>1. /\ drainer = "collecting" /\ spans # <<>>
      /\ hand' = Append(hand, Head(spans)) /\ spans' = Tail(spans)
      /\ UNCHANGED <<recorded, drainer, disk, limbo, dropped, stop, late, reader>>
  BY DEF SB!Collect
<1>2. /\ x \in 1 .. recorded /\ Head(spans) = x /\ Len(spans) \in Nat \ {0}
      /\ Tail(spans) \in Seq(1 .. recorded) /\ Rising(Tail(spans))
      /\ Len(Tail(spans)) = Len(spans) - 1
      /\ SB!Elements(spans) = {x} \cup SB!Elements(Tail(spans))
      /\ \A i \in 1 .. Len(spans) - 1 : Tail(spans)[i] = spans[i + 1] /\ x < Tail(spans)[i]
  <2>1. spans \in Seq(1 .. recorded) /\ Rising(spans)
    BY <1>0 DEF SpanInv, SpanType, InOrder
  <2> QED  BY <1>0, <1>1, <2>1, RisingTail
<1>3. /\ Append(hand, x) \in Seq(1 .. recorded) /\ Rising(Append(hand, x))
      /\ SB!Elements(Append(hand, x)) = SB!Elements(hand) \cup {x}
      /\ Len(Append(hand, x)) = Len(hand) + 1
      /\ \A i \in 1 .. Len(hand) + 1 : Append(hand, x)[i] = IF i <= Len(hand) THEN hand[i] ELSE x
  <2>1. hand \in Seq(1 .. recorded) /\ Rising(hand)
    BY <1>0 DEF SpanInv, SpanType, InOrder
  <2>2. 1 \in 1 .. Len(spans)  BY <1>2
  <2>3. \A i \in 1 .. Len(hand) : hand[i] < x  BY <2>2 DEF SpanInv, InOrder
  <2> QED  BY <1>0, <1>2, <2>1, <2>3, RisingAppend
<1>c. /\ Len(spans) \in Nat /\ Len(hand) \in Nat /\ Cardinality(disk) \in Nat
      /\ Cardinality(limbo) \in Nat /\ Cardinality(dropped) \in Nat
  BY <1>0, SpanFinite
<1> HIDE DEF x
<1>4. hand' = Append(hand, x)  BY <1>1, <1>2
<1>5. /\ InHand' = InHand \cup {x} /\ Queued = {x} \cup Queued' /\ Away' = Away
  BY <1>1, <1>2, <1>3, <1>4 DEF InHand, Queued, Away
<1>6. SpanType'  BY <1>0, <1>1, <1>2, <1>3, <1>4 DEF SpanType
<1>7. Placed'
  <2>1. 1 .. recorded' = Queued' \cup InHand' \cup Away'
    BY <1>1, <1>5 DEF SpanInv, Placed
  <2>2. Away' \cap (Queued' \cup InHand') = {}  BY <1>5 DEF SpanInv, Placed
  <2> QED  BY <1>1, <2>1, <2>2 DEF SpanInv, Placed
<1>8. Counted'
  <2>1. Len(spans') = Len(spans) - 1 /\ Len(hand') = Len(hand) + 1  BY <1>1, <1>2, <1>3, <1>4
  <2>2. recorded = Len(spans) + Len(hand) + Cardinality(disk) + Cardinality(limbo)
                      + Cardinality(dropped)
    BY DEF SpanInv, Counted
  <2>3. recorded = (Len(spans) - 1) + (Len(hand) + 1) + Cardinality(disk)
                      + Cardinality(limbo) + Cardinality(dropped)
    BY <1>c, <2>2
  <2> QED  BY <1>1, <2>1, <2>3 DEF Counted
<1>9. InOrder'
  <2>1. ASSUME NEW i \in 1 .. Len(hand) + 1, NEW j \in 1 .. Len(spans) - 1
        PROVE  Append(hand, x)[i] < Tail(spans)[j]
    <3>1. CASE i <= Len(hand)
      <4>1. i \in 1 .. Len(hand) /\ j + 1 \in 1 .. Len(spans)  BY <1>c, <3>1
      <4>2. hand[i] < spans[j + 1]  BY <4>1 DEF SpanInv, InOrder
      <4> QED  BY <1>2, <1>3, <3>1, <4>2
    <3>2. CASE ~(i <= Len(hand))
      <4>1. Append(hand, x)[i] = x  BY <1>3, <3>2
      <4> QED  BY <1>2, <4>1
    <3> QED  BY <3>1, <3>2
  <2> QED  BY <1>1, <1>2, <1>3, <1>4, <2>1 DEF InOrder
<1>10. TailLate'  BY <1>1 DEF TailLate
<1>11. ReaderSees'
  <2>1. ASSUME reader.at = "settling", NEW i \in 1 .. Len(spans) - 1
        PROVE  Tail(spans)[i] > reader.upto
    <3>1. i + 1 \in 1 .. Len(spans)  BY <1>c
    <3>2. spans[i + 1] > reader.upto  BY <2>1, <3>1 DEF SpanInv, ReaderSees
    <3> QED  BY <1>2, <3>2
  <2> QED  BY <1>1, <1>2, <2>1 DEF ReaderSees
<1>12. SB!FlushedIsRead'  BY <1>1, <1>5, SpanReadOn
<1> QED  BY <1>6, <1>7, <1>8, <1>9, <1>10, <1>11, <1>12 DEF SpanInv

\* After close(), the drainer takes all that is left.
LEMMA SpanLeave ==
    ASSUME SpanInv, SB!Leave
    PROVE  SpanInv'
<1>0. SpanType  BY DEF SpanInv
<1>1. /\ hand = <<>> /\ stop /\ drainer' = "tail" /\ hand' = spans /\ spans' = <<>>
      /\ UNCHANGED <<recorded, disk, limbo, dropped, stop, late, reader>>
  BY DEF SB!Leave
<1>2. InHand = {} /\ InHand' = Queued /\ Queued' = {} /\ Away' = Away
  BY <1>1, NoElements DEF InHand, Queued, Away
<1>3. SpanType'
  <2>1. <<>> \in Seq(1 .. recorded)  BY EmptySeq
  <2> QED  BY <1>0, <1>1, <2>1 DEF SpanType
<1>4. Placed'
  <2>1. 1 .. recorded' = Queued' \cup InHand' \cup Away'
    BY <1>1, <1>2 DEF SpanInv, Placed
  <2>2. Away' \cap (Queued' \cup InHand') = {}  BY <1>2 DEF SpanInv, Placed
  <2> QED  BY <1>1, <2>1, <2>2 DEF SpanInv, Placed
<1>5. Len(<<>>) = 0  OBVIOUS
<1>6. Counted'
  <2>1. recorded = Len(spans) + 0 + Cardinality(disk) + Cardinality(limbo)
                      + Cardinality(dropped)
    BY <1>1, <1>5 DEF SpanInv, Counted
  <2>2. recorded = 0 + Len(spans) + Cardinality(disk) + Cardinality(limbo)
                      + Cardinality(dropped)
    BY <1>0, <2>1, SpanFinite
  <2> QED  BY <1>1, <1>5, <2>2 DEF Counted
<1>7. InOrder'
  BY <1>1, <1>5, NoElements DEF SpanInv, InOrder
<1>8. TailLate'  BY <1>1, <1>2 DEF TailLate
<1>9. ReaderSees'  BY <1>1, <1>5 DEF ReaderSees
<1>10. SB!FlushedIsRead'  BY <1>1, <1>2, SpanReadOn
<1> QED  BY <1>3, <1>4, <1>6, <1>7, <1>8, <1>9, <1>10 DEF SpanInv

\* What was in hand is in the database, or in its transaction.
LEMMA SpanWrite ==
    ASSUME SpanInv, SB!WriteBatch \/ SB!WriteFails
    PROVE  SpanInv'
<1>0. SpanType /\ recorded \in Nat  BY DEF SpanInv, SpanType
<1>1. /\ drainer \in {"writing", "tail"} /\ hand' = <<>>
      /\ drainer' = IF drainer = "tail" THEN "stopped" ELSE "collecting"
      /\ UNCHANGED <<recorded, spans, dropped, stop, late, reader>>
      /\ \/ hand = <<>> /\ disk' = disk \cup InHand /\ limbo' = limbo
         \/ disk' = disk \cup InHand \cup limbo /\ limbo' = {}
         \/ disk' = disk /\ limbo' = limbo \cup InHand
  BY DEF SB!WriteBatch, SB!WriteFails, SB!After, InHand
<1>2. InHand' = {} /\ Queued' = Queued /\ Away' = Away \cup InHand
  BY <1>1, NoElements DEF InHand, Queued, Away
<1>a. hand \in Seq(1 .. recorded) /\ Rising(hand)
  BY <1>0 DEF SpanInv, SpanType, InOrder
<1>b. IsFiniteSet(InHand) /\ Cardinality(InHand) = Len(hand)
  BY <1>0, <1>a, RisingCount DEF InHand
<1>c. InHand \subseteq 1 .. recorded
  BY DEF SpanInv, Placed
<1>d. InHand \cap disk = {} /\ InHand \cap limbo = {} /\ InHand \cap dropped = {}
  BY DEF SpanInv, Placed, Away
<1>e. /\ IsFiniteSet(disk) /\ IsFiniteSet(limbo)
      /\ Len(spans) \in Nat /\ Len(hand) \in Nat /\ Cardinality(disk) \in Nat
      /\ Cardinality(limbo) \in Nat /\ Cardinality(dropped) \in Nat
  BY <1>0, SpanFinite
<1>3. SpanType'
  <2>1. <<>> \in Seq(1 .. recorded)  BY EmptySeq
  <2>2. disk' \subseteq 1 .. recorded /\ limbo' \subseteq 1 .. recorded
    BY <1>0, <1>1, <1>c DEF SpanType
  <2> QED  BY <1>0, <1>1, <2>1, <2>2 DEF SpanType
<1>4. Placed'
  <2>1. 1 .. recorded' = Queued' \cup InHand' \cup Away'
    BY <1>1, <1>2 DEF SpanInv, Placed
  <2>2. InHand \cap Queued = {}
    <3>1. ASSUME NEW i \in 1 .. Len(hand), NEW j \in 1 .. Len(spans)
          PROVE  hand[i] # spans[j]
      <4>1. hand[i] < spans[j]  BY DEF SpanInv, InOrder
      <4>2. hand[i] \in 1 .. recorded /\ spans[j] \in 1 .. recorded
        BY <1>0, ElementOfSeq DEF SpanType
      <4> QED  BY <4>1, <4>2
    <3> QED  BY <3>1 DEF InHand, Queued, SB!Elements
  <2>3. Away' \cap (Queued' \cup InHand') = {}  BY <1>2, <2>2 DEF SpanInv, Placed
  <2>4. disk' \cap limbo' = {} /\ disk' \cap dropped' = {} /\ limbo' \cap dropped' = {}
    BY <1>1, <1>d DEF SpanInv, Placed
  <2> QED  BY <2>1, <2>3, <2>4 DEF Placed
<1>5. Cardinality(disk') + Cardinality(limbo')
        = Cardinality(disk) + Cardinality(limbo) + Len(hand)
      /\ Cardinality(disk') \in Nat /\ Cardinality(limbo') \in Nat
  <2>0. disk \cap limbo = {}  BY DEF SpanInv, Placed
  <2>1. CASE hand = <<>> /\ disk' = disk \cup InHand /\ limbo' = limbo
    <3>1. disk' = disk /\ Len(hand) = 0  BY <2>1, NoElements DEF InHand
    <3>2. Cardinality(disk) + Cardinality(limbo)
            = Cardinality(disk) + Cardinality(limbo) + 0
      BY <1>e
    <3> QED  BY <1>e, <2>1, <3>1, <3>2, Zenon
  <2>2. CASE disk' = disk \cup InHand \cup limbo /\ limbo' = {}
    <3>1. IsFiniteSet(disk \cup InHand)
          /\ Cardinality(disk \cup InHand) = Cardinality(disk) + Cardinality(InHand)
      BY <1>b, <1>d, <1>e, CountApart
    <3>2. (disk \cup InHand) \cap limbo = {}  BY <1>d, <2>0
    <3>3. Cardinality(disk') = Cardinality(disk \cup InHand) + Cardinality(limbo)
      BY <1>e, <2>2, <3>1, <3>2, CountApart
    <3>4. Cardinality(limbo') = 0  BY <2>2, FS_EmptySet
    <3> QED  BY <1>b, <1>e, <3>1, <3>3, <3>4
  <2>3. CASE disk' = disk /\ limbo' = limbo \cup InHand
    <3>1. Cardinality(limbo') = Cardinality(limbo) + Cardinality(InHand)
      BY <1>b, <1>d, <1>e, <2>3, CountApart
    <3> QED  BY <1>b, <1>e, <2>3, <3>1
  <2> QED  BY <1>1, <2>1, <2>2, <2>3
<1>6. Counted'
  <2>1. recorded = Len(spans) + Len(hand) + Cardinality(disk) + Cardinality(limbo)
                      + Cardinality(dropped)
    BY DEF SpanInv, Counted
  <2>2. recorded = Len(spans) + 0 + Cardinality(disk') + Cardinality(limbo')
                      + Cardinality(dropped)
    <3>1. PICK k \in Nat, m \in Nat : k = Cardinality(disk') /\ m = Cardinality(limbo')
      BY <1>5
    <3>2. PICK x \in Nat, y \in Nat, d \in Nat, l \in Nat, z \in Nat :
             /\ x = Len(spans) /\ y = Len(hand) /\ d = Cardinality(disk)
             /\ l = Cardinality(limbo) /\ z = Cardinality(dropped)
      BY <1>e
    <3>3. k + m = d + l + y /\ recorded = x + y + d + l + z  BY <1>5, <2>1, <3>1, <3>2
    <3>4. recorded = x + 0 + k + m + z  BY <3>3
    <3> QED  BY <3>1, <3>2, <3>4
  <2>3. Len(<<>>) = 0  OBVIOUS
  <2> QED  BY <1>1, <2>2, <2>3 DEF Counted
<1>7. InOrder'
  <2>1. Len(<<>>) = 0  OBVIOUS
  <2> QED  BY <1>1, <2>1, NoElements DEF SpanInv, InOrder
<1>8. TailLate'  BY <1>1, <1>2 DEF SpanInv, TailLate
<1>9. ReaderSees'  BY <1>1 DEF SpanInv, ReaderSees
<1>10. SB!FlushedIsRead'
  <2>1. Away \subseteq Away'  BY <1>2
  <2> QED  BY <1>1, <2>1, SpanReadOn
<1> QED  BY <1>3, <1>4, <1>6, <1>7, <1>8, <1>9, <1>10 DEF SpanInv

\* What a reader waits for leaves the queue, and then the drainer's hand.
LEMMA SpanFlush ==
    ASSUME SpanInv,
           \/ SB!FlushBegins \/ SB!FlushSettles \/ SB!FlushReturns
           \/ SB!FlushGivesUp \/ SB!Query
    PROVE  SpanInv'
<1>0. SpanType /\ recorded \in Nat  BY DEF SpanInv, SpanType
<1>1. UNCHANGED <<recorded, spans, hand, drainer, disk, limbo, dropped, stop, late>>
  BY DEF SB!FlushBegins, SB!FlushSettles, SB!FlushReturns, SB!FlushGivesUp, SB!Query
<1>2. TailLate'  BY <1>1 DEF SpanInv, TailLate, Queued
<1>3. reader.upto \in 0 .. recorded  BY <1>0 DEF SpanType
<1>4. PICK where \in {"idle", "emptying", "settling", "reads"}, n \in 0 .. recorded :
         reader' = [at |-> where, upto |-> n]
  BY <1>0, <1>3 DEF SB!FlushBegins, SB!FlushSettles, SB!FlushReturns, SB!FlushGivesUp,
                    SB!Query, SB!Reader
<1>5. reader' \in [at : {"idle", "emptying", "settling", "reads"}, upto : 0 .. recorded]
  BY <1>4
<1>6. reader'.at = "settling" => spans = <<>>
  BY DEF SB!FlushBegins, SB!FlushSettles, SB!FlushReturns, SB!FlushGivesUp,
         SB!Query, SB!Reader
<1>7. ReaderSees'
  <2>1. Len(<<>>) = 0  OBVIOUS
  <2> QED  BY <1>1, <1>6, <2>1 DEF ReaderSees
<1>8. SB!FlushedIsRead'
  <2>1. CASE SB!FlushReturns
    <3>1. /\ reader.at = "settling" /\ reader'.upto = reader.upto
          /\ \A r \in InHand : r > reader.upto
      BY <2>1 DEF SB!FlushReturns, SB!Reader, InHand
    <3>2. \A r \in Queued : r > reader.upto
      BY <3>1 DEF SpanInv, ReaderSees, Queued, SB!Elements
    <3>3. ASSUME NEW r \in 1 .. reader.upto
          PROVE  r \in Away
      <4>1. r \in 1 .. recorded /\ ~(r > reader.upto)  BY <1>0, <1>3
      <4> QED  BY <3>1, <3>2, <4>1 DEF SpanInv, Placed
    <3> QED  BY <1>1, <3>1, <3>3 DEF SB!FlushedIsRead, Away
  <2>2. CASE SB!FlushGivesUp
    <3>1. reader'.upto = 0  BY <2>2 DEF SB!FlushGivesUp, SB!Reader
    <3> QED  BY <3>1 DEF SB!FlushedIsRead
  <2>3. CASE SB!FlushBegins \/ SB!FlushSettles \/ SB!Query
    <3>1. reader'.at # "reads"
      BY <2>3 DEF SB!FlushBegins, SB!FlushSettles, SB!Query, SB!Reader
    <3> QED  BY <3>1 DEF SB!FlushedIsRead
  <2> QED  BY <2>1, <2>2, <2>3
<1> QED  BY <1>1, <1>2, <1>5, <1>7, <1>8, SpanStill

LEMMA SpanNext == SpanInv /\ [SB!Next]_SB!vars => SpanInv'
<1> SUFFICES ASSUME SpanInv, [SB!Next]_SB!vars
             PROVE  SpanInv'
  OBVIOUS
<1>1. CASE SB!Record  BY <1>1, SpanRecord
<1>2. CASE SB!Collect \/ SB!Leave \/ SB!WriteBatch \/ SB!WriteFails
  BY <1>2, SpanCollect, SpanLeave, SpanWrite
<1>3. CASE SB!Close \/ SB!Full \/ UNCHANGED SB!vars
  <2>1. /\ UNCHANGED <<recorded, spans, hand, disk, limbo, dropped, late, reader>>
        /\ stop => stop'
        /\ drainer' = drainer \/ drainer' = "writing"
    BY <1>3 DEF SB!Close, SB!Full, SB!vars
  <2>2. TailLate'  BY <2>1 DEF SpanInv, TailLate, Queued
  <2>3. ReaderSees' /\ SB!FlushedIsRead'
    BY <2>1 DEF SpanInv, ReaderSees, SB!FlushedIsRead
  <2>4. reader' \in [at : {"idle", "emptying", "settling", "reads"}, upto : 0 .. recorded]
    BY <2>1 DEF SpanInv, SpanType
  <2> QED  BY <2>1, <2>2, <2>3, <2>4, SpanStill
<1>4. CASE \/ SB!FlushBegins \/ SB!FlushSettles \/ SB!FlushReturns
           \/ SB!FlushGivesUp \/ SB!Query
  BY <1>4, SpanFlush
<1> QED  BY <1>1, <1>2, <1>3, <1>4 DEF SB!Next

-----------------------------------------------------------------------------
(* Uploads: Ingest. *)

UploadType ==
    /\ game \in Nat /\ world \in Nat /\ game <= world
    /\ DOMAIN upload = IG!Request
    /\ camp \in [IG!Request -> Nat] /\ home \in [IG!Request -> Nat]
    /\ made \in [IG!Request -> Nat]
    /\ DOMAIN button = Upload /\ DOMAIN proof = Upload

\* Before a request makes its character there is none, and later there is.
MadeAt(r) ==
    /\ camp[r] <= world
    /\ upload[r] \in {"idle", "open", "making"} => made[r] = 0 /\ r \notin class
    /\ upload[r] \in {"owning", "classing", "answering"} => made[r] > 0

\* What an answer or a row says of r.
Told(r) ==
    /\ upload[r] = "joined" \/ r \in class => made[r] > 0
    /\ made[r] > 0 /\ r \in Form => home[r] = camp[r] /\ r \in mine
    /\ made[r] > 0 /\ r \in Upload => home[r] >= camp[r]

UploadInv ==
    /\ UploadType /\ (\A r \in IG!Request : MadeAt(r) /\ Told(r))
    /\ IG!ReviewEarned

LEMMA UploadToldIsTrue == UploadInv => IG!ToldIsTrue
  BY DEF UploadInv, Told, IG!ToldIsTrue

LEMMA UploadStarts == IG!Init => UploadInv
<1> SUFFICES ASSUME IG!Init
             PROVE  UploadInv
  OBVIOUS
<1>1. UploadType  BY DEF IG!Init, UploadType
<1>2. \A r \in IG!Request : MadeAt(r) /\ Told(r)  BY DEF IG!Init, MadeAt, Told
<1>3. IG!ReviewEarned  BY DEF IG!Init, IG!ReviewEarned
<1> QED  BY <1>1, <1>2, <1>3 DEF UploadInv

\* What a step that only moves r has to show.
LEMMA UploadOne ==
    ASSUME UploadInv, NEW r \in IG!Request, UploadType', world <= world',
           \A q \in IG!Request : q # r =>
              /\ upload'[q] = upload[q] /\ camp'[q] = camp[q]
              /\ made'[q] = made[q] /\ home'[q] = home[q]
              /\ q \in class' <=> q \in class
              /\ q \in mine' <=> q \in mine,
           MadeAt(r)', Told(r)', IG!ReviewEarned'
    PROVE  UploadInv'
<1>1. ASSUME NEW q \in IG!Request, q # r
      PROVE  MadeAt(q)' /\ Told(q)'
  <2>1. MadeAt(q) /\ Told(q)  BY DEF UploadInv
  <2>2. camp[q] \in Nat /\ world \in Nat /\ world' \in Nat
    BY DEF UploadInv, UploadType
  <2>3. camp'[q] <= world'  BY <1>1, <2>1, <2>2 DEF MadeAt
  <2>4. MadeAt(q)'  BY <1>1, <2>1, <2>3 DEF MadeAt
  <2>5. Told(q)'  BY <1>1, <2>1 DEF Told
  <2> QED  BY <2>4, <2>5
<1> QED  BY <1>1 DEF UploadInv

\* A command or form that goes on, and makes no character by that.
LEMMA UploadGo ==
    ASSUME UploadInv, NEW r \in IG!Request, NEW there,
           UNCHANGED <<game, world, camp, made, home, mine, class>>,
           DOMAIN button' = Upload, DOMAIN proof' = Upload, IG!ReviewEarned',
           upload' = [upload EXCEPT ![r] = there],
           there \in {"idle", "open", "making"}
              => upload[r] \in {"idle", "open", "making"},
           there \in {"owning", "classing", "answering", "joined"} => made[r] > 0
    PROVE  UploadInv'
<1>1. UploadType'  BY DEF UploadInv, UploadType
<1>2. upload'[r] = there /\ \A q \in IG!Request : q # r => upload'[q] = upload[q]
  BY DEF UploadInv, UploadType
<1>3. MadeAt(r) /\ Told(r)  BY DEF UploadInv
<1>4. MadeAt(r)'  BY <1>2, <1>3 DEF MadeAt
<1>5. Told(r)'  BY <1>2, <1>3 DEF Told
<1>6. world <= world'  BY DEF UploadInv, UploadType
<1> QED  BY <1>1, <1>2, <1>4, <1>5, <1>6, UploadOne

LEMMA UploadAsk ==
    ASSUME UploadInv, NEW u \in Upload, IG!Ask(u)
    PROVE  UploadInv'
<1>0. u \in IG!Request  BY DEF IG!Request
<1>1. /\ upload[u] = "idle" /\ camp' = [camp EXCEPT ![u] = game]
      /\ UNCHANGED <<game, world, proof, made, home, mine, class>>
  BY DEF IG!Ask, IG!gameVars, IG!dm20Vars
<1>2. PICK there \in {"no_game", "making", "reading", "offering"} :
         upload' = [upload EXCEPT ![u] = there]
  BY DEF IG!Ask, IG!AskUrl, IG!AskFile, IG!AskManual, IG!Go
<1>3. button' = button \/ button' = [button EXCEPT ![u] = "entry"]
  BY DEF IG!Ask, IG!AskUrl, IG!AskFile, IG!AskManual
<1>4. UploadType'  BY <1>1, <1>2, <1>3 DEF UploadInv, UploadType
<1>5. IG!ReviewEarned'
  BY <1>1, <1>3 DEF UploadInv, UploadType, IG!ReviewEarned
<1>6. /\ upload'[u] = there /\ camp'[u] = game
      /\ \A q \in IG!Request : q # u => upload'[q] = upload[q] /\ camp'[q] = camp[q]
  BY <1>0, <1>1, <1>2 DEF UploadInv, UploadType
<1>7. MadeAt(u) /\ Told(u)  BY <1>0 DEF UploadInv
<1>8. made[u] = 0 /\ u \notin class  BY <1>1, <1>7 DEF MadeAt
<1>9. game <= world  BY DEF UploadInv, UploadType
<1>10. MadeAt(u)'  BY <1>1, <1>6, <1>8, <1>9 DEF MadeAt
<1>11. Told(u)'  BY <1>1, <1>2, <1>6, <1>8 DEF Told
<1>12. world <= world'  BY <1>1 DEF UploadInv, UploadType
<1> QED  BY <1>0, <1>1, <1>4, <1>5, <1>6, <1>10, <1>11, <1>12, UploadOne

\* Sixty of a hundred is more than the characters and one name are worth.
LEMMA UploadScore ==
    ASSUME NEW quality \in IG!Quality, NEW sh \in IG!Sheets,
           NEW c \in IG!ClassWorth, NEW r \in IG!RaceWorth,
           IG!FormFor(IG!Score(quality, sh, c, r)) = "review"
    PROVE  sh = "clean" \/ (sh = "warned" /\ c + r = 40)
<1> USE DEF IG!FormFor, IG!Score, IG!Quality, IG!ClassWorth, IG!RaceWorth
<1>1. CASE sh = "none"  BY <1>1
<1>2. CASE sh = "warned"  BY <1>2
<1> QED  BY <1>1, <1>2 DEF IG!Sheets

\* The commands and the threads up to the button.
LEMMA UploadReads ==
    ASSUME UploadInv, NEW u \in Upload,
           \/ IG!Read(u) \/ IG!Extract(u) \/ IG!Extracted(u) \/ IG!Understand(u)
           \/ IG!Offer(u) \/ IG!Expire(u)
    PROVE  UploadInv'
<1>0. u \in IG!Request  BY DEF IG!Request
<1>1. UNCHANGED <<game, world, camp, made, home, mine, class>>
  BY DEF IG!Read, IG!Extract, IG!Extracted, IG!Understand, IG!Offer, IG!Expire,
         IG!gameVars, IG!dm20Vars
<1>2. PICK there \in {"refused", "failed", "queued", "silent", "extracting",
                      "translating", "offering", "offered", "expired"} :
         upload' = [upload EXCEPT ![u] = there]
  BY DEF IG!Read, IG!Extract, IG!Extracted, IG!Understand, IG!Offer, IG!Expire, IG!Go
<1>3. /\ DOMAIN button' = Upload /\ DOMAIN proof' = Upload
      /\ IG!ReviewEarned'
  <2>1. CASE IG!Read(u) \/ IG!Extract(u) \/ IG!Offer(u)
    <3>1. UNCHANGED <<button, proof>>
      BY <2>1 DEF IG!Read, IG!Extract, IG!Offer, IG!fileVars
    <3> QED  BY <3>1 DEF UploadInv, UploadType, IG!ReviewEarned
  <2>2. CASE IG!Extracted(u) \/ IG!Expire(u)
    <3>1. PICK form \in {"entry", "none"} :
             button' = button \/ button' = [button EXCEPT ![u] = form]
      BY <2>2 DEF IG!Extracted, IG!Expire
    <3>2. proof' = proof  BY <2>2 DEF IG!Extracted, IG!Expire
    <3>3. form # "review"  BY <3>1
    <3> QED  BY <3>1, <3>2, <3>3 DEF UploadInv, UploadType, IG!ReviewEarned
  <2>3. CASE IG!Understand(u)
    <3>1. PICK quality \in IG!Quality, sh \in IG!Sheets,
               c \in IG!ClassWorth, r \in IG!RaceWorth :
             /\ button' = [button EXCEPT ![u] =
                              IG!FormFor(IG!Score(quality, sh, c, r))]
             /\ proof' = [proof EXCEPT ![u] =
                   CASE sh = "none" -> "none"
                     [] sh = "clean" \/ (sh = "warned" /\ c + r = 40) -> "sure"
                     [] OTHER -> "parsed"]
      BY <2>3 DEF IG!Understand
    <3>2. DOMAIN button' = Upload /\ DOMAIN proof' = Upload
      BY <3>1 DEF UploadInv, UploadType
    <3>3. button'[u] = "review" => proof'[u] = "sure"
      <4>1. button'[u] = IG!FormFor(IG!Score(quality, sh, c, r))
        BY <3>1 DEF UploadInv, UploadType
      <4>2. sh = "clean" \/ (sh = "warned" /\ c + r = 40) => proof'[u] = "sure"
        BY <3>1 DEF UploadInv, UploadType
      <4> QED  BY <4>1, <4>2, UploadScore
    <3>4. \A v \in Upload : v # u => button'[v] = button[v] /\ proof'[v] = proof[v]
      BY <3>1 DEF UploadInv, UploadType
    <3> QED  BY <3>2, <3>3, <3>4 DEF UploadInv, IG!ReviewEarned
  <2> QED  BY <2>1, <2>2, <2>3
<1>4. there \notin {"idle", "open", "making", "owning", "classing", "answering", "joined"}
  BY <1>2
<1> QED  BY <1>0, <1>1, <1>2, <1>3, <1>4, UploadGo

LEMMA UploadClick ==
    ASSUME UploadInv, NEW u \in Upload, NEW f \in Form, IG!Click(u, f)
    PROVE  UploadInv'
<1>0. u \in IG!Request /\ f \in IG!Request  BY DEF IG!Request
<1>1. /\ upload[f] = "idle" /\ upload' = [upload EXCEPT ![f] = "open"]
      /\ camp' = [camp EXCEPT ![f] = camp[u]]
      /\ UNCHANGED <<game, world, button, proof, made, home, mine, class>>
  BY DEF IG!Click, IG!Go, IG!gameVars, IG!fileVars, IG!dm20Vars
<1>2. UploadType'  BY <1>0, <1>1 DEF UploadInv, UploadType
<1>3. IG!ReviewEarned'  BY <1>1 DEF UploadInv, IG!ReviewEarned
<1>4. /\ upload'[f] = "open" /\ camp'[f] = camp[u]
      /\ \A q \in IG!Request : q # f => upload'[q] = upload[q] /\ camp'[q] = camp[q]
  BY <1>0, <1>1 DEF UploadInv, UploadType
<1>5. MadeAt(f) /\ Told(f) /\ MadeAt(u)  BY <1>0 DEF UploadInv
<1>6. made[f] = 0 /\ f \notin class /\ camp[u] <= world  BY <1>1, <1>5 DEF MadeAt
<1>7. MadeAt(f)'  BY <1>1, <1>4, <1>6 DEF MadeAt
<1>8. Told(f)'  BY <1>1, <1>4, <1>6 DEF Told
<1>9. world <= world'  BY <1>1 DEF UploadInv, UploadType
<1> QED  BY <1>0, <1>1, <1>2, <1>3, <1>4, <1>7, <1>8, <1>9, UploadOne

\* dm20 makes it where the form says, or in the campaign it has loaded.
LEMMA UploadMake ==
    ASSUME UploadInv, NEW r \in IG!Request, IG!Make(r)
    PROVE  UploadInv'
<1>1. upload[r] = "making" /\ UNCHANGED <<game, world, camp, button, proof, class>>
  BY DEF IG!Make, IG!gameVars, IG!fileVars
<1>2. PICK n \in {0, 1, 2}, there \in {"failed", "classing", "owning"} :
         /\ upload' = [upload EXCEPT ![r] = there] /\ IG!Made(r, n)
         /\ n = 0 => there = "failed"
  BY DEF IG!Make, IG!Go, IG!AfterMaking
<1>3. IG!Target(r) \in Nat /\ camp[r] <= IG!Target(r)
      /\ (r \in Form => IG!Target(r) = camp[r])
  BY DEF IG!Target, UploadInv, UploadType, MadeAt
<1>4. MadeAt(r) /\ Told(r)  BY DEF UploadInv
<1>5. made[r] = 0 /\ r \notin class /\ camp[r] <= world  BY <1>1, <1>4 DEF MadeAt
<1>6. PICK h \in Nat : /\ h = IF n = 0 THEN home[r] ELSE IG!Target(r)
                       /\ home' = [home EXCEPT ![r] = h]
  BY <1>2, <1>3 DEF IG!Made, UploadInv, UploadType
<1>7. made' = [made EXCEPT ![r] = n]
      /\ mine' = IF n > 0 /\ r \in Form THEN mine \cup {r} ELSE mine
  BY <1>2 DEF IG!Made
<1>8. UploadType'  BY <1>1, <1>2, <1>6, <1>7 DEF UploadInv, UploadType
<1>9. IG!ReviewEarned'  BY <1>1 DEF UploadInv, IG!ReviewEarned
<1>10. upload'[r] = there /\ made'[r] = n /\ home'[r] = h
  BY <1>2, <1>6, <1>7 DEF UploadInv, UploadType
<1>11. ASSUME NEW q \in IG!Request, q # r
       PROVE  /\ upload'[q] = upload[q] /\ camp'[q] = camp[q]
              /\ made'[q] = made[q] /\ home'[q] = home[q]
              /\ q \in class' <=> q \in class
              /\ q \in mine' <=> q \in mine
  BY <1>1, <1>2, <1>6, <1>7, <1>11 DEF UploadInv, UploadType
<1>12. MadeAt(r)'
  <2>1. there \notin {"idle", "open", "making"}  BY <1>2
  <2>2. there \in {"owning", "classing", "answering"} => n > 0  BY <1>2
  <2> QED  BY <1>1, <1>5, <1>10, <2>1, <2>2 DEF MadeAt
<1>13. Told(r)'
  <2>1. there # "joined" /\ r \notin class'  BY <1>1, <1>2, <1>5
  <2>2. n > 0 => h = IG!Target(r)  BY <1>6
  <2>3. n > 0 /\ r \in Form => h = camp[r] /\ r \in mine'  BY <1>3, <1>7, <2>2
  <2>4. n > 0 => h >= camp[r]
    <3>1. camp[r] \in Nat  BY DEF UploadInv, UploadType
    <3> QED  BY <1>3, <2>2, <3>1
  <2> QED  BY <1>1, <1>10, <2>1, <2>3, <2>4 DEF Told
<1>14. world <= world'  BY <1>1 DEF UploadInv, UploadType
<1> QED  BY <1>8, <1>9, <1>11, <1>12, <1>13, <1>14, UploadOne

LEMMA UploadOwn ==
    ASSUME UploadInv, NEW u \in Upload, IG!Own(u)
    PROVE  UploadInv'
<1>0. u \in IG!Request  BY DEF IG!Request
<1>1. /\ upload[u] = "owning" /\ upload' = [upload EXCEPT ![u] = "classing"]
      /\ mine' = mine \cup {u} \/ mine' = mine
      /\ UNCHANGED <<game, world, camp, button, proof, made, home, class>>
  BY DEF IG!Own, IG!Go, IG!gameVars, IG!fileVars
<1>2. UploadType'  BY <1>1 DEF UploadInv, UploadType
<1>3. IG!ReviewEarned'  BY <1>1 DEF UploadInv, IG!ReviewEarned
<1>4. upload'[u] = "classing" /\ \A q \in IG!Request : q # u => upload'[q] = upload[q]
  BY <1>0, <1>1 DEF UploadInv, UploadType
<1>5. MadeAt(u) /\ Told(u)  BY <1>0 DEF UploadInv
<1>6. MadeAt(u)' /\ Told(u)'  BY <1>1, <1>4, <1>5 DEF MadeAt, Told
<1>7. world <= world'  BY <1>1 DEF UploadInv, UploadType
<1> QED  BY <1>0, <1>1, <1>2, <1>3, <1>4, <1>6, <1>7, UploadOne

LEMMA UploadClass ==
    ASSUME UploadInv, NEW r \in IG!Request, IG!Class(r)
    PROVE  UploadInv'
<1>1. /\ upload[r] = "classing" /\ upload' = [upload EXCEPT ![r] = "answering"]
      /\ class' = class \cup {r} \/ class' = class
      /\ UNCHANGED <<game, world, camp, button, proof, made, home, mine>>
  BY DEF IG!Class, IG!Go, IG!gameVars, IG!fileVars, IG!dm20Vars
<1>2. UploadType'  BY <1>1 DEF UploadInv, UploadType
<1>3. IG!ReviewEarned'  BY <1>1 DEF UploadInv, IG!ReviewEarned
<1>4. upload'[r] = "answering" /\ \A q \in IG!Request : q # r => upload'[q] = upload[q]
  BY <1>1 DEF UploadInv, UploadType
<1>5. MadeAt(r) /\ Told(r)  BY DEF UploadInv
<1>6. MadeAt(r)' /\ Told(r)'  BY <1>1, <1>4, <1>5 DEF MadeAt, Told
<1>7. world <= world'  BY <1>1 DEF UploadInv, UploadType
<1> QED  BY <1>1, <1>2, <1>3, <1>4, <1>6, <1>7, UploadOne

LEMMA UploadRestart ==
    ASSUME UploadInv, IG!Restart
    PROVE  UploadInv'
<1>1. UNCHANGED <<game, world, camp, proof, made, home, mine, class>>
  BY DEF IG!Restart, IG!gameVars, IG!dm20Vars
<1>2. /\ DOMAIN upload' = IG!Request /\ DOMAIN button' = Upload
      /\ \A r \in IG!Request : upload'[r] \in {"silent", "expired", upload[r]}
      /\ \A r \in IG!Request : upload[r] \in {"open", "making"}
                                 => upload'[r] = "silent"
      /\ \A u \in Upload : button'[u] \in {"none", button[u]}
  BY DEF IG!Restart, IG!Working
<1>3. UploadType'  BY <1>1, <1>2 DEF UploadInv, UploadType
<1>4. ASSUME NEW r \in IG!Request
      PROVE  MadeAt(r)' /\ Told(r)'
  <2>1. MadeAt(r) /\ Told(r)  BY DEF UploadInv
  <2>2. upload'[r] \in {"silent", "expired"} \/ upload'[r] = upload[r]  BY <1>2
  <2> QED  BY <1>1, <2>1, <2>2 DEF MadeAt, Told
<1>5. IG!ReviewEarned'
  BY <1>1, <1>2 DEF UploadInv, IG!ReviewEarned
<1> QED  BY <1>3, <1>4, <1>5 DEF UploadInv

LEMMA UploadNext == UploadInv /\ [IG!Next]_IG!vars => UploadInv'
<1> SUFFICES ASSUME UploadInv, [IG!Next]_IG!vars
             PROVE  UploadInv'
  OBVIOUS
<1>1. ASSUME NEW u \in Upload, IG!Ask(u)
      PROVE  UploadInv'
  BY <1>1, UploadAsk
<1>2. ASSUME NEW u \in Upload, IG!Step(u) \/ IG!Expire(u)
      PROVE  UploadInv'
  BY <1>2, UploadReads, UploadOwn DEF IG!Step
<1>3. ASSUME NEW u \in Upload, NEW f \in Form, IG!Click(u, f)
      PROVE  UploadInv'
  BY <1>3, UploadClick
<1>4. ASSUME NEW f \in Form, IG!Submit(f)
      PROVE  UploadInv'
  <2>1. PICK there \in {"making", "invalid"} : upload' = [upload EXCEPT ![f] = there]
    BY <1>4 DEF IG!Submit, IG!Go, IG!Parsed
  <2>2. /\ upload[f] = "open"
        /\ UNCHANGED <<game, world, camp, made, home, mine, class, button, proof>>
    BY <1>4 DEF IG!Submit, IG!gameVars, IG!dm20Vars, IG!fileVars
  <2>3. DOMAIN button' = Upload /\ DOMAIN proof' = Upload /\ IG!ReviewEarned'
    BY <2>2 DEF UploadInv, UploadType, IG!ReviewEarned
  <2>4. f \in IG!Request  BY DEF IG!Request
  <2> QED  BY <2>1, <2>2, <2>3, <2>4, UploadGo
<1>5. ASSUME NEW r \in IG!Request, IG!Answer(r)
      PROVE  UploadInv'
  <2>1. PICK there \in {"joined", "silent"} : upload' = [upload EXCEPT ![r] = there]
    BY <1>5 DEF IG!Answer, IG!Go
  <2>2. /\ upload[r] = "answering"
        /\ UNCHANGED <<game, world, camp, made, home, mine, class, button, proof>>
    BY <1>5 DEF IG!Answer, IG!gameVars, IG!dm20Vars, IG!fileVars
  <2>3. DOMAIN button' = Upload /\ DOMAIN proof' = Upload /\ IG!ReviewEarned'
    BY <2>2 DEF UploadInv, UploadType, IG!ReviewEarned
  <2>4. made[r] > 0  BY <2>2 DEF UploadInv, MadeAt
  <2> QED  BY <2>1, <2>2, <2>3, <2>4, UploadGo
<1>6. ASSUME NEW r \in IG!Request, IG!Make(r) \/ IG!Class(r)
      PROVE  UploadInv'
  BY <1>6, UploadMake, UploadClass
<1>7. CASE IG!NewCampaign \/ IG!StartGame
  <2>1. UNCHANGED <<upload, camp, button, proof, made, home, mine, class>>
    BY <1>7 DEF IG!NewCampaign, IG!StartGame, IG!fileVars, IG!dm20Vars
  <2>2. game \in Nat /\ world \in Nat /\ game <= world  BY DEF UploadInv, UploadType
  <2>3. game' \in Nat /\ world' \in Nat /\ game' <= world' /\ world <= world'
    BY <1>7, <2>2 DEF IG!NewCampaign, IG!StartGame
  <2>4. UploadType'  BY <2>1, <2>3 DEF UploadInv, UploadType
  <2>5. ASSUME NEW r \in IG!Request
        PROVE  MadeAt(r)' /\ Told(r)'
    <3>1. MadeAt(r) /\ Told(r) /\ camp[r] \in Nat  BY DEF UploadInv, UploadType
    <3>2. camp[r] <= world'  BY <2>2, <2>3, <3>1 DEF MadeAt
    <3> QED  BY <2>1, <3>1, <3>2 DEF MadeAt, Told
  <2>6. IG!ReviewEarned'  BY <2>1 DEF UploadInv, IG!ReviewEarned
  <2> QED  BY <2>4, <2>5, <2>6 DEF UploadInv
<1>8. CASE IG!Restart  BY <1>8, UploadRestart
<1>9. CASE UNCHANGED IG!vars
  BY <1>9 DEF IG!vars, UploadInv, UploadType, MadeAt, Told, IG!ReviewEarned
<1> QED  BY <1>1, <1>2, <1>3, <1>4, <1>5, <1>6, <1>7, <1>8, <1>9
         DEF IG!Next, IG!Finish

-----------------------------------------------------------------------------
(* The tool: Backfill. *)

ToolType ==
    /\ known \subseteq Char /\ classes \in [Char -> BF!Row]
    /\ force \in BOOLEAN /\ dry \in BOOLEAN
    /\ todo \subseteq found /\ found \subseteq Char /\ due \subseteq known
    /\ looking \in [char : Char \cup {BF!Off.char}, had : BF!Row \cup {"off"}]
    /\ exit \in {0, 1, 2, 3, 9}

\* Where each character dm20 had at the start of the run is.
OnTheWay ==
    /\ phase = "collect" => /\ looking = BF!Off /\ exit = 9 /\ todo = found
                            /\ \A c \in due : \/ Home[c] \in toList
                                              \/ c \in found \/ Home[c] \in failed
    /\ phase = "apply" => /\ exit = 9
                          /\ \A c \in due : c \in found \/ Home[c] \in failed
                          /\ \A c \in found : \/ c \in todo \/ dry
                                              \/ looking # BF!Off /\ looking.char = c
                                              \/ classes[c] # "none" \/ c \in refused
    /\ phase \notin {"collect", "apply"} => looking = BF!Off

\* What the tool has seen of a row it is about to write.
Seen ==
    /\ looking # BF!Off => /\ looking.char \in Char /\ looking.had # "off"
                           /\ phase = "apply"
    /\ looking # BF!Off /\ ~force => looking.had = "none" /\ looking.char \notin raced
    /\ \A c \in Char : c \in raced => classes[c] # "none"

ToolInv == ToolType /\ OnTheWay /\ Seen /\ BF!GapClosed

LEMMA ToolOff ==
    /\ BF!Off \in [char : Char \cup {BF!Off.char}, had : BF!Row \cup {"off"}]
    /\ BF!Off.had = "off"
  BY DEF BF!Off

LEMMA ToolStarts == BF!Init => ToolInv
<1> SUFFICES ASSUME BF!Init
             PROVE  ToolInv
  OBVIOUS
<1>1. ToolType
  <2>1. looking \in [char : Char \cup {BF!Off.char}, had : BF!Row \cup {"off"}]
    BY ToolOff DEF BF!Init
  <2>2. known = {} /\ todo = {} /\ found = {} /\ due = {} /\ exit = 9
    BY DEF BF!Init
  <2>3. classes \in [Char -> BF!Row] /\ force \in BOOLEAN /\ dry \in BOOLEAN
    BY DEF BF!Init, BF!Row
  <2> QED  BY <2>1, <2>2, <2>3 DEF ToolType
<1>2. OnTheWay  BY DEF BF!Init, OnTheWay
<1>3. Seen  BY DEF BF!Init, Seen
<1>4. BF!GapClosed  BY DEF BF!Init, BF!GapClosed
<1> QED  BY <1>1, <1>2, <1>3, <1>4 DEF ToolInv

\* The bot writes rows while the tool runs.
LEMMA ToolBot ==
    ASSUME ToolInv, NEW c \in Char, BF!Create(c) \/ BF!Upsert(c)
    PROVE  ToolInv'
<1>1. UNCHANGED <<phase, force, dry, toList, failed, todo, found, looking, refused,
                  exit, due, raced>>
  BY DEF BF!Create, BF!Upsert, BF!tool
<1>2. /\ known \subseteq known' /\ known' \subseteq Char
      /\ classes' \in [Char -> BF!Row]
      /\ \A d \in Char : classes[d] # "none" => classes'[d] # "none"
  <2>1. CASE BF!Create(c)  BY <2>1 DEF BF!Create, ToolInv, ToolType
  <2>2. CASE BF!Upsert(c)
    <3>1. PICK r \in {"bare", "full"} : classes' = [classes EXCEPT ![c] = r]
      BY <2>2 DEF BF!Upsert
    <3>2. known' = known  BY <2>2 DEF BF!Upsert
    <3> QED  BY <3>1, <3>2 DEF ToolInv, ToolType, BF!Row
  <2> QED  BY <2>1, <2>2
<1>3. ToolType'  BY <1>1, <1>2 DEF ToolInv, ToolType
<1>4. OnTheWay'  BY <1>1, <1>2 DEF ToolInv, ToolType, OnTheWay
<1>5. Seen'  BY <1>1, <1>2 DEF ToolInv, ToolType, Seen
<1>6. BF!GapClosed'  BY <1>1, <1>2 DEF ToolInv, ToolType, BF!GapClosed
<1> QED  BY <1>3, <1>4, <1>5, <1>6 DEF ToolInv

\* Every character is on some channel's list.
LEMMA ToolCollects ==
    ASSUME PartsAssumption, ToolInv,
           BF!Start \/ (\E ch \in Channel : BF!List(ch)) \/ BF!Collected
    PROVE  ToolInv'
<1>1. CASE BF!Start
  <2>1. /\ phase' = "collect" /\ force' \in BOOLEAN /\ dry' \in BOOLEAN
        /\ toList' = Channel /\ todo' = {} /\ found' = {}
        /\ exit' = 9 /\ looking' = BF!Off /\ due' = known
        /\ UNCHANGED <<known, classes, raced>>
    BY <1>1 DEF BF!Start
  <2>2. ToolType'  BY <2>1, ToolOff DEF ToolInv, ToolType
  <2>3. \A c \in due' : Home[c] \in toList'
    BY <2>1 DEF PartsAssumption, ToolConstants, ToolInv, ToolType
  <2>4. OnTheWay'  BY <2>1, <2>3 DEF OnTheWay
  <2>5. Seen'  BY <2>1 DEF ToolInv, Seen
  <2>6. BF!GapClosed'  BY <2>1 DEF BF!GapClosed
  <2> QED  BY <2>2, <2>4, <2>5, <2>6 DEF ToolInv
<1>2. ASSUME NEW ch \in Channel, BF!List(ch)
      PROVE  ToolInv'
  <2>1. /\ phase = "collect" /\ toList' = toList \ {ch}
        /\ UNCHANGED <<known, classes, phase, force, dry, looking, refused, exit, due,
                       raced>>
        /\ \/ /\ found' = found \cup {c \in known : Home[c] = ch} /\ todo' = found'
              /\ failed' = failed
           \/ failed' = failed \cup {ch} /\ todo' = todo /\ found' = found
    BY <1>2 DEF BF!List
  <2>2. looking = BF!Off /\ exit = 9 /\ todo = found
    BY <2>1 DEF ToolInv, OnTheWay
  <2>3. found' \subseteq Char /\ todo' = found'  BY <2>1, <2>2 DEF ToolInv, ToolType
  <2>4. ToolType'  BY <2>1, <2>3 DEF ToolInv, ToolType
  <2>5. ASSUME NEW c \in due'
        PROVE  Home[c] \in toList' \/ c \in found' \/ Home[c] \in failed'
    <3>1. c \in known /\ (Home[c] \in toList \/ c \in found \/ Home[c] \in failed)
      BY <2>1, <2>5 DEF ToolInv, ToolType, OnTheWay
    <3> QED  BY <2>1, <3>1
  <2>6. OnTheWay'  BY <2>1, <2>2, <2>3, <2>5 DEF OnTheWay
  <2>7. Seen'  BY <2>1 DEF ToolInv, Seen
  <2>8. BF!GapClosed'  BY <2>1, <2>2 DEF BF!GapClosed
  <2> QED  BY <2>4, <2>6, <2>7, <2>8 DEF ToolInv
<1>3. CASE BF!Collected
  <2>1. /\ phase = "collect" /\ toList = {} /\ phase' = "apply"
        /\ UNCHANGED <<known, classes, force, dry, toList, failed, todo, found, looking,
                       refused, exit, due, raced>>
    BY <1>3 DEF BF!Collected
  <2>2. /\ looking = BF!Off /\ exit = 9 /\ todo = found
        /\ \A c \in due : c \in found \/ Home[c] \in failed
    BY <2>1 DEF ToolInv, OnTheWay
  <2>3. ToolType'  BY <2>1 DEF ToolInv, ToolType
  <2>4. OnTheWay'  BY <2>1, <2>2 DEF OnTheWay
  <2>5. Seen'  BY <2>1, <2>2 DEF ToolInv, Seen
  <2>6. BF!GapClosed'  BY <2>1, <2>2 DEF BF!GapClosed
  <2> QED  BY <2>3, <2>4, <2>5, <2>6 DEF ToolInv
<1> QED  BY <1>1, <1>2, <1>3

\* A row that is there is left alone, unless the operator forces it.
LEMMA ToolLook ==
    ASSUME ToolInv, NEW c \in Char, BF!Look(c)
    PROVE  ToolInv'
<1>1. /\ phase = "apply" /\ looking = BF!Off /\ c \in todo /\ todo' = todo \ {c}
      /\ looking' = IF dry \/ BF!Skipped(c) THEN BF!Off
                    ELSE [char |-> c, had |-> classes[c]]
      /\ UNCHANGED <<known, classes, phase, force, dry, toList, failed, found, refused,
                     exit, due, raced>>
  BY DEF BF!Look
<1>2. classes[c] \in BF!Row /\ classes[c] # "off"
  BY DEF ToolInv, ToolType, BF!Row
<1>3. CASE dry \/ BF!Skipped(c)
  <2>1. looking' = BF!Off  BY <1>1, <1>3
  <2>2. ToolType'  BY <1>1, <2>1, ToolOff DEF ToolInv, ToolType
  <2>3. dry \/ classes[c] # "none"  BY <1>3 DEF BF!Skipped
  <2>4. OnTheWay'  BY <1>1, <2>1, <2>3 DEF ToolInv, OnTheWay
  <2>5. Seen'  BY <1>1, <2>1 DEF ToolInv, Seen
  <2>6. BF!GapClosed'  BY <1>1 DEF ToolInv, OnTheWay, BF!GapClosed
  <2> QED  BY <2>2, <2>4, <2>5, <2>6 DEF ToolInv
<1>4. CASE ~(dry \/ BF!Skipped(c))
  <2>1. looking' = [char |-> c, had |-> classes[c]]  BY <1>1, <1>4
  <2>2. looking'.char = c /\ looking'.had = classes[c]  BY <2>1
  <2>3. looking' # BF!Off  BY <1>2, <2>2, ToolOff
  <2>4. looking' \in [char : Char \cup {BF!Off.char}, had : BF!Row \cup {"off"}]
    BY <1>2, <2>1
  <2>5. ToolType'  BY <1>1, <2>4 DEF ToolInv, ToolType
  <2>6. OnTheWay'  BY <1>1, <2>2, <2>3 DEF ToolInv, OnTheWay
  <2>7. ~force => classes[c] = "none"  BY <1>4 DEF BF!Skipped
  <2>8. ~force => c \notin raced  BY <2>7 DEF ToolInv, Seen
  <2>9. Seen'  BY <1>1, <1>2, <2>2, <2>7, <2>8 DEF ToolInv, Seen
  <2>10. BF!GapClosed'  BY <1>1 DEF ToolInv, OnTheWay, BF!GapClosed
  <2> QED  BY <2>5, <2>6, <2>9, <2>10 DEF ToolInv
<1> QED  BY <1>3, <1>4

LEMMA ToolApply ==
    ASSUME ToolInv, BF!Apply
    PROVE  ToolInv' /\ BF!SubclassKept
<1>0. PICK c \in Char : c = looking.char  BY DEF BF!Apply, ToolInv, Seen
<1>1. /\ looking # BF!Off /\ looking' = BF!Off
      /\ classes' = [classes EXCEPT ![c] = "bare"]
      /\ raced' = IF classes[c] # looking.had THEN raced \cup {c} ELSE raced
      /\ UNCHANGED <<known, phase, force, dry, toList, failed, todo, found, refused,
                     exit, due>>
  BY <1>0 DEF BF!Apply
<1>2. phase = "apply" /\ exit = 9  BY <1>1 DEF ToolInv, Seen, OnTheWay
<1>3. /\ classes' \in [Char -> BF!Row] /\ classes'[c] = "bare"
      /\ \A d \in Char : d # c => classes'[d] = classes[d]
  BY <1>1 DEF ToolInv, ToolType, BF!Row
<1>4. ToolType'  BY <1>1, <1>3, ToolOff DEF ToolInv, ToolType
<1>5. OnTheWay'
  <2>1. \A d \in due : d \in found \/ Home[d] \in failed  BY <1>2 DEF ToolInv, OnTheWay
  <2>2. ASSUME NEW d \in found
        PROVE  d \in todo \/ dry \/ classes'[d] # "none" \/ d \in refused
    <3>1. d \in Char  BY DEF ToolInv, ToolType
    <3>2. d \in todo \/ dry \/ d = c \/ classes[d] # "none" \/ d \in refused
      BY <1>0, <1>2 DEF ToolInv, OnTheWay
    <3> QED  BY <1>3, <3>1, <3>2
  <2> QED  BY <1>1, <1>2, <2>1, <2>2 DEF OnTheWay
<1>6. Seen'
  <2>1. \A d \in Char : d \in raced' => classes'[d] # "none"
    BY <1>1, <1>3 DEF ToolInv, Seen
  <2> QED  BY <1>1, <2>1 DEF Seen
<1>7. BF!GapClosed'  BY <1>1, <1>2 DEF BF!GapClosed
<1>8. BF!SubclassKept
  <2>1. lost' = IF classes[c] = "full" THEN lost \cup {c} ELSE lost
    BY <1>0 DEF BF!Apply
  <2>2. ~force => looking.had = "none" /\ c \notin raced
    BY <1>0, <1>1 DEF ToolInv, Seen
  <2>3. ~force /\ classes[c] = "full" => raced' = raced \cup {c} /\ c \notin raced
    BY <1>1, <2>2
  <2> QED  BY <2>1, <2>3 DEF BF!SubclassKept
<1> QED  BY <1>4, <1>5, <1>6, <1>7, <1>8 DEF ToolInv

LEMMA ToolApplyFails ==
    ASSUME ToolInv, BF!ApplyFails
    PROVE  ToolInv'
<1>1. /\ looking # BF!Off /\ looking' = BF!Off
      /\ UNCHANGED <<known, classes, force, dry, toList, failed, todo, found, due, raced>>
      /\ \/ refused' = refused \cup {looking.char} /\ phase' = phase /\ exit' = exit
         \/ phase' = "off" /\ exit' = 3 /\ refused' = refused
  BY DEF BF!ApplyFails
<1>2. phase = "apply" /\ exit = 9  BY <1>1 DEF ToolInv, Seen, OnTheWay
<1>3. ToolType'  BY <1>1, ToolOff DEF ToolInv, ToolType
<1>4. OnTheWay'  BY <1>1, <1>2 DEF ToolInv, OnTheWay
<1>5. Seen'  BY <1>1 DEF ToolInv, Seen
<1>6. BF!GapClosed'  BY <1>1, <1>2 DEF BF!GapClosed
<1> QED  BY <1>3, <1>4, <1>5, <1>6 DEF ToolInv

\* Success is no failed channel, and then every character was dealt with.
LEMMA ToolFinish ==
    ASSUME ToolInv, BF!Finish
    PROVE  ToolInv'
<1>1. /\ phase = "apply" /\ todo = {} /\ looking = BF!Off
      /\ phase' = "off" /\ exit' = BF!Code
      /\ UNCHANGED <<known, classes, force, dry, toList, failed, todo, found, looking,
                     refused, due, raced>>
  BY DEF BF!Finish
<1>2. exit' \in {0, 1, 2} /\ (exit' = 0 => failed = {})
  BY <1>1 DEF BF!Code
<1>3. ToolType'  BY <1>1, <1>2 DEF ToolInv, ToolType
<1>4. OnTheWay'  BY <1>1 DEF OnTheWay
<1>5. Seen'  BY <1>1 DEF ToolInv, Seen
<1>6. BF!GapClosed'
  BY <1>1, <1>2 DEF ToolInv, OnTheWay, BF!GapClosed
<1> QED  BY <1>3, <1>4, <1>5, <1>6 DEF ToolInv

LEMMA ToolNext ==
    PartsAssumption /\ ToolInv /\ [BF!Next]_BF!vars
       => ToolInv' /\ (BF!SubclassKept \/ UNCHANGED toolVars)
<1> SUFFICES ASSUME PartsAssumption, ToolInv, [BF!Next]_BF!vars
             PROVE  ToolInv' /\ (BF!SubclassKept \/ UNCHANGED toolVars)
  OBVIOUS
<1>1. ASSUME NEW c \in Char, BF!Create(c) \/ BF!Upsert(c) \/ BF!Look(c)
      PROVE  ToolInv' /\ BF!SubclassKept
  <2>1. ToolInv'  BY <1>1, ToolBot, ToolLook
  <2>2. lost' = lost  BY <1>1 DEF BF!Create, BF!Upsert, BF!Look
  <2> QED  BY <2>1, <2>2 DEF BF!SubclassKept
<1>2. CASE BF!Start \/ (\E ch \in Channel : BF!List(ch)) \/ BF!Collected
  <2>1. ToolInv'  BY <1>2, ToolCollects
  <2>2. lost' = lost  BY <1>2 DEF BF!Start, BF!List, BF!Collected
  <2> QED  BY <2>1, <2>2 DEF BF!SubclassKept
<1>3. CASE BF!Apply  BY <1>3, ToolApply
<1>4. CASE BF!ApplyFails \/ BF!Finish
  <2>1. ToolInv'  BY <1>4, ToolApplyFails, ToolFinish
  <2>2. lost' = lost  BY <1>4 DEF BF!ApplyFails, BF!Finish
  <2> QED  BY <2>1, <2>2 DEF BF!SubclassKept
<1>5. CASE UNCHANGED BF!vars
  <2>1. UNCHANGED toolVars  BY <1>5 DEF BF!vars, BF!tool, toolVars
  <2>2. ToolInv'
    BY <2>1 DEF toolVars, ToolInv, ToolType, OnTheWay, Seen, BF!GapClosed
  <2> QED  BY <2>1, <2>2
<1> QED  BY <1>1, <1>2, <1>3, <1>4, <1>5 DEF BF!Next

-----------------------------------------------------------------------------
(* The file: Eligibility. *)

FileInv ==
    /\ file.mtime \in Nat /\ look.mtime \in Nat /\ look.mtime <= file.mtime
    /\ look.mtime = file.mtime => look = file
    /\ poll = "built" => current = EL!Load(look.text)
    /\ seen \in Nat /\ seen <= file.mtime
    /\ EL!SeenIsLoaded

LEMMA FileStarts == EL!Init => FileInv
<1> SUFFICES ASSUME EL!Init
             PROVE  FileInv
  OBVIOUS
<1>1. file.mtime = 0  BY DEF EL!Init
<1> QED  BY <1>1 DEF EL!Init, FileInv, EL!SeenIsLoaded

LEMMA FileNext ==
    PartsAssumption /\ FileInv /\ [EL!Next]_EL!vars => FileInv'
<1> SUFFICES ASSUME PartsAssumption, FileInv, [EL!Next]_EL!vars
             PROVE  FileInv'
  OBVIOUS
<1>0. \A text \in Homebrew : EL!Load(text) = text /\ text # "default"
  BY DEF EL!Load, PartsAssumption, FileConstants
<1>1. CASE EL!Boot
  <2>1. /\ poll' = "built" /\ current' = EL!Load(file.text) /\ look' = file
        /\ UNCHANGED <<file, watched, seen, missed>>
    BY <1>1 DEF EL!Boot
  <2> QED  BY <2>1 DEF FileInv, EL!SeenIsLoaded
<1>2. CASE EL!Watch
  <2>1. /\ poll = "built" /\ poll' = "idle" /\ seen' = file.mtime
        /\ missed' = IF file.mtime = look.mtime THEN {} ELSE {file.mtime}
        /\ UNCHANGED <<file, current, look>>
    BY <1>2 DEF EL!Watch
  <2>2. EL!SeenIsLoaded'
    <3>1. CASE file.mtime = look.mtime
      <4>1. current = EL!Load(file.text)  BY <2>1, <3>1 DEF FileInv
      <4> QED  BY <4>1, <2>1, <1>0 DEF EL!SeenIsLoaded
    <3>2. CASE file.mtime # look.mtime  BY <2>1, <3>2 DEF EL!SeenIsLoaded
    <3> QED  BY <3>1, <3>2
  <2> QED  BY <2>1, <2>2 DEF FileInv
<1>3. CASE EL!Build
  BY <1>3 DEF EL!Build, FileInv, EL!SeenIsLoaded
<1>4. CASE EL!Stat
  <2>1. poll' = "changed" /\ look' = file /\ UNCHANGED <<file, current, watched, seen, missed>>
    BY <1>4 DEF EL!Stat
  <2> QED  BY <2>1 DEF FileInv, EL!SeenIsLoaded
<1>5. CASE EL!Reload
  <2>1. /\ poll' = "idle" /\ seen' = look.mtime /\ UNCHANGED <<file, watched, look>>
        /\ \/ /\ missed' = missed
              /\ current' = IF EL!Load(file.text) = "default" THEN current
                            ELSE EL!Load(file.text)
           \/ missed' = missed \cup {look.mtime}
    BY <1>5 DEF EL!Reload, EL!Accept
  <2>2. EL!SeenIsLoaded'  BY <2>1, <1>0 DEF EL!SeenIsLoaded
  <2> QED  BY <2>1, <2>2 DEF FileInv
<1>6. CASE EL!Edit
  <2>1. PICK text : file' = [text |-> text, mtime |-> file.mtime + 1]
    BY <1>6 DEF EL!Edit
  <2>2. UNCHANGED <<poll, current, watched, seen, look, missed>>  BY <1>6 DEF EL!Edit
  <2>3. file'.mtime = file.mtime + 1  BY <2>1
  <2>4. seen # file'.mtime /\ look.mtime # file'.mtime  BY <2>3 DEF FileInv
  <2> QED  BY <2>2, <2>3, <2>4 DEF FileInv, EL!SeenIsLoaded
<1>7. CASE EL!Restart
  <2>1. poll' = "start" /\ seen' = 0 /\ UNCHANGED <<file, look>>
    BY <1>7 DEF EL!Restart
  <2> QED  BY <2>1 DEF FileInv, EL!SeenIsLoaded
<1>8. CASE UNCHANGED EL!vars
  BY <1>8 DEF EL!vars, FileInv, EL!SeenIsLoaded
<1> QED  BY <1>1, <1>2, <1>3, <1>4, <1>5, <1>6, <1>7, <1>8 DEF EL!Next

-----------------------------------------------------------------------------
(* What the types of the parts add to these invariants. *)

LEMMA HeldTypeStarts ==
    ASSUME PartsAssumption, DM!Init
    PROVE  DM!TypeOK
<1>1. Len(Rules) \in Nat /\ 0 \in 0 .. Window  BY DEF PartsAssumption, DegradedConstants
<1>2. at \in 0 .. Len(Rules)  BY <1>1 DEF DM!Init
<1>3. /\ breaches \in [DM!Rule -> 0 .. Window] /\ recoveries \in [DM!Rule -> 0 .. Window]
      /\ snap \in [DM!Rule -> DM!Level]
  BY <1>1 DEF DM!Init, DM!Level
<1>4. /\ day \in DM!Day /\ over \in [DM!Day -> BOOLEAN] /\ today \in DM!Day
      /\ lastSeen \in DM!Day \cup {DM!NoDay}
  BY DEF DM!Init, DM!Day
<1> QED  BY <1>2, <1>3, <1>4 DEF DM!Init, DM!TypeOK

LEMMA HeldTypeJudge ==
    ASSUME PartsAssumption, DM!TypeOK, DM!Judge
    PROVE  DM!TypeOK'
<1> DEFINE r == Rules[at]
<1>1. Len(Rules) \in Nat /\ Window \in Nat  BY DEF PartsAssumption, DegradedConstants
<1>2. at \in 1 .. Len(Rules)  BY <1>1 DEF DM!TypeOK, DM!Judge
<1>3. r \in DM!Rule  BY <1>2 DEF DM!Rule
<1>4. at' \in 0 .. Len(Rules)
  <2>1. at' = (at + 1) % (Len(Rules) + 1)  BY DEF DM!Judge
  <2> QED  BY <2>1, <1>1, <1>2
<1>5. DM!RuleTrips(r) \/ DM!RuleRecovers(r) \/ DM!RuleCounts(r)  BY DEF DM!Judge
<1> HIDE DEF r
<1>6. /\ breaches \in [DM!Rule -> 0 .. Window] /\ recoveries \in [DM!Rule -> 0 .. Window]
      /\ holds \in [DM!Rule -> BOOLEAN] /\ active \in BOOLEAN
      /\ reason \in DM!Rule \cup {"budget", "none"}
  BY DEF DM!TypeOK
<1>7. /\ active' \in BOOLEAN /\ reason' \in DM!Rule \cup {"budget", "none"}
      /\ holds' \in [DM!Rule -> BOOLEAN]
  BY <1>3, <1>5, <1>6 DEF DM!RuleTrips, DM!RuleRecovers, DM!RuleCounts, DM!Trip, DM!Recover,
                          DM!flag
<1>8. breaches[r] \in 0 .. Window /\ recoveries[r] \in 0 .. Window  BY <1>3, <1>6
<1>9. PICK b, q : /\ breaches' = [breaches EXCEPT ![r] = b]
                  /\ recoveries' = [recoveries EXCEPT ![r] = q]
                  /\ b \in {0, Window, DM!Breaches(r)}
                  /\ q = 0 \/ (q = DM!Recoveries(r) /\ q < Window)
  BY <1>5 DEF DM!RuleTrips, DM!RuleRecovers, DM!RuleCounts
<1>10. b \in 0 .. Window
  <2>1. DM!Breaches(r) \in {0, Window, breaches[r]}
           \/ (breaches[r] < Window /\ DM!Breaches(r) = breaches[r] + 1)
    BY DEF DM!Breaches
  <2> QED  BY <2>1, <1>1, <1>8, <1>9
<1>11. q \in 0 .. Window
  <2>1. DM!Recoveries(r) \in {0, recoveries[r] + 1}  BY DEF DM!Recoveries
  <2> QED  BY <2>1, <1>1, <1>8, <1>9
<1>12. /\ breaches' \in [DM!Rule -> 0 .. Window] /\ recoveries' \in [DM!Rule -> 0 .. Window]
  BY <1>6, <1>9, <1>10, <1>11
<1> QED  BY <1>4, <1>7, <1>12 DEF DM!Judge, DM!spending, DM!budgetVars, DM!TypeOK

LEMMA HeldTypeNext ==
    ASSUME PartsAssumption, DM!TypeOK, [DM!Next]_DM!vars
    PROVE  DM!TypeOK'
<1>0. Len(Rules) \in Nat /\ Window \in Nat  BY DEF PartsAssumption, DegradedConstants
<1>1. CASE DM!Sample
  <2>1. at' \in 0 .. Len(Rules)
    <3>1. CASE Rules = <<>>  BY <1>0, <1>1, <3>1 DEF DM!Sample
    <3>2. CASE Rules # <<>>
      <4>1. Len(Rules) # 0  BY <3>2 DEF PartsAssumption, DegradedConstants
      <4> QED  BY <1>0, <1>1, <3>2, <4>1 DEF DM!Sample
    <3> QED  BY <3>1, <3>2
  <2> QED  BY <1>1, <2>1
           DEF DM!Sample, DM!TypeOK, DM!flag, DM!spending, DM!budgetVars
<1>2. CASE DM!Judge  BY <1>2, HeldTypeJudge
<1>3. CASE DM!BudgetTick
  BY <1>3 DEF DM!BudgetTick, DM!BudgetLooks, DM!BudgetRecovers, DM!BudgetSums, DM!Trip,
              DM!Recover, DM!TypeOK, DM!flag, DM!alertVars, DM!spending
<1>4. CASE DM!Spend \/ DM!Midnight
  <2>1. day' \in DM!Day
    BY <1>4 DEF DM!Spend, DM!Midnight, DM!TypeOK, DM!Day
  <2>2. over' \in [DM!Day -> BOOLEAN]
    <3>1. \E d \in {day, 1 - day}, b \in BOOLEAN : over' = [over EXCEPT ![d] = b]
      BY <1>4 DEF DM!Spend, DM!Midnight
    <3> QED  BY <3>1 DEF DM!TypeOK
  <2> QED  BY <1>4, <2>1, <2>2 DEF DM!Spend, DM!Midnight, DM!TypeOK, DM!flag, DM!alertVars,
                             DM!budgetVars
<1>5. CASE DM!Restart
  <2>1. PICK S \in SUBSET DM!Rule : DM!Boot(S)  BY <1>5 DEF DM!Restart
  <2>2. UNCHANGED <<day, over>>  BY <1>5 DEF DM!Restart, DM!spending
  <2>3. active' \in BOOLEAN /\ reason' \in DM!Rule \cup {"budget", "none"}
    BY <2>1 DEF DM!Boot, DM!Trip, DM!Recover, DM!Rule
  <2>4. at' \in 0 .. Len(Rules) /\ snap' \in [DM!Rule -> DM!Level]
    BY <1>0, <2>1 DEF DM!Boot, DM!Level
  <2>5. /\ breaches' \in [DM!Rule -> 0 .. Window]
        /\ recoveries' \in [DM!Rule -> 0 .. Window] /\ holds' \in [DM!Rule -> BOOLEAN]
    <3>1. 0 \in 0 .. Window /\ Window \in 0 .. Window  BY <1>0
    <3> QED  BY <2>1, <3>1 DEF DM!Boot
  <2>6. /\ budget' = "idle" /\ today' = day /\ lastSeen' = day  BY <2>1 DEF DM!Boot
  <2> QED  BY <2>2, <2>3, <2>4, <2>5, <2>6 DEF DM!TypeOK
<1>6. CASE UNCHANGED DM!vars
  BY <1>6 DEF DM!vars, DM!flag, DM!alertVars, DM!spending, DM!budgetVars, DM!TypeOK
<1> QED  BY <1>1, <1>2, <1>3, <1>4, <1>5, <1>6 DEF DM!Next

LEMMA MemoryTypeOK ==
    ASSUME PartsAssumption, MemoryInv, memoryFaults \in 0 .. MaxMemoryFaults
    PROVE  MM!TypeOK
<1>1. MM!Free.mon \in Monster  BY DEF PartsAssumption, MemoryConstants, MM!Free
<1>2. MemoryType  BY DEF MemoryInv
<1> QED  BY <1>1, <1>2 DEF MemoryType, MM!TypeOK

LEMMA MemoryFaults ==
    ASSUME memoryFaults \in 0 .. MaxMemoryFaults, MaxMemoryFaults \in Nat,
           [MM!Next]_MM!vars
    PROVE  memoryFaults' \in 0 .. MaxMemoryFaults
<1>1. \/ memoryFaults' = memoryFaults
      \/ memoryFaults < MaxMemoryFaults /\ memoryFaults' = memoryFaults + 1
  BY DEF MM!Next, MM!Recall, MM!Flush, MM!Load, MM!Hydrate, MM!Upsert, MM!PurgeRows,
         MM!PurgeEntries, MM!Hit, MM!Crash, MM!vars
<1> QED  BY <1>1

LEMMA SheetTypeOK ==
    ASSUME PartsAssumption, SheetInv
    PROVE  CC!TypeOK
<1>1. /\ CharTTL \in Nat /\ MaxVersions \in Nat /\ sheet \in 1 .. MaxVersions /\ SheetType
  BY DEF PartsAssumption, SheetConstants, SheetInv, SheetType
<1>2. 0 .. sheet \subseteq 0 .. MaxVersions /\ 0 .. CharTTL \subseteq 0 .. CharTTL + 1
  BY <1>1
<1>3. row \in [version : 0 .. MaxVersions, age : 0 .. CharTTL + 1]
  BY <1>1, <1>2 DEF SheetType
<1>4. fetching \in [Caller -> [at : {"idle", "fetching", "fetched"}, age : 0 .. CharTTL + 1,
                               had : 0 .. MaxVersions, got : 0 .. MaxVersions]]
  <2> DEFINE S == [at : {"idle", "fetching", "fetched"},
                   age : 0 .. CharTTL, had : 0 .. sheet, got : 0 .. sheet]
             T == [at : {"idle", "fetching", "fetched"}, age : 0 .. CharTTL + 1,
                   had : 0 .. MaxVersions, got : 0 .. MaxVersions]
  <2>1. S \subseteq T  BY <1>2
  <2>2. fetching \in [Caller -> S]  BY <1>1 DEF SheetType
  <2> HIDE DEF S, T
  <2>3. fetching \in [Caller -> T]  BY <2>1, <2>2
  <2> QED  BY <2>3 DEF T
<1> QED  BY <1>1, <1>3, <1>4 DEF SheetType, CC!TypeOK, CC!Version, CC!Age

LEMMA CacheTypeOK ==
    ASSUME CacheInv, cacheFaults \in 0 .. MaxCacheFaults
    PROVE  RC!TypeOK
  BY DEF CacheInv, CacheType, Memo, RC!TypeOK

\* The bounds of the span buffer; the rest of its type follows from SpanType.
SpanBounds ==
    /\ recorded <= MaxRows /\ Len(spans) <= Depth
    /\ drainer \in {"collecting", "writing", "tail", "stopped"}
    /\ late \subseteq 1 .. recorded /\ stop \in BOOLEAN /\ errors \in 0 .. MaxErrors

LEMMA SpanTypeOK ==
    ASSUME PartsAssumption, SpanInv, SpanBounds
    PROVE  SB!TypeOK
<1>1. MaxRows \in Nat /\ SpanType  BY DEF PartsAssumption, SpanConstants, SpanInv
<1>2. 1 .. recorded \subseteq SB!Row /\ 0 .. recorded \subseteq 0 .. MaxRows
  BY <1>1 DEF SpanType, SpanBounds, SB!Row
<1>3. \A s \in Seq(1 .. recorded) : s \in Seq(SB!Row)
  <2> SUFFICES ASSUME NEW s \in Seq(1 .. recorded)
               PROVE  s \in Seq(SB!Row)
    OBVIOUS
  <2>1. s \in [1 .. Len(s) -> 1 .. recorded] /\ Len(s) \in Nat  BY LenProperties
  <2>2. s \in [1 .. Len(s) -> SB!Row]  BY <1>2, <2>1
  <2> QED  BY <2>1, <2>2, SeqDef
<1>4. spans \in Seq(SB!Row) /\ hand \in Seq(SB!Row)  BY <1>1, <1>3 DEF SpanType
<1>5. recorded \in 0 .. MaxRows  BY <1>1 DEF SpanType, SpanBounds
<1>6. reader \in [at : {"idle", "emptying", "settling", "reads"}, upto : 0 .. MaxRows]
  BY <1>1, <1>2 DEF SpanType
<1> QED  BY <1>1, <1>2, <1>4, <1>5, <1>6 DEF SpanType, SpanBounds, SB!TypeOK

LEMMA SpanBoundsNext ==
    ASSUME PartsAssumption, SpanInv, SpanBounds, [SB!Next]_SB!vars
    PROVE  SpanBounds'
<1>0. /\ MaxRows \in Nat /\ Depth \in Nat /\ MaxErrors \in Nat /\ recorded \in Nat
      /\ spans \in Seq(1 .. recorded) /\ Len(spans) \in Nat
  BY DEF PartsAssumption, SpanConstants, SpanInv, SpanType
<1>1. CASE SB!Record
  <2>1. recorded' = recorded + 1 /\ recorded < MaxRows  BY <1>1 DEF SB!Record
  <2>2. Len(spans') <= Depth
    <3>1. CASE Len(spans) < Depth
      <4>1. spans' = Append(spans, recorded + 1)  BY <1>1, <3>1 DEF SB!Record
      <4>2. Len(spans') = Len(spans) + 1  BY <4>1, <1>0
      <4> QED  BY <4>2, <3>1, <1>0
    <3>2. CASE ~(Len(spans) < Depth)
      <4>1. spans' = spans  BY <1>1, <3>2 DEF SB!Record
      <4> QED  BY <4>1 DEF SpanBounds
    <3> QED  BY <3>1, <3>2
  <2>3. late' \subseteq 1 .. recorded'
    <3>1. late' \subseteq late \cup {recorded + 1}  BY <1>1 DEF SB!Record
    <3>2. 1 .. recorded \subseteq 1 .. recorded' /\ recorded + 1 \in 1 .. recorded'
      BY <2>1, <1>0
    <3> QED  BY <3>1, <3>2 DEF SpanBounds
  <2>4. recorded' <= MaxRows  BY <2>1, <1>0
  <2> QED  BY <1>1, <2>2, <2>3, <2>4 DEF SB!Record, SpanBounds
<1>2. CASE SB!Collect
  <2>1. spans # <<>> /\ spans' = Tail(spans)  BY <1>2 DEF SB!Collect
  <2>2. Len(spans') = Len(spans) - 1  BY <2>1, <1>0
  <2>3. Len(spans') <= Depth  BY <2>2, <1>0 DEF SpanBounds
  <2> QED  BY <1>2, <2>3 DEF SB!Collect, SpanBounds
<1>3. CASE SB!Leave
  <2>1. Len(spans') = 0  BY <1>3 DEF SB!Leave
  <2>2. Len(spans') <= Depth  BY <2>1, <1>0
  <2> QED  BY <1>3, <2>2 DEF SB!Leave, SpanBounds
<1>4. CASE SB!Full \/ SB!WriteBatch \/ SB!Close
  BY <1>4 DEF SB!Full, SB!WriteBatch, SB!Close, SB!After, SpanBounds
<1>5. CASE SB!WriteFails \/ SB!FlushGivesUp
  <2>1. errors' \in 0 .. MaxErrors
    <3>1. errors < MaxErrors /\ errors' = errors + 1
      BY <1>5 DEF SB!WriteFails, SB!FlushGivesUp
    <3> QED  BY <3>1, <1>0 DEF SpanBounds
  <2> QED  BY <1>5, <2>1 DEF SB!WriteFails, SB!FlushGivesUp, SB!After, SpanBounds
<1>6. CASE SB!FlushBegins \/ SB!FlushSettles \/ SB!FlushReturns \/ SB!Query
  BY <1>6 DEF SB!FlushBegins, SB!FlushSettles, SB!FlushReturns, SB!Query, SpanBounds
<1>7. CASE UNCHANGED SB!vars  BY <1>7 DEF SB!vars, SpanBounds
<1> QED  BY <1>1, <1>2, <1>3, <1>4, <1>5, <1>6, <1>7 DEF SB!Next

LEMMA UploadTypeStarts ==
    ASSUME PartsAssumption, IG!Init
    PROVE  IG!TypeOK
<1>1. 0 \in 0 .. MaxEvents /\ 0 \in 0 .. 2  BY DEF PartsAssumption
<1>2. /\ upload \in [IG!Request -> IG!Idle \cup IG!Working \cup IG!Over \cup {"offered", "open"}]
  BY DEF IG!Init, IG!Idle
<1> QED  BY <1>1, <1>2 DEF IG!Init, IG!TypeOK

LEMMA UploadTypeFault ==
    ASSUME PartsAssumption, IG!TypeOK, IG!Fault
    PROVE  uploadFaults' \in 0 .. MaxEvents
<1>1. world \in Nat /\ uploadFaults \in Nat /\ MaxEvents \in Nat
  BY DEF PartsAssumption, IG!TypeOK
<1>2. world + uploadFaults < MaxEvents /\ uploadFaults' = uploadFaults + 1
  BY DEF IG!Fault
<1> QED  BY <1>1, <1>2

\* Where requests go.
UploadPlaces == IG!Idle \cup IG!Working \cup IG!Over \cup {"offered", "open"}

LEMMA UploadTypeSteps ==
    ASSUME PartsAssumption, IG!TypeOK, NEW u \in Upload,
           IG!Ask(u) \/ IG!Step(u) \/ IG!Expire(u)
    PROVE  IG!TypeOK'
<1>0. u \in IG!Request /\ IG!Idle \subseteq UploadPlaces /\ IG!Working \subseteq UploadPlaces
      /\ IG!Over \subseteq UploadPlaces /\ {"offered", "open"} \subseteq UploadPlaces
  BY DEF IG!Request, UploadPlaces
<1>1. /\ upload \in [IG!Request -> UploadPlaces] /\ pool \in Seq(Upload)
      /\ button \in [Upload -> {"none", "entry", "review"}]
      /\ proof \in [Upload -> {"none", "parsed", "sure"}]
  BY DEF IG!TypeOK, UploadPlaces
<1>2. ASSUME NEW there \in UploadPlaces, IG!Go(u, there)
      PROVE  upload' \in [IG!Request -> UploadPlaces]
  BY <1>0, <1>1, <1>2 DEF IG!Go
<1>3. IG!Fault => uploadFaults' \in 0 .. MaxEvents  BY UploadTypeFault
<1>4. {"no_game", "making", "reading", "offering", "refused", "failed", "queued", "silent",
       "extracting", "translating", "offered", "expired", "classing"} \subseteq UploadPlaces
  BY DEF UploadPlaces, IG!Working, IG!Over
<1>5. CASE IG!Ask(u)
  <2>1. upload' \in [IG!Request -> UploadPlaces]
    <3>1. \E there \in {"no_game", "making", "reading", "offering"} : IG!Go(u, there)
      BY <1>5 DEF IG!Ask, IG!AskUrl, IG!AskFile, IG!AskManual
    <3> QED  BY <3>1, <1>2, <1>4
  <2>2. button' \in [Upload -> {"none", "entry", "review"}]
    BY <1>1, <1>5 DEF IG!Ask, IG!AskUrl, IG!AskFile, IG!AskManual
  <2>3. camp' \in [IG!Request -> 0 .. MaxEvents]
    BY <1>0, <1>5 DEF IG!Ask, IG!TypeOK
  <2> QED  BY <1>5, <2>1, <2>2, <2>3
           DEF IG!Ask, IG!TypeOK, IG!gameVars, IG!dm20Vars, UploadPlaces
<1>6. CASE IG!Read(u)
  <2>1. upload' \in [IG!Request -> UploadPlaces]
    BY <1>0, <1>1, <1>2, <1>4, <1>6 DEF IG!Read
  <2>2. pool' \in Seq(Upload)
    <3>1. pool' \in {pool, Append(pool, u)}  BY <1>6 DEF IG!Read
    <3> QED  BY <3>1, <1>1
  <2>3. uploadFaults' \in 0 .. MaxEvents  BY <1>3, <1>6 DEF IG!Read, IG!TypeOK
  <2> QED  BY <1>6, <2>1, <2>2, <2>3
           DEF IG!Read, IG!TypeOK, IG!gameVars, IG!dm20Vars, UploadPlaces
<1>7. CASE IG!Extract(u)
  <2>1. upload' \in [IG!Request -> UploadPlaces]  BY <1>2, <1>4, <1>7 DEF IG!Extract
  <2>2. pool' \in Seq(Upload)  BY <1>1, <1>7 DEF IG!Extract
  <2>3. busy' \subseteq Upload  BY <1>7 DEF IG!Extract, IG!TypeOK
  <2> QED  BY <1>7, <2>1, <2>2, <2>3
           DEF IG!Extract, IG!TypeOK, IG!gameVars, IG!dm20Vars, UploadPlaces
<1>8. CASE IG!Extracted(u)
  <2>1. upload' \in [IG!Request -> UploadPlaces]  BY <1>2, <1>4, <1>8 DEF IG!Extracted
  <2>2. button' \in [Upload -> {"none", "entry", "review"}]
    BY <1>1, <1>8 DEF IG!Extracted
  <2>3. busy' \subseteq Upload  BY <1>8 DEF IG!Extracted, IG!TypeOK
  <2> QED  BY <1>8, <2>1, <2>2, <2>3
           DEF IG!Extracted, IG!TypeOK, IG!gameVars, IG!dm20Vars, UploadPlaces
<1>9. CASE IG!Understand(u)
  <2>1. upload' \in [IG!Request -> UploadPlaces]  BY <1>2, <1>4, <1>9 DEF IG!Understand
  <2>2. PICK form, shown : /\ button' = [button EXCEPT ![u] = form]
                           /\ form \in {"entry", "review"}
                           /\ proof' = [proof EXCEPT ![u] = shown]
                           /\ shown \in {"none", "parsed", "sure"}
    <3>1. PICK quality \in IG!Quality, outcome \in IG!Sheets, c \in IG!ClassWorth,
               r \in IG!RaceWorth :
             /\ button' = [button EXCEPT ![u] =
                              IG!FormFor(IG!Score(quality, outcome, c, r))]
             /\ proof' = [proof EXCEPT ![u] =
                   CASE outcome = "none" -> "none"
                     [] outcome = "clean" \/ (outcome = "warned" /\ c + r = 40) -> "sure"
                     [] OTHER -> "parsed"]
      BY <1>9 DEF IG!Understand
    <3> DEFINE s == IG!Score(quality, outcome, c, r)
    <3>2. IG!FormFor(s) \in {"entry", "review"}  BY DEF IG!FormFor
    <3> HIDE DEF s
    <3> DEFINE p == CASE outcome = "none" -> "none"
                      [] outcome = "clean" \/ (outcome = "warned" /\ c + r = 40) -> "sure"
                      [] OTHER -> "parsed"
    <3>3. p \in {"none", "parsed", "sure"}
      <4>1. CASE outcome = "none"
        BY <4>1, "none" # "clean", "none" # "warned"
      <4>2. CASE outcome # "none" /\ (outcome = "clean" \/ (outcome = "warned" /\ c + r = 40))
        BY <4>2
      <4>3. CASE outcome # "none" /\ ~(outcome = "clean" \/ (outcome = "warned" /\ c + r = 40))
        BY <4>3
      <4> QED  BY <4>1, <4>2, <4>3
    <3> QED  BY <3>1, <3>2, <3>3 DEF s
  <2>3. /\ button' \in [Upload -> {"none", "entry", "review"}]
        /\ proof' \in [Upload -> {"none", "parsed", "sure"}]
    BY <1>1, <2>2
  <2> QED  BY <1>9, <2>1, <2>3
           DEF IG!Understand, IG!TypeOK, IG!gameVars, IG!dm20Vars, UploadPlaces
<1>10. CASE IG!Offer(u)
  <2>1. upload' \in [IG!Request -> UploadPlaces]  BY <1>2, <1>4, <1>10 DEF IG!Offer
  <2>2. uploadFaults' \in 0 .. MaxEvents  BY <1>3, <1>10 DEF IG!Offer, IG!TypeOK
  <2> QED  BY <1>10, <2>1, <2>2
           DEF IG!Offer, IG!TypeOK, IG!gameVars, IG!fileVars, IG!dm20Vars, UploadPlaces
<1>11. CASE IG!Own(u)
  <2>1. upload' \in [IG!Request -> UploadPlaces]  BY <1>2, <1>4, <1>11 DEF IG!Own
  <2>2. uploadFaults' \in 0 .. MaxEvents  BY <1>3, <1>11 DEF IG!Own, IG!TypeOK
  <2>3. mine' \subseteq IG!Request  BY <1>0, <1>11 DEF IG!Own, IG!TypeOK
  <2> QED  BY <1>11, <2>1, <2>2, <2>3
           DEF IG!Own, IG!TypeOK, IG!gameVars, IG!fileVars, UploadPlaces
<1>12. CASE IG!Expire(u)
  <2>1. upload' \in [IG!Request -> UploadPlaces]  BY <1>2, <1>4, <1>12 DEF IG!Expire
  <2>2. button' \in [Upload -> {"none", "entry", "review"}]  BY <1>1, <1>12 DEF IG!Expire
  <2> QED  BY <1>12, <2>1, <2>2
           DEF IG!Expire, IG!TypeOK, IG!gameVars, IG!dm20Vars, UploadPlaces
<1> QED  BY <1>5, <1>6, <1>7, <1>8, <1>9, <1>10, <1>11, <1>12 DEF IG!Step

LEMMA UploadTypeFinish ==
    ASSUME PartsAssumption, IG!TypeOK, NEW r \in IG!Request, IG!Finish(r)
    PROVE  IG!TypeOK'
<1>1. /\ upload \in [IG!Request -> UploadPlaces]
      /\ camp \in [IG!Request -> 0 .. MaxEvents] /\ home \in [IG!Request -> 0 .. MaxEvents]
      /\ made \in [IG!Request -> 0 .. 2]
      /\ world \in 0 .. MaxEvents
  BY DEF IG!TypeOK, UploadPlaces
<1>2. ASSUME NEW there \in UploadPlaces, IG!Go(r, there)
      PROVE  upload' \in [IG!Request -> UploadPlaces]
  BY <1>1, <1>2 DEF IG!Go
<1>3. IG!Fault => uploadFaults' \in 0 .. MaxEvents  BY UploadTypeFault
<1>4. {"failed", "silent", "classing", "owning", "answering", "joined"} \subseteq UploadPlaces
  BY DEF UploadPlaces, IG!Working, IG!Over
<1>5. ASSUME NEW n \in 0 .. 2, IG!Made(r, n)
      PROVE  /\ made' \in [IG!Request -> 0 .. 2] /\ home' \in [IG!Request -> 0 .. MaxEvents]
             /\ mine' \subseteq IG!Request
  <2>1. IG!Target(r) \in 0 .. MaxEvents  BY <1>1 DEF IG!Target
  <2>2. made' \in [IG!Request -> 0 .. 2]  BY <1>1, <1>5 DEF IG!Made
  <2>3. home' \in [IG!Request -> 0 .. MaxEvents]
    <3>1. home' \in {home, [home EXCEPT ![r] = IG!Target(r)]}
      <4>1. home' = [home EXCEPT ![r] = IF n = 0 THEN home[r] ELSE IG!Target(r)]
        BY <1>5 DEF IG!Made
      <4>2. CASE n = 0  BY <4>1, <4>2, <1>1
      <4>3. CASE n # 0  BY <4>1, <4>3
      <4> QED  BY <4>2, <4>3
    <3> QED  BY <3>1, <2>1, <1>1
  <2>4. mine' \subseteq IG!Request  BY <1>5 DEF IG!Made, IG!TypeOK
  <2> QED  BY <2>2, <2>3, <2>4
<1>6. CASE IG!Make(r)
  <2>1. upload' \in [IG!Request -> UploadPlaces]
    <3>1. IG!AfterMaking(r) \in {"classing", "owning"}  BY DEF IG!AfterMaking
    <3> QED  BY <3>1, <1>2, <1>4, <1>6 DEF IG!Make
  <2>2. \E n \in 0 .. 2 : IG!Made(r, n)
    <3>1. 0 \in 0 .. 2 /\ 1 \in 0 .. 2 /\ 2 \in 0 .. 2  OBVIOUS
    <3> QED  BY <3>1, <1>6 DEF IG!Make
  <2>3. uploadFaults' \in 0 .. MaxEvents  BY <1>3, <1>6 DEF IG!Make, IG!TypeOK
  <2> QED  BY <1>5, <1>6, <2>1, <2>2, <2>3
           DEF IG!Make, IG!TypeOK, IG!gameVars, IG!fileVars, UploadPlaces
<1>7. CASE IG!Class(r)
  <2>1. upload' \in [IG!Request -> UploadPlaces]  BY <1>2, <1>4, <1>7 DEF IG!Class
  <2>2. uploadFaults' \in 0 .. MaxEvents  BY <1>3, <1>7 DEF IG!Class, IG!TypeOK
  <2>3. class' \subseteq IG!Request  BY <1>7 DEF IG!Class, IG!TypeOK
  <2> QED  BY <1>7, <2>1, <2>2, <2>3
           DEF IG!Class, IG!TypeOK, IG!gameVars, IG!fileVars, IG!dm20Vars, UploadPlaces
<1>8. CASE IG!Answer(r)
  <2>1. upload' \in [IG!Request -> UploadPlaces]  BY <1>2, <1>4, <1>8 DEF IG!Answer
  <2>2. uploadFaults' \in 0 .. MaxEvents  BY <1>3, <1>8 DEF IG!Answer, IG!TypeOK
  <2> QED  BY <1>8, <2>1, <2>2
           DEF IG!Answer, IG!TypeOK, IG!gameVars, IG!fileVars, IG!dm20Vars, UploadPlaces
<1> QED  BY <1>6, <1>7, <1>8 DEF IG!Finish

LEMMA UploadTypeNext ==
    ASSUME PartsAssumption, IG!TypeOK, [IG!Next]_IG!vars
    PROVE  IG!TypeOK'
<1>0. /\ world \in 0 .. MaxEvents /\ uploadFaults \in 0 .. MaxEvents /\ MaxEvents \in Nat
      /\ game \in 0 .. MaxEvents
      /\ upload \in [IG!Request -> UploadPlaces]
  BY DEF IG!TypeOK, PartsAssumption, UploadPlaces
<1>1. CASE \E u \in Upload : IG!Ask(u) \/ IG!Step(u) \/ IG!Expire(u)
  BY <1>1, UploadTypeSteps
<1>2. CASE \E u \in Upload, f \in Form : IG!Click(u, f)
  <2>1. PICK u \in Upload, f \in Form : IG!Click(u, f)  BY <1>2
  <2>2. u \in IG!Request /\ f \in IG!Request /\ "open" \in UploadPlaces
    BY DEF IG!Request, UploadPlaces
  <2>3. upload' \in [IG!Request -> UploadPlaces]  BY <1>0, <2>1, <2>2 DEF IG!Click, IG!Go
  <2>4. camp' \in [IG!Request -> 0 .. MaxEvents]  BY <2>1, <2>2 DEF IG!Click, IG!TypeOK
  <2> QED  BY <2>1, <2>3, <2>4
           DEF IG!Click, IG!TypeOK, IG!gameVars, IG!fileVars, IG!dm20Vars, UploadPlaces
<1>3. CASE \E f \in Form : IG!Submit(f)
  <2>1. PICK f \in Form : IG!Submit(f)  BY <1>3
  <2>2. f \in IG!Request /\ IG!Parsed \subseteq UploadPlaces
    BY DEF IG!Request, UploadPlaces, IG!Parsed, IG!Working, IG!Over
  <2>3. upload' \in [IG!Request -> UploadPlaces]  BY <1>0, <2>1, <2>2 DEF IG!Submit, IG!Go
  <2> QED  BY <2>1, <2>3
           DEF IG!Submit, IG!TypeOK, IG!gameVars, IG!fileVars, IG!dm20Vars, UploadPlaces
<1>4. CASE \E r \in IG!Request : IG!Finish(r)  BY <1>4, UploadTypeFinish
<1>5. CASE IG!NewCampaign
  <2>1. world' \in 0 .. MaxEvents
    <3>1. world + uploadFaults < MaxEvents /\ world' = world + 1
      BY <1>5 DEF IG!NewCampaign
    <3> QED  BY <3>1, <1>0
  <2> QED  BY <1>5, <2>1 DEF IG!NewCampaign, IG!TypeOK, IG!fileVars, IG!dm20Vars
<1>6. CASE IG!StartGame
  <2>1. game' \in 0 .. MaxEvents
    <3>1. game' \in 1 .. world  BY <1>6 DEF IG!StartGame
    <3> QED  BY <3>1, <1>0
  <2> QED  BY <1>6, <2>1 DEF IG!StartGame, IG!TypeOK, IG!fileVars, IG!dm20Vars
<1>7. CASE IG!Restart
  <2>1. /\ pool' = <<>> /\ busy' = {} /\ UNCHANGED <<game, world, camp, proof, made, home,
                                                     mine, class>>
    BY <1>7 DEF IG!Restart, IG!gameVars, IG!dm20Vars
  <2>2. upload' \in [IG!Request -> UploadPlaces]
    <3>1. upload' = [r \in IG!Request |->
                       CASE upload[r] \in IG!Working \cup {"open"} -> "silent"
                         [] upload[r] = "offered" -> "expired"
                         [] OTHER -> upload[r]]
      BY <1>7 DEF IG!Restart
    <3> SUFFICES ASSUME NEW r \in IG!Request
                 PROVE  (CASE upload[r] \in IG!Working \cup {"open"} -> "silent"
                           [] upload[r] = "offered" -> "expired"
                           [] OTHER -> upload[r]) \in UploadPlaces
      BY <3>1
    <3>2. "silent" \in UploadPlaces /\ "expired" \in UploadPlaces
      BY DEF UploadPlaces, IG!Over
    <3>3. upload[r] \in UploadPlaces  BY <1>0
    <3>4. "offered" \notin IG!Working \cup {"open"}  BY DEF IG!Working
    <3> QED  BY <3>2, <3>3, <3>4
  <2>3. button' \in [Upload -> {"none", "entry", "review"}]
    BY <1>7 DEF IG!Restart, IG!TypeOK
  <2>4. uploadFaults' \in 0 .. MaxEvents  BY <1>7, UploadTypeFault DEF IG!Restart
  <2>5. pool' \in Seq(Upload)  BY <2>1
  <2> QED  BY <2>1, <2>2, <2>3, <2>4, <2>5 DEF IG!TypeOK, UploadPlaces
<1>8. CASE UNCHANGED IG!vars  BY <1>8 DEF IG!vars, IG!TypeOK
<1> QED  BY <1>1, <1>2, <1>3, <1>4, <1>5, <1>6, <1>7, <1>8 DEF IG!Next

\* The rest of the tool's type.
ToolBounds ==
    /\ phase \in {"off", "collect", "apply"}
    /\ toList \subseteq Channel /\ failed \subseteq Channel /\ refused \subseteq Char
    /\ lost \subseteq Char /\ raced \subseteq Char
    /\ runs \in 0 .. MaxRuns /\ toolFaults \in 0 .. MaxToolFaults

LEMMA ToolTypeOK ==
    ASSUME PartsAssumption, ToolInv, ToolBounds
    PROVE  BF!TypeOK
<1>1. BF!Off.char \in Char  BY DEF PartsAssumption, ToolConstants, BF!Off
<1>2. ToolType  BY DEF ToolInv
<1>3. looking \in [char : Char, had : BF!Row \cup {"off"}]  BY <1>1, <1>2 DEF ToolType
<1> QED  BY <1>2, <1>3 DEF ToolType, ToolBounds, BF!TypeOK

LEMMA ToolBoundsNext ==
    ASSUME PartsAssumption, ToolInv, ToolBounds, [BF!Next]_BF!vars
    PROVE  ToolBounds'
<1>0. MaxRuns \in Nat /\ MaxToolFaults \in Nat  BY DEF PartsAssumption, ToolConstants
<1>1. BF!Fault => toolFaults' \in 0 .. MaxToolFaults
  <2> SUFFICES ASSUME BF!Fault
               PROVE  toolFaults' \in 0 .. MaxToolFaults
    OBVIOUS
  <2>1. toolFaults < MaxToolFaults /\ toolFaults' = toolFaults + 1  BY DEF BF!Fault
  <2> QED  BY <2>1, <1>0 DEF ToolBounds
<1>2. CASE \E c \in Char : BF!Create(c) \/ BF!Upsert(c) \/ BF!Look(c)
  BY <1>2 DEF BF!Create, BF!Upsert, BF!Look, BF!tool, ToolBounds
<1>3. CASE BF!Start
  <2>1. runs' \in 0 .. MaxRuns
    <3>1. runs < MaxRuns /\ runs' = runs + 1  BY <1>3 DEF BF!Start
    <3> QED  BY <3>1, <1>0 DEF ToolBounds
  <2> QED  BY <1>3, <2>1 DEF BF!Start, ToolBounds
<1>4. CASE \E ch \in Channel : BF!List(ch)
  BY <1>1, <1>4 DEF BF!List, ToolBounds
<1>5. CASE BF!Collected \/ BF!Finish
  BY <1>5 DEF BF!Collected, BF!Finish, ToolBounds
<1>6. CASE BF!Apply \/ BF!ApplyFails
  <2>1. looking # BF!Off  BY <1>6 DEF BF!Apply, BF!ApplyFails
  <2>2. looking.char \in Char  BY <2>1 DEF ToolInv, Seen
  <2> QED  BY <1>1, <1>6, <2>2 DEF BF!Apply, BF!ApplyFails, ToolBounds
<1>7. CASE UNCHANGED BF!vars  BY <1>7 DEF BF!vars, BF!tool, ToolBounds
<1> QED  BY <1>2, <1>3, <1>4, <1>5, <1>6, <1>7 DEF BF!Next

LEMMA FileTypeStarts ==
    ASSUME PartsAssumption, EL!Init
    PROVE  EL!TypeOK
<1>1. 0 \in 0 .. MaxEdits /\ 0 \in 0 .. MaxFileFaults  BY DEF PartsAssumption, FileConstants
<1>2. file \in EL!File  BY <1>1 DEF EL!Init, EL!File
<1> QED  BY <1>1, <1>2 DEF EL!Init, EL!TypeOK, EL!Sets

LEMMA FileTypeNext ==
    ASSUME PartsAssumption, EL!TypeOK, [EL!Next]_EL!vars
    PROVE  EL!TypeOK'
<1>0. /\ MaxEdits \in Nat /\ MaxFileFaults \in Nat
      /\ \A f \in EL!File : f.mtime \in 0 .. MaxEdits /\ f.text \in EL!Text
      /\ \A text : EL!Load(text) \in EL!Sets
  BY DEF PartsAssumption, FileConstants, EL!File, EL!Load, EL!Sets
<1>1. file.mtime \in 0 .. MaxEdits /\ look.mtime \in 0 .. MaxEdits
  BY <1>0 DEF EL!TypeOK
<1>2. CASE EL!Boot \/ EL!Watch
  BY <1>0, <1>1, <1>2 DEF EL!Boot, EL!Watch, EL!TypeOK
<1>3. CASE EL!Build \/ EL!Stat
  BY <1>3 DEF EL!Build, EL!Stat, EL!TypeOK
<1>4. CASE EL!Reload
  <2>1. current' \in EL!Sets
    BY <1>0, <1>4 DEF EL!Reload, EL!Accept, EL!TypeOK
  <2>2. fileFaults' \in 0 .. MaxFileFaults
    <3>1. \/ fileFaults' = fileFaults
          \/ fileFaults < MaxFileFaults /\ fileFaults' = fileFaults + 1
      BY <1>4 DEF EL!Reload
    <3> QED  BY <3>1, <1>0 DEF EL!TypeOK
  <2>3. missed' \subseteq 0 .. MaxEdits  BY <1>1, <1>4 DEF EL!Reload, EL!TypeOK
  <2> QED  BY <1>1, <1>4, <2>1, <2>2, <2>3 DEF EL!Reload, EL!TypeOK
<1>5. CASE EL!Edit
  <2>1. PICK text \in EL!Text : file' = [text |-> text, mtime |-> file.mtime + 1]
    BY <1>5 DEF EL!Edit
  <2>2. file.mtime + 1 \in 0 .. MaxEdits  BY <1>0, <1>1, <1>5 DEF EL!Edit
  <2>3. file' \in EL!File  BY <2>1, <2>2 DEF EL!File
  <2> QED  BY <1>5, <2>3 DEF EL!Edit, EL!TypeOK
<1>6. CASE EL!Restart
  <2>1. fileFaults' \in 0 .. MaxFileFaults
    <3>1. fileFaults < MaxFileFaults /\ fileFaults' = fileFaults + 1
      BY <1>6 DEF EL!Restart
    <3> QED  BY <3>1, <1>0 DEF EL!TypeOK
  <2>2. 0 \in 0 .. MaxEdits  BY <1>0
  <2> QED  BY <1>6, <2>1, <2>2 DEF EL!Restart, EL!TypeOK, EL!Sets
<1>7. CASE UNCHANGED EL!vars  BY <1>7 DEF EL!vars, EL!TypeOK
<1> QED  BY <1>2, <1>3, <1>4, <1>5, <1>6, <1>7 DEF EL!Next

-----------------------------------------------------------------------------
(* The parts together. *)

LEMMA OnePartMoves ==
    ASSUME PartsNext \/ UNCHANGED partsVars
    PROVE  /\ [DM!Next]_DM!vars /\ [MM!Next]_MM!vars /\ [CC!Next]_CC!vars
           /\ [SB!Next]_SB!vars /\ [IG!Next]_IG!vars /\ [BF!Next]_BF!vars
           /\ [EL!Next]_EL!vars
           /\ RC!Next \/ UNCHANGED cacheVars
           /\ NC!Next \/ UNCHANGED talkVars
           /\ [Next]_vars
<1>1. DM!Next \/ UNCHANGED degradedVars
  BY DEF PartsNext, Writing, Degraded, Remembering, Fetching, Caching, Tracing,
         Uploading, Filling, Following, Narrating, Only, partsVars
<1>2. MM!Next \/ UNCHANGED memoryVars
  BY DEF PartsNext, Writing, Degraded, Remembering, Fetching, Caching, Tracing,
         Uploading, Filling, Following, Narrating, Only, partsVars
<1>3. CC!Next \/ UNCHANGED sheetVars
  BY DEF PartsNext, Writing, Degraded, Remembering, Fetching, Caching, Tracing,
         Uploading, Filling, Following, Narrating, Only, partsVars
<1>4. SB!Next \/ UNCHANGED spanVars
  BY DEF PartsNext, Writing, Degraded, Remembering, Fetching, Caching, Tracing,
         Uploading, Filling, Following, Narrating, Only, partsVars
<1>5. IG!Next \/ UNCHANGED uploadVars
  BY DEF PartsNext, Writing, Degraded, Remembering, Fetching, Caching, Tracing,
         Uploading, Filling, Following, Narrating, Only, partsVars
<1>6. BF!Next \/ UNCHANGED toolVars
  BY DEF PartsNext, Writing, Degraded, Remembering, Fetching, Caching, Tracing,
         Uploading, Filling, Following, Narrating, Only, partsVars
<1>7. EL!Next \/ UNCHANGED fileVars
  BY DEF PartsNext, Writing, Degraded, Remembering, Fetching, Caching, Tracing,
         Uploading, Filling, Following, Narrating, Only, partsVars
<1>8. [DM!Next]_DM!vars
  BY <1>1 DEF degradedVars, DM!vars, DM!flag, DM!alertVars, DM!spending, DM!budgetVars
<1>9. [MM!Next]_MM!vars  BY <1>2 DEF memoryVars, MM!vars, MM!memory
<1>10. [CC!Next]_CC!vars  BY <1>3 DEF sheetVars, CC!vars
<1>11. [SB!Next]_SB!vars  BY <1>4 DEF spanVars, SB!vars
<1>12. [IG!Next]_IG!vars  BY <1>5 DEF uploadVars, IG!vars
<1>13. [BF!Next]_BF!vars  BY <1>6 DEF toolVars, BF!vars, BF!tool
<1>14. [EL!Next]_EL!vars  BY <1>7 DEF fileVars, EL!vars
<1>15. RC!Next \/ UNCHANGED cacheVars
  BY DEF PartsNext, Writing, Degraded, Remembering, Fetching, Caching, Tracing,
         Uploading, Filling, Following, Narrating, Only, partsVars
<1>16. NC!Next \/ UNCHANGED talkVars
  BY DEF PartsNext, Writing, Degraded, Remembering, Fetching, Caching, Tracing,
         Uploading, Filling, Following, Narrating, Only, partsVars
<1>17. Next \/ UNCHANGED writerVars
  BY DEF PartsNext, Writing, Degraded, Remembering, Fetching, Caching, Tracing,
         Uploading, Filling, Following, Narrating, Only, partsVars
<1>18. [Next]_vars  BY <1>17 DEF writerVars, vars, task, conn
<1> QED
  BY <1>8, <1>9, <1>10, <1>11, <1>12, <1>13, <1>14, <1>15, <1>16, <1>18

\* The inductive invariants of the parts, together.
PartsInv ==
    /\ HeldInv /\ MemoryInv /\ SheetInv /\ SpanInv /\ UploadInv /\ ToolInv /\ FileInv
    /\ CacheInv /\ TalkInv

\* What their types add to them, and the invariant of WriterQueue.
PartsTypes ==
    /\ IInv /\ DM!TypeOK /\ memoryFaults \in 0 .. MaxMemoryFaults
    /\ cacheFaults \in 0 .. MaxCacheFaults /\ SpanBounds /\ IG!TypeOK /\ ToolBounds
    /\ EL!TypeOK

LEMMA PartsStart ==
    PartsInit => /\ DM!Init /\ MM!Init /\ CC!Init /\ SB!Init
                 /\ IG!Init /\ BF!Init /\ EL!Init /\ RC!Init /\ NC!Init
                 /\ Init
  BY DEF PartsInit

LEMMA PartsInvInit == PartsInit => PartsInv
  BY PartsAssumption, PartsStart, HeldStarts, MemoryStarts, SheetStarts, SpanStarts,
     UploadStarts, ToolStarts, FileStarts, CacheStarts, TalkStarts DEF PartsInv

LEMMA PartsInvNext == PartsInv /\ [PartsNext]_partsVars => PartsInv'
<1> SUFFICES ASSUME PartsInv, PartsNext \/ UNCHANGED partsVars
             PROVE  PartsInv'
  OBVIOUS
<1>1. /\ [DM!Next]_DM!vars /\ [MM!Next]_MM!vars /\ [CC!Next]_CC!vars
      /\ [SB!Next]_SB!vars /\ [IG!Next]_IG!vars /\ [BF!Next]_BF!vars
      /\ [EL!Next]_EL!vars
      /\ RC!Next \/ UNCHANGED cacheVars
      /\ NC!Next \/ UNCHANGED talkVars
  BY OnePartMoves
<1>2. HeldInv'  BY <1>1, PartsAssumption, HeldNext DEF PartsInv
<1>3. MemoryInv'  BY <1>1, PartsAssumption, MemoryNext DEF PartsInv
<1>4. SheetInv'  BY <1>1, PartsAssumption, SheetNext DEF PartsInv
<1>5. SpanInv'  BY <1>1, SpanNext DEF PartsInv
<1>6. UploadInv'  BY <1>1, UploadNext DEF PartsInv
<1>7. ToolInv'  BY <1>1, PartsAssumption, ToolNext DEF PartsInv
<1>8. FileInv'  BY <1>1, PartsAssumption, FileNext DEF PartsInv
<1>9. CacheInv'
  BY <1>1, PartsAssumption, CacheNext, CacheSame DEF PartsInv
<1>10. TalkInv'
  <2>1. CASE NC!Next  BY <2>1, PartsAssumption, TalkNext DEF PartsInv
  <2>2. CASE UNCHANGED talkVars
    BY <2>2, TalkSame DEF PartsInv, TalkInv, TalkType, talkVars
  <2> QED  BY <1>1, <2>1, <2>2
<1> QED  BY <1>2, <1>3, <1>4, <1>5, <1>6, <1>7, <1>8, <1>9, <1>10 DEF PartsInv

\* The inductive invariants hold: what the parts keep stays in step with what it
\* was kept from.
THEOREM PartsInvariant == PartsSpec => []PartsInv
  BY PartsInvInit, PartsInvNext, PTL DEF PartsSpec

LEMMA PartsTypesInit == PartsInit => PartsTypes
<1> SUFFICES ASSUME PartsInit
             PROVE  PartsTypes
  OBVIOUS
<1>1. IInv  BY PartsStart, InitIInv
<1>2. DM!TypeOK /\ IG!TypeOK /\ EL!TypeOK
  BY PartsStart, PartsAssumption, HeldTypeStarts, UploadTypeStarts, FileTypeStarts
<1>3. /\ memoryFaults \in 0 .. MaxMemoryFaults /\ cacheFaults \in 0 .. MaxCacheFaults
  BY PartsStart, PartsAssumption
     DEF PartsAssumption, MemoryConstants, CacheConstants, MM!Init, RC!Init
<1>4. SpanBounds
  <2>1. recorded = 0 /\ Len(spans) = 0 /\ errors = 0 /\ late = {}
        /\ drainer = "collecting" /\ stop = FALSE
    BY PartsStart DEF SB!Init
  <2>2. MaxRows \in Nat /\ Depth \in Nat /\ MaxErrors \in Nat
    BY PartsAssumption DEF PartsAssumption, SpanConstants
  <2>3. 0 <= MaxRows /\ 0 <= Depth /\ 0 \in 0 .. MaxErrors  BY <2>2
  <2> QED  BY <2>1, <2>3 DEF SpanBounds
<1>5. ToolBounds
  BY PartsStart, PartsAssumption DEF PartsAssumption, ToolConstants, BF!Init, ToolBounds
<1> QED  BY <1>1, <1>2, <1>3, <1>4, <1>5 DEF PartsTypes

LEMMA PartsTypesNext ==
    PartsInv /\ PartsTypes /\ [PartsNext]_partsVars => PartsTypes'
<1> SUFFICES ASSUME PartsInv, PartsTypes, PartsNext \/ UNCHANGED partsVars
             PROVE  PartsTypes'
  OBVIOUS
<1>1. IInv'  BY OnePartMoves, NextIInv DEF PartsTypes
<1>2. DM!TypeOK'  BY OnePartMoves, PartsAssumption, HeldTypeNext DEF PartsTypes
<1>3. memoryFaults' \in 0 .. MaxMemoryFaults
  BY OnePartMoves, PartsAssumption, MemoryFaults
     DEF PartsAssumption, MemoryConstants, PartsTypes
<1>4. cacheFaults' \in 0 .. MaxCacheFaults
  BY OnePartMoves, PartsAssumption, CacheFaults
     DEF PartsAssumption, CacheConstants, PartsTypes
<1>5. SpanBounds'
  BY OnePartMoves, PartsAssumption, SpanBoundsNext DEF PartsInv, PartsTypes
<1>6. IG!TypeOK'  BY OnePartMoves, PartsAssumption, UploadTypeNext DEF PartsTypes
<1>7. ToolBounds'
  BY OnePartMoves, PartsAssumption, ToolBoundsNext DEF PartsInv, PartsTypes
<1>8. EL!TypeOK'  BY OnePartMoves, PartsAssumption, FileTypeNext DEF PartsTypes
<1> QED  BY <1>1, <1>2, <1>3, <1>4, <1>5, <1>6, <1>7, <1>8 DEF PartsTypes

\* Every part keeps its type: no counter leaves its range, no cache or queue grows
\* past its limit, no request is at a place the code does not know.
THEOREM PartsKeepTypes == PartsSpec => []PartsTypeOK
<1>1. PartsInv /\ PartsTypes => PartsTypeOK
  BY PartsAssumption, MemoryTypeOK, SheetTypeOK, CacheTypeOK, SpanTypeOK, ToolTypeOK,
     TalkTypeOK DEF PartsInv, PartsTypes, PartsTypeOK, IInv
<1>2. PartsSpec => []PartsTypes
  BY PartsInvariant, PartsTypesInit, PartsTypesNext, PTL DEF PartsSpec
<1> QED  BY <1>1, <1>2, PartsInvariant, PTL

\* Degraded mode for a rule's reason is a mode that rule still counts towards
\* leaving, for any list of rules: no flag is left set that nobody will clear
\* (AlertEvaluator.tick, DegradedModeState.trip and recover).
THEOREM PartsReasonIsHeld == PartsSpec => []ReasonIsHeld
<1>1. PartsInv => ReasonIsHeld
  BY DEF PartsInv, HeldInv, ReasonIsHeld
<1> QED  BY <1>1, PartsInvariant, PTL

\* Each hit is in a monster's memory once, or its torn memory is known as such,
\* for any number of tasks that load, flush and purge it (MonsterMemory).
THEOREM PartsRemembersEachHit == PartsSpec => []RemembersEachHit
<1>1. PartsInv => RemembersEachHit
  BY DEF PartsInv, MemoryInv, MemoryOf, Remembered, Absent, MM!Absent, RemembersEachHit,
         MM!RemembersEachHit
<1> QED  BY <1>1, PartsInvariant, PTL

\* A cached sheet was dm20's at the time it is stamped with, or later, however
\* many fetches overlap (CharacterCache.get_or_fetch).
THEOREM PartsStampHonest == PartsSpec => []CC!StampHonest
<1>1. PartsInv => CC!StampHonest
  BY DEF PartsInv, SheetInv
<1> QED  BY <1>1, PartsInvariant, PTL

\* What the caches serve is true to what they keep: a sheet was dm20's at the time
\* it is stamped with, or later; no response outlives both its layers, or an
\* invalidation without that being known; nothing mechanical comes from the
\* narration cache, no prompt is there twice and every call is in one counter, for
\* caches of any size and times to live of any length (CharacterCache, MCPCache,
\* NarrCache).
THEOREM PartsCachesHonest == PartsSpec => []CachesHonest
<1>1. PartsInv => CachesHonest
  BY PartsAssumption, CacheServes, TalkHonest DEF PartsInv, SheetInv, CachesHonest
<1> QED  BY <1>1, PartsInvariant, PTL

\* No span is lost or there twice between the queue, the drainer and the database,
\* for a queue and batches of any size, and who was let in by flush() finds every
\* span recorded before it (SpanBuffer).
THEOREM PartsFlushedIsRead == PartsSpec => []FlushedIsRead
<1>1. PartsInv => FlushedIsRead
  BY SpanAccounts DEF PartsInv, SpanInv, FlushedIsRead
<1> QED  BY <1>1, PartsInvariant, PTL

\* A form to confirm is offered for a sheet that earned it (score_extraction,
\* the ingest cog), whatever the other uploads and clicks do.
THEOREM PartsReviewEarned == PartsSpec => []ReviewEarned
<1>1. PartsInv => ReviewEarned
  BY DEF PartsInv, UploadInv, ReviewEarned
<1> QED  BY <1>1, PartsInvariant, PTL

\* Who is told that a character joined has it where the answer says, across
\* restarts, failing calls and forms confirmed twice (the ingest cog).
THEOREM PartsToldIsTrue == PartsSpec => []ToldIsTrue
<1>1. PartsInv => ToldIsTrue
  BY UploadToldIsTrue DEF PartsInv, ToldIsTrue
<1> QED  BY <1>1, PartsInvariant, PTL

\* Every character the tool found at its start has a row after a successful run,
\* and a subclass is taken only by force or in a race with the bot, whatever the
\* bot writes while the tool runs (backfill_character_classes).
THEOREM PartsRowsFilled == PartsSpec => RowsFilled
<1>1. ASSUME PartsInv, [PartsNext]_partsVars
      PROVE  [BF!GapClosed' /\ BF!SubclassKept]_toolVars
  <2>1. PartsNext \/ UNCHANGED partsVars  BY <1>1
  <2>2. [BF!Next]_BF!vars  BY <2>1, OnePartMoves
  <2>3. ToolInv' /\ (BF!SubclassKept \/ UNCHANGED toolVars)
    BY <1>1, <2>2, ToolNext, PartsAssumption DEF PartsInv
  <2> QED  BY <2>3 DEF ToolInv
<1> QED  BY <1>1, PartsInvariant, PTL DEF PartsSpec, RowsFilled

\* Between polls, a file whose time the watcher remembers, and that adds to the
\* built-in set, is the set in effect, unless its read failed or it changed during
\* the start (EligibilityFileWatcher.poll_once).
THEOREM PartsSeenIsLoaded == PartsSpec => []EL!SeenIsLoaded
<1>1. PartsInv => EL!SeenIsLoaded
  BY DEF PartsInv, FileInv
<1> QED  BY <1>1, PartsInvariant, PTL
=============================================================================
