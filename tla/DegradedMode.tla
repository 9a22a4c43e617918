---------------------------- MODULE DegradedMode ----------------------------
(***************************************************************************)
(* The process-wide degraded-mode flag (observability/degraded_mode.py)    *)
(* and those who set and clear it: the replay at boot, AlertEvaluator.tick *)
(* and BudgetEvaluator.tick.  The two ticks run in executor threads, so    *)
(* they interleave wherever they do not hold the flag's lock.              *)
(*                                                                         *)
(* KPIs are abstracted to how they stand to a rule's two thresholds, money *)
(* to whether the day's cap is exceeded, dates to alternating days.  The   *)
(* boot path only calls the replay and one tick of the budget; the loops   *)
(* are AlertEvaluator.start and BudgetEvaluator.start.                     *)
(***************************************************************************)
EXTENDS Naturals, Sequences

CONSTANTS Rules,   \* the rules of action "degrade", in their order
          Window   \* ticks_per_window

VARIABLES active, reason,   \* DegradedModeState
          at, snap,         \* AlertEvaluator.tick: next rule, 0: none; the KPIs
          breaches, recoveries, holds,  \* _RuleState of each rule
          day, over,        \* the date; over[d]: spending of day d above the cap
          budget, today,    \* BudgetEvaluator.tick: where it is; the date it read
          lastSeen          \* _state.last_seen_date

flag == <<active, reason>>
alertVars == <<at, snap, breaches, recoveries, holds>>
spending == <<day, over>>
budgetVars == <<budget, today, lastSeen>>
vars == <<flag, alertVars, spending, budgetVars>>

-----------------------------------------------------------------------------
Rule == {Rules[i] : i \in 1 .. Len(Rules)}

\* Below the threshold of recovery, above the rule's own, or neither: between the
\* two, or None, which fulfils no condition.
Level == {"good", "bad", "neither"}
Day == {0, 1}
NoDay == 2

TypeOK ==
    /\ active \in BOOLEAN /\ reason \in Rule \cup {"budget", "none"}
    /\ at \in 0 .. Len(Rules) /\ snap \in [Rule -> Level]
    /\ breaches \in [Rule -> 0 .. Window]
    /\ recoveries \in [Rule -> 0 .. Window]
    /\ holds \in [Rule -> BOOLEAN]
    /\ day \in Day /\ over \in [Day -> BOOLEAN]
    /\ budget \in {"idle", "recovering", "summing"}
    /\ today \in Day /\ lastSeen \in Day \cup {NoDay}

\* trip(): a reason given while the flag is set replaces the one before.
Trip(why) == active' = TRUE /\ reason' = why

\* recover(): whoever calls it.
Recover == active' = FALSE /\ reason' = "none"

\* main(): cold_start_replay trips for every rule S whose last Window buckets were
\* all in breach, then one tick of the budget; the driver is chosen after both.
Boot(S) ==
    /\ IF over[day] THEN Trip("budget")
       ELSE IF S # {}
            THEN \E i \in 1 .. Len(Rules) :
                    /\ Rules[i] \in S
                    /\ \A j \in i + 1 .. Len(Rules) : Rules[j] \notin S
                    /\ Trip(Rules[i])
            ELSE Recover
    /\ holds' = [r \in Rule |-> r \in S]
    /\ breaches' = [r \in Rule |-> IF r \in S THEN Window ELSE 0]
    /\ recoveries' = [r \in Rule |-> 0]
    /\ at' = 0 /\ snap' = [r \in Rule |-> "neither"]
    /\ budget' = "idle" /\ today' = day /\ lastSeen' = day

Init ==
    /\ active = FALSE /\ reason = "none"
    /\ at = 0 /\ snap = [r \in Rule |-> "neither"]
    /\ breaches = [r \in Rule |-> 0]
    /\ recoveries = [r \in Rule |-> 0]
    /\ holds = [r \in Rule |-> FALSE]
    /\ day = 0 /\ over = [d \in Day |-> FALSE]
    /\ budget = "idle" /\ today = 0 /\ lastSeen = NoDay

Restart == /\ \E S \in SUBSET Rule : Boot(S)
           /\ UNCHANGED spending

-----------------------------------------------------------------------------
(* AlertEvaluator.tick. *)

\* _kpi_provider: the KPIs of a whole tick are read at its start.
Sample == /\ at = 0
          /\ snap' \in [Rule -> Level]
          /\ at' = IF Rules = <<>> THEN 0 ELSE 1
          /\ UNCHANGED <<flag, breaches, recoveries, holds, spending, budgetVars>>

\* The breach count of a rule that tripped is not read until it is reset.
Breaches(r) == IF holds[r] THEN breaches[r]
               ELSE IF snap[r] # "bad" THEN 0
               ELSE IF breaches[r] < Window THEN breaches[r] + 1 ELSE Window
Recoveries(r) == IF snap[r] = "good" THEN recoveries[r] + 1 ELSE 0

RuleTrips(r) ==
    /\ ~holds[r] /\ Breaches(r) = Window
    /\ Trip(r)
    /\ holds' = [holds EXCEPT ![r] = TRUE]
    /\ breaches' = [breaches EXCEPT ![r] = Window]
    /\ recoveries' = [recoveries EXCEPT ![r] = 0]

RuleRecovers(r) ==
    /\ holds[r] /\ Recoveries(r) = Window
    /\ Recover
    /\ holds' = [holds EXCEPT ![r] = FALSE]
    /\ breaches' = [breaches EXCEPT ![r] = 0]
    /\ recoveries' = [recoveries EXCEPT ![r] = 0]

\* Variant: a rule out of breach forgets that it tripped.
RuleForgets(r) ==
    /\ IF holds[r] THEN Recoveries(r) < Window ELSE Breaches(r) < Window
    /\ breaches' = [breaches EXCEPT ![r] = Breaches(r)]
    /\ recoveries' = [recoveries EXCEPT ![r] = IF holds[r] THEN Recoveries(r) ELSE 0]
    /\ holds' = [holds EXCEPT ![r] = holds[r] /\ snap[r] = "bad"]
    /\ UNCHANGED flag

RuleCounts(r) ==
    /\ IF holds[r] THEN Recoveries(r) < Window ELSE Breaches(r) < Window
    /\ breaches' = [breaches EXCEPT ![r] = Breaches(r)]
    /\ recoveries' = [recoveries EXCEPT ![r] = IF holds[r] THEN Recoveries(r) ELSE 0]
    /\ UNCHANGED <<flag, holds>>

Judge == /\ at # 0
         /\ LET r == Rules[at] IN RuleTrips(r) \/ RuleRecovers(r) \/ RuleCounts(r)
         /\ at' = (at + 1) % (Len(Rules) + 1)
         /\ UNCHANGED <<snap, spending, budgetVars>>

-----------------------------------------------------------------------------
(* BudgetEvaluator.tick. *)

\* Variant: the date is stored before it is compared.
BudgetLooksLate ==
    /\ budget = "idle"
    /\ today' = day /\ lastSeen' = day
    /\ budget' = "summing"
    /\ UNCHANGED <<flag, alertVars, spending>>

\* A new date: the reason is read under the lock, and what it says decides.
BudgetLooks ==
    /\ budget = "idle"
    /\ today' = day
    /\ budget' = IF lastSeen \notin {NoDay, day} /\ active /\ reason = "budget"
                 THEN "recovering" ELSE "summing"
    /\ UNCHANGED <<flag, alertVars, spending, lastSeen>>

BudgetRecovers ==
    /\ budget = "recovering"
    /\ Recover
    /\ budget' = "summing"
    /\ UNCHANGED <<alertVars, spending, today, lastSeen>>

\* sum_daily_spend for the date that was read; above the cap, the flag is set on
\* every tick.
BudgetSums ==
    /\ budget = "summing"
    /\ IF over[today] THEN Trip("budget") ELSE UNCHANGED flag
    /\ lastSeen' = today
    /\ budget' = "idle"
    /\ UNCHANGED <<alertVars, spending, today>>

-----------------------------------------------------------------------------
(* What the two read. *)

Spend == /\ ~over[day]
         /\ over' = [over EXCEPT ![day] = TRUE]
         /\ UNCHANGED <<flag, alertVars, day, budgetVars>>

\* Bound: no day goes by without a tick of the budget.
Midnight == /\ lastSeen = day
            /\ day' = 1 - day
            /\ over' = [over EXCEPT ![1 - day] = FALSE]
            /\ UNCHANGED <<flag, alertVars, budgetVars>>

BudgetTick == BudgetLooks \/ BudgetRecovers \/ BudgetSums

Next == Sample \/ Judge \/ BudgetTick \/ Spend \/ Midnight \/ Restart

\* Both loops tick for ever, and days end.
Fairness == /\ WF_vars(Sample) /\ WF_vars(Judge) /\ WF_vars(BudgetTick)
            /\ WF_vars(Midnight)

Spec == Init /\ [][Next]_vars /\ Fairness

-----------------------------------------------------------------------------
(* Properties. *)

\* Degraded mode for a rule's reason is a mode that rule still counts towards
\* leaving, whoever replaced reasons and cleared the flag in between.
ReasonIsHeld == active /\ reason # "budget" => holds[reason]

\* When every KPI is good for good and no day goes above its cap any more, the
\* bot leaves degraded mode for good, whatever overwrote the reason.
Calm == /\ \A r \in Rule : snap[r] = "good"
        /\ \A d \in Day : ~over[d]
BackToNormal == <>[]Calm => <>[]~active
=============================================================================
