---------------------------- MODULE SmartDriver ----------------------------
(***************************************************************************)
(* gameplay/smart_monster_driver.py: how a monster's target is chosen, by  *)
(* chance or by the model, the cache of the model's choices, and the span  *)
(* each decision leaves for the KPIs (observability/instrumentation.py,    *)
(* kpi.py).  Decisions of several channels overlap while the model is      *)
(* asked.  A key stands for (channel_id, round_number, monster_id).        *)
(***************************************************************************)
EXTENDS Naturals, Sequences

CONSTANTS Key,
          Wits,         \* Wits[k]: "low", "middle" or "high" intelligence
          PC,           \* player characters
          Ghost,        \* an id that names no candidate
          Slot,         \* decisions under way at a time
          CacheMax,     \* cache_max_size
          MaxDecisions  \* bound: decisions made

VARIABLES coin,    \* the process's hash of each key: which way "middle" goes
          cache,   \* _cache, oldest first
          ask,     \* ask[s]: a decision waiting for the model
          spans,   \* eldritch.monster.decision rows, counted by what they say
          truth,   \* history: how the decisions were really made
          last     \* history: the last target and its candidates

vars == <<coin, cache, ask, spans, truth, last>>

-----------------------------------------------------------------------------

\* "json_parse" stands for "timeout", "rate_limit" and "generic" as well.
Reason == {"refusal", "json_parse", "hallucinated_id"}
Nobody == CHOOSE p \in PC : TRUE

\* MonsterTacticChoice, as far as it is used: the ids, and the first of them.
Choice == [ids : SUBSET (PC \cup {Ghost}) \ {{}}, first : PC \cup {Ghost}]
NoAsk == [on |-> FALSE, key |-> CHOOSE k \in Key : TRUE, among |-> {}]

TypeOK ==
    /\ coin \in [Key -> BOOLEAN]
    /\ cache \in Seq([key : Key, choice : Choice]) /\ Len(cache) <= CacheMax
    /\ ask \in [Slot -> [on : BOOLEAN, key : Key, among : SUBSET PC]]
    /\ spans \in [{"all", "smart", "fallback", "refusal"} -> 0 .. MaxDecisions]
    /\ truth \in [{"random", "cached", "answered", "failed", "refused"}
                     -> 0 .. MaxDecisions]
    /\ last \in [pick : PC, among : SUBSET PC]

Init ==
    /\ coin \in [Key -> BOOLEAN]
    /\ cache = <<>>
    /\ ask = [s \in Slot |-> NoAsk]
    /\ spans = [c \in {"all", "smart", "fallback", "refusal"} |-> 0]
    /\ truth = [w \in {"random", "cached", "answered", "failed", "refused"} |-> 0]
    /\ last = [pick |-> Nobody, among |-> PC]

\* _route_path: "mixed" is settled by a hash of the key.
Asks(k) == Wits[k] = "high" \/ (Wits[k] = "middle" /\ coin[k])

Cached(k) == {i \in 1 .. Len(cache) : cache[i].key = k}

\* The row of the span, as _compute_from_rows counts it.
Record(path, why) ==
    spans' = [spans EXCEPT !["all"] = @ + 1,
                           !["smart"] = IF path = "smart" /\ why = {} THEN @ + 1 ELSE @,
                           !["fallback"] = IF why # {} THEN @ + 1 ELSE @,
                           !["refusal"] = IF why = {"refusal"} THEN @ + 1 ELSE @]

Decided(how, pick, among) == /\ truth' = [truth EXCEPT ![how] = @ + 1]
                             /\ last' = [pick |-> pick, among |-> among]

Room == spans["all"] < MaxDecisions

-----------------------------------------------------------------------------
\* _choose_target for a monster that does not think; targets are never empty.
ByChance(k, among) ==
    /\ Room /\ ~Asks(k)
    /\ \E p \in among : Decided("random", p, among)
    /\ Record("random", {})
    /\ UNCHANGED <<coin, cache, ask>>

\* A choice made for the key before, all of whose targets still are candidates.
FromCache(k, among) ==
    /\ Room /\ Asks(k)
    /\ \E i \in Cached(k) :
         /\ cache[i].choice.ids \subseteq among
         /\ Decided("cached", cache[i].choice.first, among)
    /\ Record("cache", {})
    /\ UNCHANGED <<coin, cache, ask>>

\* Otherwise the model is asked: the memory is recalled and the embed updated on
\* the way, and neither changes what follows.
AskModel(s, k, among) ==
    /\ Room /\ Asks(k) /\ ~ask[s].on
    /\ \A i \in Cached(k) : ~(cache[i].choice.ids \subseteq among)
    /\ ask' = [ask EXCEPT ![s] = [on |-> TRUE, key |-> k, among |-> among]]
    /\ UNCHANGED <<coin, cache, spans, truth, last>>

\* The choice takes the place of the key's old one; a new key may push out the
\* oldest.
Put(k, c) ==
    LET New == [key |-> k, choice |-> c]
        Put1 == IF Cached(k) # {}
                THEN [i \in 1 .. Len(cache) |-> IF cache[i].key = k THEN New
                                                ELSE cache[i]]
                ELSE Append(cache, New)
    IN IF Len(Put1) > CacheMax THEN Tail(Put1) ELSE Put1

Answered(s) == ask' = [ask EXCEPT ![s] = NoAsk]

\* An answer that parses, is not contradictory and names candidates only.
ModelAnswers(s) ==
    /\ Room /\ ask[s].on
    /\ \E ids \in SUBSET ask[s].among \ {{}} : \E first \in ids :
         /\ cache' = Put(ask[s].key, [ids |-> ids, first |-> first])
         /\ Decided("answered", first, ask[s].among)
    /\ Record("smart", {})
    /\ Answered(s)
    /\ UNCHANGED coin

\* Variant: the path is stamped when the model is asked, and no reason given.
ModelFailsSilently(s) ==
    /\ Room /\ ask[s].on
    /\ \E why \in Reason, p \in ask[s].among :
         /\ Decided(IF why = "refusal" THEN "refused" ELSE "failed", p, ask[s].among)
         /\ Record("smart", IF why = "hallucinated_id" THEN {} ELSE {why})
    /\ Answered(s)
    /\ UNCHANGED <<coin, cache>>

\* No answer in time, an error, none at all, none that parses, or one with a
\* Ghost among its ids: chance decides, and the span says why.
ModelFails(s) ==
    /\ Room /\ ask[s].on
    /\ \E why \in Reason, p \in ask[s].among :
         /\ Decided(IF why = "refusal" THEN "refused" ELSE "failed", p, ask[s].among)
         /\ Record("random", {why})
    /\ Answered(s)
    /\ UNCHANGED <<coin, cache>>

Next == \/ \E k \in Key, among \in SUBSET PC \ {{}} :
              \/ ByChance(k, among)
              \/ FromCache(k, among)
              \/ \E s \in Slot : AskModel(s, k, among)
        \/ \E s \in Slot : ModelAnswers(s) \/ ModelFails(s)

Spec == Init /\ [][Next]_vars

-----------------------------------------------------------------------------
(* Properties. *)

\* success_rate and fallback_rate count what happened: a success is a target the
\* model has just named, a fallback a question that chance had to answer, and
\* each decision is counted once.
KpisTellTruth ==
    /\ spans["smart"] = truth["answered"]
    /\ spans["fallback"] = truth["failed"] + truth["refused"]
    /\ spans["refusal"] = truth["refused"]
    /\ spans["all"] = spans["smart"] + spans["fallback"] + truth["random"]
                         + truth["cached"]

\* Whatever the cache remembers and the model says, the target is a candidate.
TargetIsCandidate == last.pick \in last.among
=============================================================================
