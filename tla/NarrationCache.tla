--------------------------- MODULE NarrationCache ---------------------------
(***************************************************************************)
(* observability/narration_cache.py: NarrCache, a memory cache before the  *)
(* model that narrates, with the switch of narrcache_runtime.py.  Nothing  *)
(* mechanical may be kept, so a text is abstracted to what NarrCacheGate   *)
(* tells apart.  A prompt stands for all that goes into the key.           *)
(*                                                                         *)
(* The lock is never held across an await: a call is its beginning, which  *)
(* looks the entry up, and its end, which stores, with the model's answer  *)
(* in between.                                                             *)
(***************************************************************************)
EXTENDS FiniteSets, Naturals, Sequences, Subsequence

CONSTANTS Prompt,
          Asker,     \* calls under way at a time
          Size,      \* narrcache_l1_size
          TTL,       \* narrcache_l1_ttl_s, in ticks
          MaxCalls   \* bound: calls begun

VARIABLES shelf,     \* _l1, least recently used first
          talk,      \* talk[c]: a call under way
          off,       \* the switch: _disabled
          tally,     \* the counters of metrics_snapshot, and what they leave out
          begun,     \* history: calls begun
          broken     \* history: an answer came from the cache that should not

vars == <<shelf, talk, off, tally, begun, broken>>

-----------------------------------------------------------------------------
Text == {"narrative", "mechanical", "empty"}
Counter == {"hits", "misses", "bypass", "refused", "raised"}
Silent == [at |-> "idle", prompt |-> CHOOSE p \in Prompt : TRUE]

TypeOK ==
    /\ shelf \in Seq([prompt : Prompt, text : Text, age : 0 .. TTL, born : 0 .. TTL + 1])
    /\ talk \in [Asker -> [at : {"idle", "asking", "passing"}, prompt : Prompt]]
    /\ off \in BOOLEAN /\ broken \in BOOLEAN
    /\ tally \in [Counter -> 0 .. MaxCalls] /\ begun \in 0 .. MaxCalls

Init == /\ shelf = <<>> /\ talk = [c \in Asker |-> Silent] /\ off = FALSE
        /\ tally = [n \in Counter |-> 0] /\ begun = 0 /\ broken = FALSE

\* NarrCacheGate: a text without words passes too.
Pure(text) == text # "mechanical"

Others(p) == SelectAt(shelf, {i \in 1 .. Len(shelf) : shelf[i].prompt # p})
Live(e) == e.age < TTL /\ Pure(e.text)
Entry(p) == {i \in 1 .. Len(shelf) : shelf[i].prompt = p}

Count(n) == tally' = [tally EXCEPT ![n] = @ + 1]
Begin(c) == talk[c] = Silent /\ begun < MaxCalls /\ begun' = begun + 1
Go(c, where, p) == talk' = [talk EXCEPT ![c] = [at |-> where, prompt |-> p]]
End(c) == talk' = [talk EXCEPT ![c] = Silent]

-----------------------------------------------------------------------------
\* While the switch is off, and for any messages but one of the system and one of
\* the user, the model is asked and the cache left alone.
Bypass(c, p) ==
    /\ Begin(c)
    /\ Count("bypass") /\ Go(c, "passing", p)
    /\ UNCHANGED <<shelf, off, broken>>

\* Variant: a hit makes the entry young again.
HitRenews(c, p) ==
    /\ Begin(c) /\ ~off
    /\ \E i \in Entry(p) :
          /\ Live(shelf[i])
          /\ shelf' = Append(Others(p), [shelf[i] EXCEPT !.age = 0])
          /\ broken' = (broken \/ ~Pure(shelf[i].text) \/ shelf[i].born >= TTL)
    /\ Count("hits")
    /\ UNCHANGED <<talk, off>>

\* The entry is the answer, and moves to the end.
Hit(c, p) ==
    /\ Begin(c) /\ ~off
    /\ \E i \in Entry(p) :
          /\ Live(shelf[i])
          /\ shelf' = Append(Others(p), shelf[i])
          /\ broken' = (broken \/ ~Pure(shelf[i].text) \/ shelf[i].born >= TTL)
    /\ Count("hits")
    /\ UNCHANGED <<talk, off>>

\* An entry past its time, or one the gate no longer passes, is dropped.
Miss(c, p) ==
    /\ Begin(c) /\ ~off
    /\ \A i \in Entry(p) : ~Live(shelf[i])
    /\ shelf' = Others(p)
    /\ Go(c, "asking", p)
    /\ UNCHANGED <<off, tally, broken>>

\* The store and _evict_lru_if_needed: only the first, the least recently used, can
\* be too many.
Kept(p, text) ==
    LET s == Append(Others(p), [prompt |-> p, text |-> text, age |-> 0, born |-> 0])
    IN IF Len(s) > Size THEN Tail(s) ELSE s

\* Variant: the store goes without the gate.
AnswerUngated(c, text) ==
    /\ talk[c].at = "asking" /\ End(c)
    /\ shelf' = Kept(talk[c].prompt, text)
    /\ Count("misses")
    /\ UNCHANGED <<off, begun, broken>>

\* The model answers.  A mechanical text is passed on and not kept; a completion
\* with nothing in it is kept.  Whatever the switch says by now.
Answer(c, text) ==
    /\ talk[c].at = "asking" /\ End(c)
    /\ tally' = [tally EXCEPT !["misses"] = @ + 1,
                              !["refused"] = IF Pure(text) THEN @ ELSE @ + 1]
    /\ shelf' = IF Pure(text) THEN Kept(talk[c].prompt, text) ELSE shelf
    /\ UNCHANGED <<off, begun, broken>>

\* The model fails; the call is no miss.
Raise(c) == /\ talk[c].at = "asking" /\ End(c)
            /\ Count("raised")
            /\ UNCHANGED <<shelf, off, begun, broken>>

\* A call that bypassed the cache comes back, or raises.
Return(c) == /\ talk[c].at = "passing" /\ End(c)
             /\ UNCHANGED <<shelf, off, tally, begun, broken>>

\* disable and enable, for callers in the bot's own process.
Switch == /\ off' = ~off
          /\ UNCHANGED <<shelf, talk, tally, begun, broken>>

Tick == /\ shelf' = [i \in 1 .. Len(shelf) |->
                       [shelf[i] EXCEPT !.age = IF @ < TTL THEN @ + 1 ELSE @,
                                        !.born = IF @ <= TTL THEN @ + 1 ELSE @]]
        /\ UNCHANGED <<talk, off, tally, begun, broken>>

Next == \/ \E c \in Asker : \/ \E p \in Prompt : Bypass(c, p) \/ Hit(c, p) \/ Miss(c, p)
                            \/ \E text \in Text : Answer(c, text)
                            \/ Raise(c) \/ Return(c)
        \/ Switch \/ Tick

Spec == Init /\ [][Next]_vars

-----------------------------------------------------------------------------
(* Properties. *)

UnderWay == Cardinality({c \in Asker : talk[c].at = "asking"})

\* However calls for the same prompt overtake each other and the switch: what is
\* kept and served is narration, served within its time of being told, one entry
\* for a prompt and no more than the limit; and every call is in one counter.
NarrationHonest ==
    /\ ~broken
    /\ \A e \in {shelf[i] : i \in 1 .. Len(shelf)} :
          Pure(e.text) /\ Cardinality(Entry(e.prompt)) = 1
    /\ Len(shelf) <= Size
    /\ begun = tally["hits"] + tally["misses"] + tally["bypass"] + tally["raised"]
                 + UnderWay
=============================================================================
