--------------------------- MODULE ResponseCache ---------------------------
(***************************************************************************)
(* mcp/cache.py: MCPCache, a memory cache (L1) before a database (L2)      *)
(* before dm20, for the tools of CACHEABLE_TOOLS.  A key stands for        *)
(* (tool_name, args_hash).  A value is abstracted to its age and to        *)
(* whether its key has been invalidated since dm20 gave it.                *)
(*                                                                         *)
(* The lock of L1 is never held across an await; every await on L2 or on   *)
(* dm20 separates two actions.                                             *)
(***************************************************************************)
EXTENDS Naturals, Sequences, Subsequence

CONSTANTS Key,
          Caller,      \* calls under way at a time
          Size1,       \* mcpcache_l1_size
          TTL1, TTL2,  \* mcpcache_l1_ttl_s, mcpcache_l2_ttl_s, in ticks
          MaxFaults    \* bound: restarts and failures of the database

VARIABLES l1,      \* _l1, least recently used first
          l2,      \* mcp_cache_entries
          conn,    \* _l2_conn is open
          call,    \* call[c]: a call under way
          wipe,    \* keys whose rows an invalidation is about to delete
          torn,    \* history: keys an invalidation could not clear for good
          faults

vars == <<l1, l2, conn, call, wipe, torn, faults>>

-----------------------------------------------------------------------------
Oldest == TTL1 + TTL2 + 1
Value == [born : 0 .. Oldest, old : BOOLEAN]
Fresh == [born |-> 0, old |-> FALSE]
NoRow == [age |-> TTL2 + 1, val |-> Fresh]
AnyKey == CHOOSE k \in Key : TRUE
Idle == [at |-> "idle", key |-> AnyKey, val |-> Fresh]

TypeOK ==
    /\ l1 \in Seq([key : Key, age : 0 .. TTL1 + 1, val : Value]) /\ Len(l1) <= Size1
    /\ l2 \in [Key -> [age : 0 .. TTL2 + 1, val : Value]]
    /\ conn \in BOOLEAN
    /\ call \in [Caller -> [at : {"idle", "second", "promoting", "asking", "storing"},
                            key : Key, val : Value]]
    /\ wipe \subseteq Key /\ torn \subseteq Key /\ faults \in 0 .. MaxFaults

Init == /\ l1 = <<>> /\ l2 = [k \in Key |-> NoRow] /\ conn = FALSE
        /\ call = [c \in Caller |-> Idle]
        /\ wipe = {} /\ torn = {} /\ faults = 0

Set(c, where, k, v) == call' = [call EXCEPT ![c] = [at |-> where, key |-> k, val |-> v]]
End(c) == call' = [call EXCEPT ![c] = Idle]

Without(K) == SelectAt(l1, {i \in 1 .. Len(l1) : l1[i].key \notin K})
Others(k) == Without({k})
Entry(k) == {i \in 1 .. Len(l1) : l1[i].key = k /\ l1[i].age <= TTL1}

\* _l1_put: a new entry, as of now, at the end; the first one makes room.
Put1(k, v) == LET s == Append(Others(k), [key |-> k, age |-> 0, val |-> v]) IN
                l1' = IF Len(s) > Size1 THEN Tail(s) ELSE s

-----------------------------------------------------------------------------
\* _l1_get: a hit moves the entry to the end and is the answer.
Hit(c, k) ==
    /\ call[c] = Idle
    /\ \E i \in Entry(k) : l1' = Append(Others(k), l1[i])
    /\ UNCHANGED <<l2, conn, call, wipe, torn, faults>>

\* An entry past its time is dropped, and the database asked.
Miss(c, k) ==
    /\ call[c] = Idle
    /\ Entry(k) = {}
    /\ l1' = Others(k)
    /\ Set(c, "second", k, Fresh)
    /\ UNCHANGED <<l2, conn, wipe, torn, faults>>

\* _l2_get opens the database at its first use; a row past its time is deleted.
Second(c) ==
    /\ call[c].at = "second"
    /\ conn' = TRUE
    /\ LET k == call[c].key IN
         IF l2[k].age <= TTL2
         THEN Set(c, "promoting", k, l2[k].val) /\ UNCHANGED l2
         ELSE Set(c, "asking", k, Fresh) /\ l2' = [l2 EXCEPT ![k] = NoRow]
    /\ UNCHANGED <<l1, wipe, torn, faults>>

\* The row goes into L1, where its time begins anew.
Promote(c) == /\ call[c].at = "promoting"
              /\ Put1(call[c].key, call[c].val)
              /\ End(c)
              /\ UNCHANGED <<l2, conn, wipe, torn, faults>>

\* dm20 answers; L1 gets the value at once, L2 after an await.
Answer(c) == /\ call[c].at = "asking"
             /\ Put1(call[c].key, call[c].val)
             /\ Set(c, "storing", call[c].key, call[c].val)
             /\ UNCHANGED <<l2, conn, wipe, torn, faults>>

\* A failed call is not remembered.
Raise(c) == /\ call[c].at = "asking"
            /\ End(c)
            /\ UNCHANGED <<l1, l2, conn, wipe, torn, faults>>

Store(c) == /\ call[c].at = "storing"
            /\ l2' = [l2 EXCEPT ![call[c].key] = [age |-> 0, val |-> call[c].val]]
            /\ End(c)
            /\ UNCHANGED <<l1, conn, wipe, torn, faults>>

-----------------------------------------------------------------------------
\* What is left of keys K when they are invalidated: the rows, and what calls have
\* in hand.
Aged(K) == [k \in Key |-> IF k \in K THEN [l2[k] EXCEPT !.val.old = TRUE] ELSE l2[k]]
InHand(K) == [c \in Caller |-> IF call[c].key \in K /\ call[c] # Idle
                               THEN [call[c] EXCEPT !.val.old = TRUE] ELSE call[c]]
Calling(k) == \E c \in Caller : call[c].at # "idle" /\ call[c].key = k

\* Variant: the database is wiped only if something was found in L1.
InvalidateHere(K) ==
    /\ wipe = {}
    /\ l1' = Without(K)
    /\ l2' = Aged(K)
    /\ call' = InHand(K)
    /\ wipe' = IF conn THEN {k \in K : Entry(k) # {}} ELSE {}
    /\ torn' = torn \cup {k \in K : Calling(k) \/ (~conn /\ l2[k].age <= TTL2)}
    /\ UNCHANGED <<conn, faults>>

\* invalidate, for an entry, a tool or everything, and the poller's wipe: L1 now,
\* and then L2, if this process has opened it.
Invalidate(K) ==
    /\ wipe = {}
    /\ l1' = Without(K)
    /\ l2' = Aged(K)
    /\ call' = InHand(K)
    /\ wipe' = IF conn THEN K ELSE {}
    /\ torn' = torn \cup {k \in K : Calling(k) \/ (~conn /\ l2[k].age <= TTL2)}
    /\ UNCHANGED <<conn, faults>>

\* Calls that began meanwhile may have read a row, or put one.
Wipe == /\ wipe # {}
        /\ l2' = [k \in Key |-> IF k \in wipe THEN NoRow ELSE l2[k]]
        /\ wipe' = {}
        /\ torn' = torn \cup {k \in wipe : Calling(k) \/ Entry(k) # {}}
        /\ UNCHANGED <<l1, conn, call, faults>>

\* The database refuses: the poller goes on as if it had wiped.
WipeFails == /\ wipe # {}
             /\ faults < MaxFaults /\ faults' = faults + 1
             /\ torn' = torn \cup wipe
             /\ wipe' = {}
             /\ UNCHANGED <<l1, l2, conn, call>>

\* L1 goes with the process, L2 stays.
Restart == /\ faults < MaxFaults /\ faults' = faults + 1
           /\ l1' = <<>> /\ conn' = FALSE
           /\ call' = [c \in Caller |-> Idle]
           /\ torn' = torn \cup wipe
           /\ wipe' = {}
           /\ UNCHANGED l2

Older(v) == [v EXCEPT !.born = IF @ < Oldest THEN @ + 1 ELSE @]

\* Bound: the database answers within a tick; dm20 may take longer, and a value's
\* age counts from its answer.
Tick == /\ \A c \in Caller : call[c].at \in {"idle", "asking"}
        /\ wipe = {}
        /\ l1' = [i \in 1 .. Len(l1) |->
                    [l1[i] EXCEPT !.age = IF @ <= TTL1 THEN @ + 1 ELSE @,
                                  !.val = Older(@)]]
        /\ l2' = [k \in Key |-> IF l2[k].age <= TTL2
                                THEN [age |-> l2[k].age + 1, val |-> Older(l2[k].val)]
                                ELSE NoRow]
        /\ UNCHANGED <<conn, call, wipe, torn, faults>>

Next == \/ \E c \in Caller : \/ \E k \in Key : Hit(c, k) \/ Miss(c, k)
                             \/ Second(c) \/ Promote(c) \/ Answer(c) \/ Raise(c)
                             \/ Store(c)
        \/ \E K \in SUBSET Key \ {{}} : Invalidate(K)
        \/ Wipe \/ WipeFails \/ Restart \/ Tick

Spec == Init /\ [][Next]_vars

-----------------------------------------------------------------------------
(* Properties. *)

\* What a hit would return now.
Served(k) == {l1[i].val : i \in Entry(k)}
                \cup (IF l2[k].age <= TTL2 /\ k \notin wipe THEN {l2[k].val} ELSE {})

\* However a value wanders between the two layers, it is served no longer than
\* the two times to live together; and an invalidated value is gone from both,
\* unless a call was under way, L2 was not open, or the database refused.
ServedIsCurrent ==
    \A k \in Key : \A v \in Served(k) :
       /\ v.born <= TTL1 + TTL2
       /\ k \in torn \cup wipe \/ ~v.old
=============================================================================
