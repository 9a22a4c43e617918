--------------------------- MODULE CharacterCache ---------------------------
(***************************************************************************)
(* persistence/character_cache.py for one character: a row that is served  *)
(* without a call while it is younger than the TTL, and verified against   *)
(* dm20 by its etag after that.  Versions of the sheet are numbered; an    *)
(* etag identifies a version.  Time is kept as ages, which Tick advances.  *)
(***************************************************************************)
EXTENDS Naturals

CONSTANTS Caller,      \* get_or_fetch calls under way at a time
          TTL,         \* charcache_ttl_s, in ticks
          MaxVersions  \* bound: versions of the sheet

VARIABLES sheet,   \* dm20: the current version
          gone,    \* history: gone[v]: ticks since v was replaced, 0: it is not
          row,     \* the row: its version, and the age of refreshed_ts
          call     \* call[c]: a get_or_fetch under way

vars == <<sheet, gone, row, call>>

-----------------------------------------------------------------------------
Version == 1 .. MaxVersions
Age == 0 .. TTL + 1      \* TTL + 1: expired
NoRow == [version |-> 0, age |-> 0]
Idle == [at |-> "idle", age |-> 0, had |-> 0, got |-> 0]

TypeOK ==
    /\ sheet \in Version
    /\ gone \in [Version -> Age]
    /\ row \in [version : 0 .. MaxVersions, age : Age]
    /\ call \in [Caller -> [at : {"idle", "fetching", "fetched"}, age : Age,
                            had : 0 .. MaxVersions, got : 0 .. MaxVersions]]

Init == /\ sheet = 1
        /\ gone = [v \in Version |-> 0]
        /\ row = NoRow
        /\ call = [c \in Caller |-> Idle]

Set(c, r) == call' = [call EXCEPT ![c] = r]

-----------------------------------------------------------------------------
\* get_or_fetch reads the row and the clock.  A young row is the answer, and only
\* last_seen_ts changes; otherwise the fetcher is called.
Lookup(c) ==
    /\ call[c] = Idle
    /\ row.version = 0 \/ row.age > TTL
    /\ Set(c, [at |-> "fetching", age |-> 0, had |-> row.version, got |-> 0])
    /\ UNCHANGED <<sheet, gone, row>>

\* dm20 answers with the sheet as it is; the answer may take its time to come.
Fetch(c) == /\ call[c].at = "fetching"
            /\ Set(c, [call[c] EXCEPT !.at = "fetched", !.got = sheet])
            /\ UNCHANGED <<sheet, gone, row>>

\* The fetcher raises, or what it returns is not a character.
Fails(c) == /\ call[c].at \in {"fetching", "fetched"}
            /\ Set(c, Idle)
            /\ UNCHANGED <<sheet, gone, row>>

\* The etag is the one of the row that was read: whatever row is there now is
\* stamped with the time the call began.
EtagMatch(c) ==
    /\ call[c].at = "fetched"
    /\ call[c].got = call[c].had
    /\ row' = IF row.version = 0 THEN row ELSE [row EXCEPT !.age = call[c].age]
    /\ Set(c, Idle)
    /\ UNCHANGED <<sheet, gone>>

\* Variant: the time is taken when the answer has come.
MissLate(c) ==
    /\ call[c].at = "fetched"
    /\ call[c].got # call[c].had
    /\ row' = [version |-> call[c].got, age |-> 0]
    /\ Set(c, Idle)
    /\ UNCHANGED <<sheet, gone>>

\* INSERT OR REPLACE, also over a row another call has put meanwhile.
Miss(c) ==
    /\ call[c].at = "fetched"
    /\ call[c].got # call[c].had
    /\ row' = [version |-> call[c].got, age |-> call[c].age]
    /\ Set(c, Idle)
    /\ UNCHANGED <<sheet, gone>>

\* invalidate, purge_all.
Invalidate == /\ row.version # 0
              /\ row' = NoRow
              /\ UNCHANGED <<sheet, gone, call>>

\* The file outlives the process.
Restart == /\ \E c \in Caller : call[c] # Idle
           /\ call' = [c \in Caller |-> Idle]
           /\ UNCHANGED <<sheet, gone, row>>

NewVersion == /\ sheet < MaxVersions
              /\ sheet' = sheet + 1
              /\ UNCHANGED <<gone, row, call>>

Older(a) == IF a <= TTL THEN a + 1 ELSE a

\* Bound: a call lasts less than half the TTL (MCPClient gives up after two
\* minutes, and the TTL is an hour): otherwise EtagMatch could stamp a row that
\* another call had put in place of the one it verified.
Tick == /\ \A c \in Caller : 2 * (call[c].age + 1) <= TTL
        /\ gone' = [v \in Version |-> IF v < sheet THEN Older(gone[v]) ELSE 0]
        /\ row' = IF row.version = 0 THEN row ELSE [row EXCEPT !.age = Older(@)]
        /\ call' = [c \in Caller |-> IF call[c] = Idle THEN Idle
                                     ELSE [call[c] EXCEPT !.age = Older(@)]]
        /\ UNCHANGED sheet

Next == \/ \E c \in Caller : \/ Lookup(c) \/ Fetch(c) \/ Fails(c)
                             \/ EtagMatch(c) \/ Miss(c)
        \/ Invalidate \/ Restart \/ NewVersion \/ Tick

Spec == Init /\ [][Next]_vars

-----------------------------------------------------------------------------
(* Properties. *)

\* A row was the sheet at the time it is stamped with, or later: however calls
\* overlap, what is served without asking dm20 was true within the TTL.
StampHonest == row.version # 0 => gone[row.version] <= row.age
=============================================================================
