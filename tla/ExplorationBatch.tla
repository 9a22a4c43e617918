-------------------------- MODULE ExplorationBatch --------------------------
(***************************************************************************)
(* gameplay/exploration_batch.py, BatchCoordinator, with its producer, the *)
(* modal of bot/cogs/exploration.py: per channel at most one open batch of *)
(* declared intents, flushed when the party is complete or the deadline is *)
(* over.  submit() awaits only the channel's lock, under which it awaits   *)
(* nothing, and tick() awaits nothing: each is one step.                   *)
(*                                                                         *)
(* Batches live in memory only.  An open batch is the set of its intents   *)
(* (it is never empty), its deadline the relation of deadline_ts to now.   *)
(***************************************************************************)
EXTENDS Naturals, FiniteSets

CONSTANTS Channel,    \* Discord channels
          Intent,     \* modal submissions
          User,       \* players
          Author,     \* Author[i]: who submits i
          Home,       \* Home[i]: the channel i is submitted in
          PartySize   \* set_active_party_size of each channel, 0 if never called

ASSUME BatchAssumption ==
    /\ Author \in [Intent -> User]
    /\ Home \in [Intent -> Channel]
    /\ PartySize \in [Channel -> Nat]
    /\ IsFiniteSet(Intent)

VARIABLES batch,    \* batch[ch]: the intents of ch's open batch, {} when none is
          due,      \* due[ch]: the open batch is past its deadline
          fate      \* history: what became of each intent

batchVars == <<batch, due, fate>>

\* superseded: replaced by its author's next intent; discarded: flushed by
\* submit() to a caller that does not send it; hand: with a loop that is about
\* to send it; skipped: popped by the loop of another channel; failed: the call
\* to dm20 raised; lost: in memory when the process ended.
Fates == {"new", "open", "superseded", "discarded", "hand", "sent", "skipped",
          "failed", "lost"}

BatchTypeOK ==
    /\ batch \in [Channel -> SUBSET Intent]
    /\ due \in [Channel -> BOOLEAN]
    /\ fate \in [Intent -> Fates]

BatchInit ==
    /\ batch = [ch \in Channel |-> {}]
    /\ due = [ch \in Channel |-> FALSE]
    /\ fate = [i \in Intent |-> "new"]

\* fate with the intents of S moved to f.
Moved(S, f) == [i \in Intent |-> IF i \in S THEN f ELSE fate[i]]

\* The open batch's intents i replaces.
Replaced(i) == {j \in batch[Home[i]] : Author[j] = Author[i]}

Full(ch, S) == PartySize[ch] # 0 /\ Cardinality(S) >= PartySize[ch]

-----------------------------------------------------------------------------
\* submit(), called by DeclareActionModal.on_submit.  A batch past its deadline
\* is flushed and a new one started; otherwise the intent joins, the last of a
\* user wins, and a full party flushes.  on_submit only asks whether there was
\* a flush: it sends the batch to nobody.
Submit(i) ==
    LET ch == Home[i]
        joined == (batch[ch] \ Replaced(i)) \cup {i}
    IN /\ fate[i] = "new"
       /\ \/ /\ batch[ch] # {} /\ due[ch]
             /\ batch' = [batch EXCEPT ![ch] = {i}]
             /\ due' = [due EXCEPT ![ch] = FALSE]
             /\ fate' = [Moved(batch[ch], "discarded") EXCEPT ![i] = "open"]
          \/ /\ ~due[ch]
             /\ ~Full(ch, joined)
             /\ batch' = [batch EXCEPT ![ch] = joined]
             /\ fate' = [Moved(Replaced(i), "superseded") EXCEPT ![i] = "open"]
             /\ UNCHANGED due
          \/ /\ ~due[ch]
             /\ Full(ch, joined)
             /\ batch' = [batch EXCEPT ![ch] = {}]
             /\ fate' = [j \in Intent |->
                   CASE j \in Replaced(i) -> "superseded"
                     [] j \in joined -> "discarded"
                     [] OTHER -> fate[j]]
             /\ UNCHANGED due

\* The deadline of an open batch is reached.
BatchDeadline(ch) ==
    /\ batch[ch] # {}
    /\ ~due[ch]
    /\ due' = [due EXCEPT ![ch] = TRUE]
    /\ UNCHANGED <<batch, fate>>

\* tick(): every batch past its deadline, whatever its channel, is popped.
Expired == {ch \in Channel : batch[ch] # {} /\ due[ch]}
PopExpired ==
    /\ batch' = [ch \in Channel |-> IF ch \in Expired THEN {} ELSE batch[ch]]
    /\ due' = [ch \in Channel |-> FALSE]

\* The process ends.
BatchesLost ==
    /\ batch' = [ch \in Channel |-> {}]
    /\ due' = [ch \in Channel |-> FALSE]
    /\ fate' = [i \in Intent |-> IF fate[i] \in {"open", "hand"} THEN "lost"
                                 ELSE fate[i]]
=============================================================================
