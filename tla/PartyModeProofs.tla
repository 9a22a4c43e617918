-------------------------- MODULE PartyModeProofs --------------------------
(* Theorems about PartyMode, for all channels, intents, actions and bounds. *)
EXTENDS PartyMode, TLAPS

(* The helpers. *)

\* Moving a set of intents changes the fate of these and of no other.
LEMMA MovedFacts ==
    ASSUME NEW S, NEW f
    PROVE  /\ \A i \in Intent : Moved(S, f)[i] = IF i \in S THEN f ELSE fate[i]
           /\ BatchTypeOK /\ f \in Fates => Moved(S, f) \in [Intent -> Fates]
BY DEF Moved, BatchTypeOK

LEMMA NoActionFacts == NoAction \notin Action
BY PartyModeAssumption DEF NoAction

\* The phase that follows the watcher.
LEMMA HandleFacts ==
    ASSUME NEW a \in Action \cup {NoAction}
    PROVE  /\ Handle(a) \in {"flushing", "rendering"}
           /\ Handle(a) = "rendering" <=> a # NoAction
BY DEF Handle

-----------------------------------------------------------------------------
(* Types. *)

\* What a loop announces it has learnt: what it writes into channel_sessions is
\* a state of dm20's.
SpeaksOfWhatItSaw == \A ch \in Channel : loop[ch] = "announcing" => seen[ch] # "unknown"

TypeInv == TypeOK /\ SpeaksOfWhatItSaw

LEMMA TypeInit == Init => TypeInv
BY PartyModeAssumption, BatchAssumption
   DEF Init, TypeInv, SpeaksOfWhatItSaw, TypeOK, BatchInit, BatchTypeOK, Fates,
       Phases, ActionStates, NoAction

LEMMA SubmitType ==
    ASSUME BatchTypeOK, NEW i \in Intent, Submit(i)
    PROVE  BatchTypeOK'
<1> DEFINE ch     == Home[i]
           joined == (batch[ch] \ Replaced(i)) \cup {i}
<1>1. ch \in Channel /\ batch[ch] \subseteq Intent
  BY BatchAssumption DEF BatchTypeOK
<1>2. joined \subseteq Intent
  BY <1>1
<1>3. CASE /\ batch' = [batch EXCEPT ![ch] = {i}]
           /\ due' = [due EXCEPT ![ch] = FALSE]
           /\ fate' = [Moved(batch[ch], "discarded") EXCEPT ![i] = "open"]
  BY <1>1, <1>3, MovedFacts DEF BatchTypeOK, Fates
<1>4. CASE /\ batch' = [batch EXCEPT ![ch] = joined]
           /\ fate' = [Moved(Replaced(i), "superseded") EXCEPT ![i] = "open"]
           /\ UNCHANGED due
  BY <1>1, <1>2, <1>4, MovedFacts DEF BatchTypeOK, Fates
<1>5. CASE /\ batch' = [batch EXCEPT ![ch] = {}]
           /\ fate' = [j \in Intent |->
                 CASE j \in Replaced(i) -> "superseded"
                   [] j \in joined -> "discarded"
                   [] OTHER -> fate[j]]
           /\ UNCHANGED due
  BY <1>1, <1>5 DEF BatchTypeOK, Fates
<1> QED
  BY <1>3, <1>4, <1>5 DEF Submit

LEMMA PopExpiredType ==
    ASSUME BatchTypeOK, PopExpired
    PROVE  batch' \in [Channel -> SUBSET Intent] /\ due' \in [Channel -> BOOLEAN]
BY DEF BatchTypeOK, PopExpired

LEMMA TypeStep == TypeInv /\ [Next]_vars => TypeOK'
<1> SUFFICES ASSUME TypeOK, SpeaksOfWhatItSaw, [Next]_vars PROVE TypeOK'
  BY DEF TypeInv
<1> USE PartyModeAssumption
<1>1. ASSUME NEW i \in Intent, Declare(i) PROVE TypeOK'
  BY <1>1, SubmitType DEF Declare, TypeOK, taskVars, dm20Vars, histVars
<1>2. ASSUME NEW a \in Action, QueueAction(a) PROVE TypeOK'
  BY <1>2 DEF QueueAction, TypeOK, BatchTypeOK, ActionStates, batchVars,
              taskVars, histVars
<1>3. ASSUME CombatBegins PROVE TypeOK'
  BY <1>3 DEF CombatBegins, TypeOK, BatchTypeOK, batchVars, taskVars, histVars
<1>4. ASSUME CombatEnds PROVE TypeOK'
  BY <1>4 DEF CombatEnds, TypeOK, BatchTypeOK, batchVars, taskVars, histVars
<1>5. ASSUME NEW ch \in Channel, DeadlinePasses(ch) PROVE TypeOK'
  BY <1>5 DEF DeadlinePasses, BatchDeadline, TypeOK, BatchTypeOK, taskVars,
              dm20Vars, histVars
<1>6. ASSUME NEW ch \in Channel, StartLoop(ch) PROVE TypeOK'
  BY <1>6 DEF StartLoop, Goto, TypeOK, BatchTypeOK, Phases, batchVars, dm20Vars,
              histVars
<1>7. ASSUME NEW ch \in Channel, Flush(ch) PROVE TypeOK'
  <2>1. batch' \in [Channel -> SUBSET Intent] /\ due' \in [Channel -> BOOLEAN]
    BY <1>7, PopExpiredType DEF Flush, TypeOK
  <2>2. fate' \in [Intent -> Fates]
    BY <1>7 DEF Flush, TypeOK, BatchTypeOK, Fates
  <2>3. loop' \in [Channel -> Phases] /\ outbox' \in [Channel -> SUBSET Intent]
    BY <1>7 DEF Flush, Goto, TypeOK, BatchTypeOK, Phases
  <2> QED
    BY <1>7, <2>1, <2>2, <2>3 DEF Flush, TypeOK, BatchTypeOK, dm20Vars, histVars
<1>8. ASSUME NEW ch \in Channel, Send(ch) PROVE TypeOK'
  <2>1. fate' \in [Intent -> Fates]
    BY <1>8, MovedFacts DEF Send, TypeOK, Fates
  <2>2. sentBy' \in [Intent -> SUBSET Channel] /\ faults' \in 0 .. MaxFaults
    BY <1>8 DEF Send, Fault, TypeOK
  <2>3. loop' \in [Channel -> Phases] /\ outbox' \in [Channel -> SUBSET Intent]
    BY <1>8 DEF Send, Goto, TypeOK, Phases
  <2> QED
    BY <1>8, <2>1, <2>2, <2>3 DEF Send, TypeOK, BatchTypeOK, dm20Vars
<1>9. ASSUME NEW ch \in Channel, Pop(ch) PROVE TypeOK'
  <2>1. act' \in [Action -> ActionStates] /\ hand' \in [Channel -> Action \cup {NoAction}]
    BY <1>9 DEF Pop, TypeOK, ActionStates
  <2>2. poll' \in [Channel -> 0 .. CheckEvery - 1]
    <3>1. (poll[ch] + 1) % CheckEvery \in 0 .. CheckEvery - 1
      BY DEF TypeOK
    <3> QED
      BY <1>9, <3>1 DEF Pop, TypeOK
  <2>3. loop' \in [Channel -> Phases]
    BY <1>9, <2>1, HandleFacts DEF Pop, Goto, TypeOK, Phases
  <2> QED
    BY <1>9, <2>1, <2>2, <2>3 DEF Pop, TypeOK, BatchTypeOK, batchVars, histVars
<1>10. ASSUME NEW ch \in Channel, PopFails(ch) PROVE TypeOK'
  BY <1>10 DEF PopFails, Fault, Goto, TypeOK, BatchTypeOK, Phases, ActionStates,
               batchVars, histVars
<1>11. ASSUME NEW ch \in Channel, Watch(ch) PROVE TypeOK'
  <2>1. loop' \in [Channel -> Phases]
    BY <1>11, HandleFacts DEF Watch, Goto, TypeOK, Phases
  <2>2. blind' \in [Channel -> BOOLEAN]
    <3>1. blind' = blind \/ \E b \in BOOLEAN : blind' = [blind EXCEPT ![ch] = b]
      BY <1>11, Zenon DEF Watch
    <3> QED
      BY <3>1 DEF TypeOK
  <2>3. combat \in {"EXPLORATION", "COMBAT"}
    BY DEF TypeOK
  <2>4. seen' \in [Channel -> {"unknown", "EXPLORATION", "COMBAT"}]
    BY <1>11, <2>3 DEF Watch, TypeOK
  <2>5. cadence' \in [Channel -> {"EXPLORATION", "COMBAT"}]
    BY <1>11, <2>3 DEF Watch, TypeOK
  <2> QED
    BY <1>11, <2>1, <2>2, <2>4, <2>5 DEF Watch, TypeOK, BatchTypeOK, batchVars, dm20Vars
<1>12. ASSUME NEW ch \in Channel, WatchFails(ch) PROVE TypeOK'
  <2>1. loop' \in [Channel -> Phases]
    BY <1>12, HandleFacts DEF WatchFails, Goto, TypeOK, Phases
  <2> QED
    BY <1>12, <2>1 DEF WatchFails, Fault, TypeOK, BatchTypeOK, batchVars,
                       dm20Vars, histVars
<1>13. ASSUME NEW ch \in Channel, Announce(ch) PROVE TypeOK'
  <2>1. loop' \in [Channel -> Phases]
    BY <1>13, HandleFacts DEF Announce, Goto, TypeOK, Phases
  <2>2. state' \in [Channel -> {"LOBBY", "EXPLORATION", "COMBAT"}]
    BY <1>13 DEF Announce, TypeOK, SpeaksOfWhatItSaw
  <2>3. faults' \in 0 .. MaxFaults
    BY <1>13 DEF Announce, Fault, TypeOK
  <2>4. blind' \in [Channel -> BOOLEAN]
    <3>1. \E b \in BOOLEAN : blind' = [blind EXCEPT ![ch] = b]
      BY <1>13, Zenon DEF Announce
    <3> QED
      BY <3>1 DEF TypeOK
  <2>5. UNCHANGED <<batch, due, fate, outbox, hand, poll, seen, cadence, combat,
                    combats, act, rendered, sentBy>>
    BY <1>13 DEF Announce, batchVars, dm20Vars
  <2> QED
    BY <2>1, <2>2, <2>3, <2>4, <2>5 DEF TypeOK, BatchTypeOK
<1>14. ASSUME NEW ch \in Channel, Render(ch) PROVE TypeOK'
  <2>1. rendered' \in [Action -> Nat]
    <3>1. ASSUME NEW a, rendered' = [rendered EXCEPT ![a] = @ + 1]
          PROVE  rendered' \in [Action -> Nat]
      <4>1. CASE a \in Action
        <5>1. rendered[a] + 1 \in Nat
          BY <4>1 DEF TypeOK
        <5> QED
          BY <3>1, <5>1 DEF TypeOK
      <4>2. CASE a \notin Action
        <5>1. rendered' = rendered
          BY <3>1, <4>2 DEF TypeOK
        <5> QED
          BY <5>1 DEF TypeOK
      <4> QED
        BY <4>1, <4>2
    <3> QED
      BY <1>14, <3>1 DEF Render
  <2> QED
    BY <1>14, <2>1 DEF Render, Goto, TypeOK, BatchTypeOK, Phases, batchVars, dm20Vars
<1>15. ASSUME NEW ch \in Channel, Resolve(ch) PROVE TypeOK'
  BY <1>15 DEF Resolve, Fault, Goto, TypeOK, BatchTypeOK, Phases, ActionStates,
               batchVars, histVars
<1>16. ASSUME Restart PROVE TypeOK'
  BY <1>16 DEF Restart, BatchesLost, Fault, TypeOK, BatchTypeOK, Fates, Phases,
               ActionStates
<1>17. ASSUME UNCHANGED vars PROVE TypeOK'
  BY <1>17 DEF vars, batchVars, taskVars, dm20Vars, histVars, TypeOK, BatchTypeOK
<1> QED
  BY <1>1, <1>2, <1>3, <1>4, <1>5, <1>6, <1>7, <1>8, <1>9, <1>10, <1>11, <1>12,
     <1>13, <1>14, <1>15, <1>16, <1>17 DEF Next, LoopStep

LEMMA SawStep == TypeInv /\ [Next]_vars => SpeaksOfWhatItSaw'
<1> SUFFICES ASSUME TypeOK, SpeaksOfWhatItSaw, [Next]_vars, NEW ch \in Channel,
                    loop'[ch] = "announcing"
             PROVE  seen'[ch] # "unknown"
  BY DEF TypeInv, SpeaksOfWhatItSaw
<1>1. CASE loop'[ch] = loop[ch] /\ seen'[ch] = seen[ch]
  BY <1>1 DEF SpeaksOfWhatItSaw
<1>2. ASSUME NEW d \in Channel, LoopStep(d)
      PROVE  (loop'[ch] = loop[ch] /\ seen'[ch] = seen[ch]) \/ (ch = d /\ Watch(ch))
  <2>1. CASE Watch(d)
    BY <2>1 DEF Watch, Goto, TypeOK
  <2>2. CASE Flush(d) \/ Send(d) \/ PopFails(d) \/ Render(d) \/ Resolve(d)
    BY <2>2 DEF Flush, Send, PopFails, Render, Resolve, Goto, TypeOK
  <2>3. CASE Pop(d)
    <3>1. hand'[d] \in Action \cup {NoAction}
      BY <2>3 DEF Pop, TypeOK
    <3> QED
      BY <2>3, <3>1, HandleFacts DEF Pop, Goto, TypeOK
  <2>4. CASE WatchFails(d) \/ Announce(d)
    <3>1. Handle(hand[d]) # "announcing"
      BY HandleFacts DEF TypeOK
    <3> QED
      BY <2>4, <3>1 DEF WatchFails, Announce, Goto, TypeOK
  <2> QED
    BY <1>2, <2>1, <2>2, <2>3, <2>4 DEF LoopStep
<1>3. CASE Watch(ch)
  BY <1>3 DEF Watch, TypeOK
<1>4. CASE ~\E d \in Channel : LoopStep(d)
  BY <1>1, <1>4 DEF Next, Declare, QueueAction, CombatBegins, CombatEnds,
     DeadlinePasses, StartLoop, Goto, Restart, TypeOK, taskVars, vars
<1> QED
  BY <1>1, <1>2, <1>3, <1>4

\* Every variable keeps its type, and nothing unknown is announced.
THEOREM PartyModeTypeOK == Spec => []TypeInv
<1>1. TypeInv /\ [Next]_vars => TypeInv'
  BY TypeStep, SawStep DEF TypeInv
<1> QED
  BY <1>1, TypeInit, PTL DEF Spec

-----------------------------------------------------------------------------
(* Batches. *)

\* Each player speaks once in S.
Voice(S) == \A i, j \in S : Author[i] = Author[j] => i = j

\* What a loop is about to send comes from its own channel.
OwnOutbox == \A ch \in Channel : \A i \in outbox[ch] : Home[i] = ch

BatchInv == TypeInv /\ OneVoice /\ OwnSession /\ OwnOutbox

\* OneVoice, one batch at a time.
LEMMA VoiceFacts ==
    OneVoice <=> \A ch \in Channel :
                    /\ \A i \in batch[ch] : fate[i] = "open" /\ Home[i] = ch
                    /\ \A i \in outbox[ch] : fate[i] = "hand"
                    /\ Voice(batch[ch])
                    /\ Voice(outbox[ch])
BY DEF OneVoice, Voice

\* A step that moves intents keeps what is said of the batches it leaves alone.
LEMMA SubmitVoice ==
    ASSUME BatchInv, NEW i \in Intent, Submit(i), outbox' = outbox
    PROVE  OneVoice'
<1> DEFINE ch     == Home[i]
           joined == (batch[ch] \ Replaced(i)) \cup {i}
<1>0. /\ ch \in Channel /\ batch[ch] \subseteq Intent /\ fate[i] = "new"
      /\ batch \in [Channel -> SUBSET Intent] /\ fate \in [Intent -> Fates]
      /\ outbox \in [Channel -> SUBSET Intent]
  BY BatchAssumption DEF BatchInv, TypeInv, TypeOK, BatchTypeOK, Submit
<1>1. \A d \in Channel : /\ \A j \in batch[d] : fate[j] = "open" /\ Home[j] = d
                         /\ \A j \in outbox[d] : fate[j] = "hand"
                         /\ Voice(batch[d])
                         /\ Voice(outbox[d])
  BY VoiceFacts DEF BatchInv
<1>2. joined \subseteq Intent /\ Voice(joined) /\ Voice({i}) /\ Voice({})
  BY <1>0, <1>1 DEF Voice, Replaced
<1>3. \A S : Replaced(i) \subseteq batch[ch] /\ i \notin batch[ch]
  BY <1>0, <1>1 DEF Replaced
<1>4. ASSUME NEW S \in SUBSET Intent, S = {} \/ i \in S,
             S \subseteq joined, Voice(S), batch' = [batch EXCEPT ![ch] = S],
             \A j \in Intent : j \notin batch[ch] \cup {i} => fate'[j] = fate[j],
             \A j \in S : fate'[j] = "open"
      PROVE  OneVoice'
  <2> SUFFICES ASSUME NEW d \in Channel
               PROVE  /\ \A j \in batch'[d] : fate'[j] = "open" /\ Home[j] = d
                      /\ \A j \in outbox'[d] : fate'[j] = "hand"
                      /\ Voice(batch'[d])
                      /\ Voice(outbox'[d])
    BY DEF OneVoice, Voice
  <2>1. \A j \in outbox[d] : fate'[j] = "hand"
    BY <1>0, <1>1, <1>4
  <2>2. CASE d = ch
    BY <1>0, <1>1, <1>4, <2>1, <2>2
  <2>3. CASE d # ch
    <3>1. \A j \in batch[d] : j \notin batch[ch] \cup {i}
      BY <1>0, <1>1, <2>3
    <3> QED
      BY <1>0, <1>1, <1>4, <2>1, <2>3, <3>1
  <2> QED
    BY <2>2, <2>3
<1>5. CASE /\ batch' = [batch EXCEPT ![ch] = {i}]
           /\ fate' = [Moved(batch[ch], "discarded") EXCEPT ![i] = "open"]
  <2>1. \A j \in Intent : fate'[j] = IF j = i THEN "open"
                            ELSE IF j \in batch[ch] THEN "discarded" ELSE fate[j]
    BY <1>5 DEF Moved
  <2> QED
    BY <1>2, <1>4, <1>5, <2>1
<1>6. CASE /\ batch' = [batch EXCEPT ![ch] = joined]
           /\ fate' = [Moved(Replaced(i), "superseded") EXCEPT ![i] = "open"]
  <2>1. \A j \in Intent : fate'[j] = IF j = i THEN "open"
                            ELSE IF j \in Replaced(i) THEN "superseded" ELSE fate[j]
    BY <1>6 DEF Moved
  <2>2. \A j \in joined : fate'[j] = "open"
    BY <1>0, <1>1, <1>2, <2>1
  <2> QED
    BY <1>2, <1>3, <1>4, <1>6, <2>1, <2>2
<1>7. CASE /\ batch' = [batch EXCEPT ![ch] = {}]
           /\ fate' = [j \in Intent |->
                 CASE j \in Replaced(i) -> "superseded"
                   [] j \in joined -> "discarded"
                   [] OTHER -> fate[j]]
  <2>1. \A j \in Intent : j \notin batch[ch] \cup {i} => fate'[j] = fate[j]
    BY <1>3, <1>7
  <2> QED
    BY <1>2, <1>4, <1>7, <2>1
<1> QED
  BY <1>5, <1>6, <1>7 DEF Submit

LEMMA BatchInitial == Init => BatchInv
BY TypeInit DEF Init, BatchInit, BatchInv, OneVoice, OwnSession, OwnOutbox

LEMMA BatchStep == BatchInv /\ [Next]_vars => BatchInv'
<1> SUFFICES ASSUME BatchInv, [Next]_vars PROVE BatchInv'
  OBVIOUS
<1>0. TypeInv' /\ TypeOK /\ BatchTypeOK
  BY TypeStep, SawStep DEF BatchInv, TypeInv, TypeOK
<1>v. \A d \in Channel : /\ \A j \in batch[d] : fate[j] = "open" /\ Home[j] = d
                         /\ \A j \in outbox[d] : fate[j] = "hand" /\ Home[j] = d
                         /\ Voice(batch[d])
                         /\ Voice(outbox[d])
  BY VoiceFacts DEF BatchInv, OwnOutbox
<1>1. ASSUME NEW i \in Intent, Declare(i) PROVE BatchInv'
  <2>1. UNCHANGED <<outbox, sentBy>> /\ Submit(i)
    BY <1>1 DEF Declare, taskVars, histVars
  <2>2. OneVoice'
    BY <2>1, SubmitVoice
  <2> QED
    BY <1>0, <2>1, <2>2 DEF BatchInv, OwnSession, OwnOutbox
<1>2. ASSUME NEW ch \in Channel, Flush(ch) PROVE BatchInv'
  <2>1. /\ batch \in [Channel -> SUBSET Intent] /\ fate \in [Intent -> Fates]
        /\ outbox \in [Channel -> SUBSET Intent] /\ sentBy' = sentBy
    BY <1>0, <1>2 DEF TypeOK, BatchTypeOK, Flush, histVars
  <2>2. \A d \in Channel : batch'[d] = IF d \in Expired THEN {} ELSE batch[d]
    BY <1>2 DEF Flush, PopExpired
  <2>3. \A d \in Channel : \A j \in batch[d] :
           d \notin Expired => fate'[j] = fate[j]
    BY <1>2, <1>v, <2>1 DEF Flush, Expired
  <2>4. \A d \in Channel : \A j \in outbox[d] : fate'[j] = fate[j]
    BY <1>2, <1>v, <2>1 DEF Flush, Expired
  <2>5. CASE ch \in Expired
    <3>1. outbox' = [outbox EXCEPT ![ch] = batch[ch]]
      BY <1>2, <2>5 DEF Flush
    <3>2. \A j \in batch[ch] : fate'[j] = "hand"
      <4>1. \A j \in batch[ch] : ~\E c \in Expired \ {ch} : j \in batch[c]
        BY <1>v DEF Expired
      <4> QED
        BY <1>2, <2>1, <2>5, <4>1 DEF Flush
    <3>3. \A d \in Channel : \A j \in outbox'[d] : fate'[j] = "hand" /\ Home[j] = d
      BY <1>v, <2>1, <2>4, <3>1, <3>2
    <3>4. \A d \in Channel : Voice(outbox'[d]) /\ Voice(batch'[d])
      BY <1>v, <2>1, <2>2, <3>1 DEF Voice
    <3>5. \A d \in Channel : \A j \in batch'[d] : fate'[j] = "open" /\ Home[j] = d
      BY <1>v, <2>2, <2>3
    <3> QED
      BY <1>0, <2>1, <3>3, <3>4, <3>5 DEF BatchInv, OneVoice, Voice, OwnSession, OwnOutbox
  <2>6. CASE ch \notin Expired
    <3>1. outbox' = outbox
      BY <1>2, <2>6 DEF Flush
    <3>2. \A d \in Channel : \A j \in outbox'[d] : fate'[j] = "hand" /\ Home[j] = d
      BY <1>v, <2>4, <3>1
    <3>3. \A d \in Channel : Voice(outbox'[d]) /\ Voice(batch'[d])
      BY <1>v, <2>2, <3>1 DEF Voice
    <3>4. \A d \in Channel : \A j \in batch'[d] : fate'[j] = "open" /\ Home[j] = d
      BY <1>v, <2>2, <2>3
    <3> QED
      BY <1>0, <2>1, <3>2, <3>3, <3>4 DEF BatchInv, OneVoice, Voice, OwnSession, OwnOutbox
  <2> QED
    BY <2>5, <2>6
<1>3. ASSUME NEW ch \in Channel, Send(ch) PROVE BatchInv'
  <2>1. /\ batch \in [Channel -> SUBSET Intent] /\ fate \in [Intent -> Fates]
        /\ outbox \in [Channel -> SUBSET Intent] /\ batch' = batch
        /\ outbox' = [outbox EXCEPT ![ch] = {}]
    BY <1>0, <1>3 DEF TypeOK, BatchTypeOK, Send
  <2>2. \A j \in Intent : j \notin outbox[ch] => fate'[j] = fate[j]
    BY <1>3 DEF Send, Moved
  <2>3. \A d \in Channel : \A j \in batch'[d] : fate'[j] = "open" /\ Home[j] = d
    <3>1. \A d \in Channel : \A j \in batch[d] : j \in Intent /\ j \notin outbox[ch]
      BY <1>v, <2>1
    <3> QED
      BY <1>v, <2>1, <2>2, <3>1
  <2>4. \A d \in Channel : \A j \in outbox'[d] : fate'[j] = "hand" /\ Home[j] = d
    <3>1. \A d \in Channel : \A j \in outbox'[d] :
             j \in outbox[d] /\ j \in Intent /\ j \notin outbox[ch]
      BY <1>v, <2>1
    <3> QED
      BY <1>v, <2>1, <2>2, <3>1
  <2>5. \A d \in Channel : Voice(outbox'[d]) /\ Voice(batch'[d])
    BY <1>v, <2>1 DEF Voice
  <2>6. OwnSession'
    <3>1. \A i \in Intent : sentBy'[i] \subseteq
             sentBy[i] \cup (IF i \in outbox[ch] THEN {ch} ELSE {})
      BY <1>3 DEF Send
    <3>2. \A i \in Intent : sentBy[i] \subseteq {Home[i]}
      BY DEF BatchInv, OwnSession
    <3> QED
      BY <1>v, <3>1, <3>2 DEF OwnSession
  <2> QED
    BY <1>0, <2>3, <2>4, <2>5, <2>6 DEF BatchInv, OneVoice, Voice, OwnOutbox
<1>4. ASSUME Restart PROVE BatchInv'
  BY <1>0, <1>4 DEF Restart, BatchesLost, BatchInv, OneVoice, OwnSession, OwnOutbox
<1>5. ASSUME UNCHANGED <<batch, fate, outbox, sentBy>> PROVE BatchInv'
  BY <1>0, <1>5 DEF BatchInv, OneVoice, OwnSession, OwnOutbox
<1>6. ASSUME NEW ch \in Channel,
             \/ DeadlinePasses(ch) \/ StartLoop(ch)
             \/ Pop(ch) \/ PopFails(ch) \/ Watch(ch) \/ WatchFails(ch)
             \/ Announce(ch) \/ Render(ch) \/ Resolve(ch)
      PROVE  UNCHANGED <<batch, fate, outbox, sentBy>>
  BY <1>6 DEF DeadlinePasses, BatchDeadline, StartLoop, Pop, PopFails, Watch,
     WatchFails, Announce, Render, Resolve, batchVars, taskVars, histVars
<1>7. ASSUME \/ \E a \in Action : QueueAction(a)
             \/ CombatBegins \/ CombatEnds \/ UNCHANGED vars
      PROVE  UNCHANGED <<batch, fate, outbox, sentBy>>
  BY <1>7 DEF QueueAction, CombatBegins, CombatEnds, vars, batchVars, taskVars,
     histVars
<1> QED
  BY <1>1, <1>2, <1>3, <1>4, <1>5, <1>6, <1>7 DEF Next, LoopStep

\* Whatever is declared, flushed, sent, lost or restarted, a batch speaks with
\* one voice for each player and goes to dm20 in its own channel's session only.
THEOREM PartyModeBatchFaithful == Spec => []BatchFaithful
<1>1. BatchInv => BatchFaithful
  BY DEF BatchInv, BatchFaithful
<1> QED
  BY <1>1, BatchInitial, BatchStep, PTL DEF Spec

-----------------------------------------------------------------------------
(* Actions. *)

\* A loop holds an action from the pop until it is resolved or given up.
HandInPhase ==
    \A ch \in Channel :
       /\ hand[ch] # NoAction
             => loop[ch] \in {"watching", "announcing", "rendering", "resolving"}
       /\ loop[ch] \in {"rendering", "resolving"} => hand[ch] # NoAction

\* Between these the cogs are called once.
ShownOnce ==
    /\ \A a \in Action : act[a] \in {"new", "queued"} => rendered[a] = 0
    /\ \A ch \in Channel :
          hand[ch] # NoAction
             => rendered[hand[ch]] = IF loop[ch] = "resolving" THEN 1 ELSE 0

HandInv == TypeInv /\ ActionInOneHand /\ HandInPhase /\ ShownOnce

LEMMA HandInitial == Init => HandInv
BY TypeInit, NoActionFacts
   DEF Init, HandInv, ActionInOneHand, HandInPhase, ShownOnce

\* A loop goes on with what it has in its hand.
LEMMA PhaseStep ==
    ASSUME HandInv, TypeInv', NEW ch \in Channel, NEW phase \in Phases,
           Goto(ch, phase), UNCHANGED <<hand, rendered, act>>,
           loop[ch] # "resolving", phase # "resolving",
           hand[ch] # NoAction => phase \in {"watching", "announcing", "rendering"},
           phase = "rendering" => hand[ch] # NoAction
    PROVE  HandInv'
<1>1. \A d \in Channel : loop'[d] = IF d = ch THEN phase ELSE loop[d]
  BY DEF HandInv, TypeInv, TypeOK, Goto
<1>2. HandInPhase'
  BY <1>1 DEF HandInv, HandInPhase
<1>3. ShownOnce'
  BY <1>1 DEF HandInv, ShownOnce
<1>4. ActionInOneHand'
  BY DEF HandInv, ActionInOneHand
<1> QED
  BY <1>2, <1>3, <1>4 DEF HandInv

LEMMA HandStep == HandInv /\ [Next]_vars => HandInv'
<1> SUFFICES ASSUME HandInv, [Next]_vars PROVE HandInv'
  OBVIOUS
<1>0. /\ TypeInv' /\ TypeOK /\ act \in [Action -> ActionStates]
      /\ hand \in [Channel -> Action \cup {NoAction}]
      /\ loop \in [Channel -> Phases] /\ rendered \in [Action -> Nat]
      /\ NoAction \notin Action
  BY TypeStep, SawStep, NoActionFacts DEF HandInv, TypeInv, TypeOK
<1>1. ASSUME UNCHANGED <<hand, rendered, act, loop>> PROVE HandInv'
  BY <1>0, <1>1 DEF HandInv, ActionInOneHand, HandInPhase, ShownOnce
<1>2. ASSUME NEW a \in Action, QueueAction(a) PROVE HandInv'
  <2>1. UNCHANGED <<hand, rendered, loop>> /\ act' = [act EXCEPT ![a] = "queued"]
        /\ act[a] = "new"
    BY <1>2 DEF QueueAction, taskVars, histVars
  <2> QED
    BY <1>0, <2>1 DEF HandInv, ActionInOneHand, HandInPhase, ShownOnce
<1>3. ASSUME NEW ch \in Channel, StartLoop(ch) \/ Flush(ch) \/ Send(ch)
      PROVE  HandInv'
  <2>1. /\ UNCHANGED <<hand, rendered, act>>
        /\ loop[ch] \in {"off", "flushing", "sending"}
        /\ Goto(ch, "flushing") \/ Goto(ch, "sending") \/ Goto(ch, "popping")
    BY <1>3 DEF StartLoop, Flush, Send, dm20Vars, histVars
  <2>2. hand[ch] = NoAction
    BY <2>1 DEF HandInv, HandInPhase
  <2>3. "flushing" \in Phases /\ "sending" \in Phases /\ "popping" \in Phases
    BY DEF Phases
  <2> QED
    BY <1>0, <2>1, <2>2, <2>3, PhaseStep
<1>4. ASSUME NEW ch \in Channel, Watch(ch) \/ WatchFails(ch) \/ Announce(ch)
      PROVE  HandInv'
  <2>1. /\ UNCHANGED <<hand, rendered, act>>
        /\ loop[ch] \in {"watching", "announcing"}
        /\ Goto(ch, Handle(hand[ch])) \/ Goto(ch, "announcing")
    BY <1>4 DEF Watch, WatchFails, Announce, dm20Vars, histVars
  <2>2. /\ Handle(hand[ch]) \in {"flushing", "rendering"}
        /\ Handle(hand[ch]) = "rendering" <=> hand[ch] # NoAction
    BY <1>0, HandleFacts
  <2>3. CASE Goto(ch, Handle(hand[ch]))
    <3>1. Handle(hand[ch]) \in Phases
      BY <2>2 DEF Phases
    <3> QED
      BY <1>0, <2>1, <2>2, <2>3, <3>1, PhaseStep
  <2>4. CASE Goto(ch, "announcing")
    <3>1. "announcing" \in Phases
      BY DEF Phases
    <3> QED
      BY <1>0, <2>1, <2>4, <3>1, PhaseStep
  <2> QED
    BY <2>1, <2>3, <2>4
<1>5. ASSUME NEW ch \in Channel, Pop(ch) PROVE HandInv'
  <2>1. hand[ch] = NoAction /\ loop[ch] = "popping" /\ rendered' = rendered
    BY <1>5 DEF Pop, HandInv, HandInPhase, histVars
  <2>2. hand'[ch] \in Action \cup {NoAction}
    BY <1>0, <1>5 DEF Pop
  <2>3. \E phase \in {"watching", Handle(hand'[ch])} : Goto(ch, phase)
    BY <1>5 DEF Pop
  <2>4. /\ \A d \in Channel \ {ch} : loop'[d] = loop[d]
        /\ loop'[ch] \in {"watching", Handle(hand'[ch])}
    BY <1>0, <2>3 DEF Goto
  <2>5. /\ Handle(hand'[ch]) \in {"flushing", "rendering"}
        /\ Handle(hand'[ch]) = "rendering" <=> hand'[ch] # NoAction
    BY <2>2, HandleFacts
  <2>6. CASE UNCHANGED <<act, hand>>
    <3>1. PICK phase \in {"watching", Handle(hand'[ch])} : Goto(ch, phase)
      BY <2>3
    <3>2. phase \in {"watching", "flushing"} /\ phase \in Phases
      BY <2>1, <2>5, <2>6 DEF Phases
    <3> QED
      BY <1>0, <2>1, <2>6, <3>1, <3>2, PhaseStep
  <2>7. ASSUME NEW a \in Action, act[a] = "queued",
               act' = [act EXCEPT ![a] = "popped"],
               hand' = [hand EXCEPT ![ch] = a]
        PROVE  HandInv'
    <3>1. \A d \in Channel : hand'[d] = IF d = ch THEN a ELSE hand[d]
      BY <1>0, <2>7
    <3>2. \A d \in Channel : hand[d] # a
      BY <2>7 DEF HandInv, ActionInOneHand
    <3>3. ActionInOneHand'
      BY <1>0, <2>1, <2>7, <3>1, <3>2 DEF HandInv, ActionInOneHand
    <3>4. HandInPhase'
      BY <1>0, <2>4, <2>5, <2>7, <3>1 DEF HandInv, HandInPhase
    <3>5. ShownOnce'
      BY <1>0, <2>1, <2>4, <2>5, <2>7, <3>1 DEF HandInv, ShownOnce
    <3> QED
      BY <1>0, <3>3, <3>4, <3>5 DEF HandInv
  <2> QED
    BY <1>5, <2>6, <2>7 DEF Pop
<1>6. ASSUME NEW ch \in Channel, PopFails(ch) PROVE HandInv'
  <2>1. /\ hand[ch] = NoAction /\ loop[ch] = "popping"
        /\ UNCHANGED <<rendered, hand>> /\ Goto(ch, "flushing")
    BY <1>6 DEF PopFails, HandInv, HandInPhase, histVars
  <2>2. CASE UNCHANGED act
    <3>1. "flushing" \in Phases
      BY DEF Phases
    <3> QED
      BY <1>0, <2>1, <2>2, <3>1, PhaseStep
  <2>3. ASSUME NEW a \in Action, act[a] = "queued",
               act' = [act EXCEPT ![a] = "abandoned"]
        PROVE  HandInv'
    <3>1. \A d \in Channel : hand[d] # a
      BY <2>3 DEF HandInv, ActionInOneHand
    <3> QED
      BY <1>0, <2>1, <2>3, <3>1
         DEF Goto, HandInv, ActionInOneHand, HandInPhase, ShownOnce
  <2> QED
    BY <1>6, <2>2, <2>3 DEF PopFails
<1>7. ASSUME NEW ch \in Channel, Render(ch) PROVE HandInv'
  <2>1. /\ loop[ch] = "rendering" /\ hand[ch] \in Action /\ UNCHANGED <<hand, act>>
        /\ loop' = [loop EXCEPT ![ch] = "resolving"] /\ act[hand[ch]] = "popped"
        /\ rendered[hand[ch]] = 0 /\ rendered' = [rendered EXCEPT ![hand[ch]] = @ + 1]
    BY <1>0, <1>7 DEF Render, Goto, HandInv, HandInPhase, ShownOnce,
       ActionInOneHand, dm20Vars
  <2>2. \A d \in Channel \ {ch} : hand[d] # hand[ch]
    BY <2>1 DEF HandInv, ActionInOneHand
  <2>3. \A a \in Action : rendered'[a] = IF a = hand[ch] THEN 1 ELSE rendered[a]
    BY <1>0, <2>1
  <2>4. ActionInOneHand'
    BY <2>1, <2>3 DEF HandInv, ActionInOneHand
  <2>5. HandInPhase'
    BY <1>0, <2>1 DEF HandInv, HandInPhase
  <2>6. ShownOnce'
    BY <1>0, <2>1, <2>2, <2>3 DEF HandInv, ShownOnce
  <2> QED
    BY <1>0, <2>4, <2>5, <2>6 DEF HandInv
<1>8. ASSUME NEW ch \in Channel, Resolve(ch) PROVE HandInv'
  <2>1. /\ loop[ch] = "resolving" /\ hand[ch] \in Action /\ rendered' = rendered
        /\ hand' = [hand EXCEPT ![ch] = NoAction] /\ rendered[hand[ch]] = 1
        /\ loop' = [loop EXCEPT ![ch] = "flushing"]
    BY <1>0, <1>8 DEF Resolve, Goto, HandInv, HandInPhase, ShownOnce, histVars
  <2>2. /\ \A a \in Action : a # hand[ch] => act'[a] = act[a]
        /\ act'[hand[ch]] \in {"resolved", "abandoned"}
    BY <1>0, <1>8, <2>1 DEF Resolve
  <2>3. \A d \in Channel \ {ch} : hand[d] # hand[ch]
    BY <2>1 DEF HandInv, ActionInOneHand
  <2>4. ActionInOneHand'
    BY <1>0, <2>1, <2>2, <2>3 DEF HandInv, ActionInOneHand
  <2>5. HandInPhase'
    BY <1>0, <2>1 DEF HandInv, HandInPhase
  <2>6. ShownOnce'
    BY <1>0, <2>1, <2>2, <2>3 DEF HandInv, ShownOnce
  <2> QED
    BY <1>0, <2>4, <2>5, <2>6 DEF HandInv
<1>9. ASSUME Restart PROVE HandInv'
  <2>1. /\ \A ch \in Channel : hand'[ch] = NoAction /\ loop'[ch] = "off"
        /\ \A a \in Action : act'[a] = IF \E ch \in Channel : hand[ch] = a
                                       THEN "abandoned" ELSE act[a]
        /\ rendered' = rendered
    BY <1>9 DEF Restart
  <2> QED
    BY <1>0, <2>1 DEF HandInv, ActionInOneHand, HandInPhase, ShownOnce
<1>10. ASSUME \/ \E i \in Intent : Declare(i)
              \/ \E ch \in Channel : DeadlinePasses(ch)
              \/ CombatBegins \/ CombatEnds \/ UNCHANGED vars
       PROVE  UNCHANGED <<hand, rendered, act, loop>>
  BY <1>10 DEF Declare, DeadlinePasses, CombatBegins, CombatEnds, vars, taskVars,
     dm20Vars, histVars
<1> QED
  BY <1>1, <1>2, <1>3, <1>4, <1>5, <1>6, <1>7, <1>8, <1>9, <1>10 DEF Next, LoopStep

\* Of many loops on one queue of dm20, exactly one has an action in its hand until
\* it is resolved or given up, and what is resolved was shown to the table once.
THEOREM PartyModeActionInOneHand == Spec => []ActionInOneHand
<1>1. HandInv => ActionInOneHand
  BY DEF HandInv
<1> QED
  BY <1>1, HandInitial, HandStep, PTL DEF Spec

-----------------------------------------------------------------------------
(* channel_sessions. *)

StateInv == TypeInv /\ StateExplained

LEMMA StateInitial == Init => StateInv
BY TypeInit DEF Init, StateInv, StateExplained

LEMMA StateStep == StateInv /\ [Next]_vars => StateInv'
<1> SUFFICES ASSUME StateInv, [Next]_vars PROVE StateInv'
  OBVIOUS
<1>0. TypeInv' /\ TypeOK
  BY TypeStep, SawStep DEF StateInv, TypeInv
<1> DEFINE Explained(ch) ==
             loop[ch] # "off" /\ seen[ch] # "unknown" /\ state[ch] # seen[ch]
                => loop[ch] = "announcing" \/ blind[ch]
<1>1. SUFFICES ASSUME NEW ch \in Channel PROVE Explained(ch)'
  BY <1>0 DEF StateInv, StateExplained
<1>2. Explained(ch)
  BY DEF StateInv, StateExplained
<1>3. CASE UNCHANGED <<loop[ch], seen[ch], state[ch], blind[ch]>>
  BY <1>2, <1>3
<1>4. CASE seen'[ch] = "unknown" \/ loop'[ch] = "off"
  BY <1>4
\* Unless ch's loop watches or announces, nothing changes but its phase.
<1>5. CASE /\ UNCHANGED <<seen[ch], state[ch], blind[ch]>>
           /\ loop[ch] \notin {"off", "announcing"}
  BY <1>2, <1>5
<1>6. ASSUME NEW d \in Channel, StartLoop(d) PROVE Explained(ch)'
  <2>1. CASE d = ch
    BY <1>0, <1>4, <1>6, <2>1 DEF StartLoop, TypeOK
  <2>2. CASE d # ch
    BY <1>0, <1>3, <1>6, <2>2 DEF StartLoop, Goto, TypeOK, histVars
  <2> QED
    BY <2>1, <2>2
<1>7. ASSUME NEW d \in Channel,
             \/ Flush(d) \/ Send(d) \/ Pop(d) \/ PopFails(d) \/ WatchFails(d)
             \/ Render(d) \/ Resolve(d)
      PROVE  Explained(ch)'
  <2>1. UNCHANGED <<seen, state, blind>> /\ loop[d] \notin {"off", "announcing"}
    BY <1>7 DEF Flush, Send, Pop, PopFails, WatchFails, Render, Resolve, histVars
  <2>2. \E phase : Goto(d, phase)
    BY <1>7 DEF Flush, Send, Pop, PopFails, WatchFails, Render, Resolve
  <2>3. CASE d = ch
    BY <1>5, <2>1, <2>3
  <2>4. CASE d # ch
    <3>1. loop'[ch] = loop[ch]
      BY <1>0, <2>2, <2>4 DEF Goto, TypeOK
    <3> QED
      BY <1>3, <2>1, <3>1
  <2> QED
    BY <2>3, <2>4
<1>8. ASSUME NEW d \in Channel, Watch(d) PROVE Explained(ch)'
  <2>1. CASE d = ch /\ seen[ch] = "unknown"
    <3>1. seen'[ch] = combat /\ state' = state /\ blind'[ch] = (state[ch] # combat)
      BY <1>0, <1>8, <2>1 DEF Watch, TypeOK
    <3> QED
      BY <3>1
  <2>2. CASE d = ch /\ seen[ch] = combat
    <3>1. UNCHANGED <<seen[ch], state[ch], blind[ch]>> /\ loop[ch] = "watching"
      BY <1>0, <1>8, <2>2 DEF Watch, TypeOK
    <3> QED
      BY <1>5, <3>1
  <2>3. CASE d = ch /\ seen[ch] \notin {"unknown", combat}
    <3>1. loop'[ch] = "announcing"
      BY <1>0, <1>8, <2>3 DEF Watch, Goto, TypeOK
    <3> QED
      BY <3>1
  <2>4. CASE d # ch
    <3>1. UNCHANGED <<loop[ch], seen[ch], state[ch], blind[ch]>>
      BY <1>0, <1>8, <2>4 DEF Watch, Goto, TypeOK
    <3> QED
      BY <1>3, <3>1
  <2> QED
    BY <2>1, <2>2, <2>3, <2>4
<1>9. ASSUME NEW d \in Channel, Announce(d) PROVE Explained(ch)'
  <2>1. CASE d = ch
    <3>1. seen' = seen /\ (state'[ch] = seen[ch] \/ blind'[ch])
      BY <1>0, <1>9, <2>1 DEF Announce, TypeOK
    <3> QED
      BY <3>1
  <2>2. CASE d # ch
    <3>1. UNCHANGED <<loop[ch], seen[ch], state[ch], blind[ch]>>
      BY <1>0, <1>9, <2>2 DEF Announce, Goto, TypeOK
    <3> QED
      BY <1>3, <3>1
  <2> QED
    BY <2>1, <2>2
<1>10. CASE Restart
  BY <1>4, <1>10 DEF Restart
<1>11. ASSUME \/ \E i \in Intent : Declare(i)
              \/ \E a \in Action : QueueAction(a)
              \/ \E d \in Channel : DeadlinePasses(d)
              \/ CombatBegins \/ CombatEnds \/ UNCHANGED vars
       PROVE  UNCHANGED <<loop[ch], seen[ch], state[ch], blind[ch]>>
  BY <1>11 DEF Declare, QueueAction, DeadlinePasses, CombatBegins, CombatEnds,
     vars, taskVars, histVars
<1> QED
  BY <1>3, <1>6, <1>7, <1>8, <1>9, <1>10, <1>11 DEF Next, LoopStep

\* channel_sessions never disagrees with what the loop last learnt from dm20
\* without the loop being about to write it, having failed to, or having started
\* after the change.
THEOREM PartyModeStateExplained == Spec => []StateExplained
<1>1. StateInv => StateExplained
  BY DEF StateInv
<1> QED
  BY <1>1, StateInitial, StateStep, PTL DEF Spec
=============================================================================
