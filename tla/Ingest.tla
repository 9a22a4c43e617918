------------------------------- MODULE Ingest -------------------------------
(***************************************************************************)
(* bot/cogs/ingest.py, its modals (bot/modals.py) and the pipeline of      *)
(* ingest/: a player uploads a character by URL, by file or by hand.  A    *)
(* file is read by a pool of threads, translated by the LLM and scored;    *)
(* the score chooses the form behind the button of the answer.  The button *)
(* lives for five minutes and opens as many forms as it is clicked; every  *)
(* form sent creates a character in dm20.                                  *)
(*                                                                         *)
(* What a player is asked about (url, file) is one command; a form is a    *)
(* request of its own, for it outlives the command and even the button.    *)
(* Text is abstracted to what the score and the answers tell apart.        *)
(***************************************************************************)
EXTENDS Naturals, Sequences, FiniteSets

CONSTANTS Upload,     \* commands
          Form,       \* forms sent or open, over all commands
          Workers,    \* IngestExecutor: threads (2 in the code)
          MaxEvents   \* bound: campaigns started, failing calls and crashes together

Request == Upload \cup Form    \* what may make a character

VARIABLES game,    \* campaign of the channel's row, 0: no row
          world,   \* the campaign dm20 has loaded
          at,      \* at[r]: where a command or form is
          camp,    \* camp[r]: the campaign it read when it began, 0: none
          pool,    \* files waiting for a thread of the pool
          busy,    \* files on a thread
          button,  \* button[u]: the form behind the button of u's answer
          proof,   \* history: what u's file has shown of itself
          made,    \* made[r]: characters dm20 made for r
          home,    \* home[r]: the campaign they are in
          mine,    \* requests whose character carries its player's id
          class,   \* requests whose character has its row in pc_classes
          faults

vars == <<game, world, at, camp, pool, busy, button, proof, made, home, mine,
          class, faults>>

-----------------------------------------------------------------------------
Idle == {"idle"}
Working == {"reading", "queued", "extracting", "translating", "offering", "owning",
            "making", "classing", "answering"}
Over == {"no_game", "refused", "failed", "invalid", "joined", "silent", "expired"}

TypeOK ==
    /\ game \in 0 .. MaxEvents /\ world \in 0 .. MaxEvents
    /\ at \in [Request -> Idle \cup Working \cup Over \cup {"offered", "open"}]
    /\ camp \in [Request -> 0 .. MaxEvents] /\ home \in [Request -> 0 .. MaxEvents]
    /\ pool \in Seq(Upload) /\ busy \subseteq Upload
    /\ button \in [Upload -> {"none", "entry", "review"}]
    /\ proof \in [Upload -> {"none", "parsed", "sure"}]
    /\ made \in [Request -> 0 .. 2]
    /\ mine \subseteq Request
    /\ class \subseteq Request
    /\ faults \in 0 .. MaxEvents

Init ==
    /\ game = 0 /\ world = 0 /\ faults = 0
    /\ at = [r \in Request |-> "idle"]
    /\ camp = [r \in Request |-> 0] /\ home = [r \in Request |-> 0]
    /\ pool = <<>> /\ busy = {}
    /\ button = [u \in Upload |-> "none"] /\ proof = [u \in Upload |-> "none"]
    /\ made = [r \in Request |-> 0] /\ mine = {}
    /\ class = {}

Go(r, there) == at' = [at EXCEPT ![r] = there]
Fault == world + faults < MaxEvents /\ faults' = faults + 1

gameVars == <<game, world>>
fileVars == <<pool, busy, button, proof>>
dm20Vars == <<made, home, mine>>

-----------------------------------------------------------------------------
(* The commands. *)

\* upload_character_url and _file need the channel's row; _manual does without.
AskUrl(u) == Go(u, IF game = 0 THEN "no_game" ELSE "making") /\ UNCHANGED button
AskFile(u) == Go(u, IF game = 0 THEN "no_game" ELSE "reading") /\ UNCHANGED button
AskManual(u) == Go(u, "offering") /\ button' = [button EXCEPT ![u] = "entry"]

Ask(u) ==
    /\ at[u] = "idle"
    /\ camp' = [camp EXCEPT ![u] = game]
    /\ AskUrl(u) \/ AskFile(u) \/ AskManual(u)
    /\ UNCHANGED <<gameVars, pool, busy, proof, dm20Vars, class, faults>>

\* The size is checked before the attachment is read, its kind after; an image
\* without a back end for it raises, which is answered.  A failing read or a
\* missing endpoint is not: the interaction stays unanswered.
Read(u) ==
    /\ at[u] = "reading"
    /\ \/ /\ at' \in {[at EXCEPT ![u] = o] : o \in {"refused", "failed"}}
          /\ UNCHANGED <<pool, faults>>
       \/ Go(u, "queued") /\ pool' = Append(pool, u) /\ UNCHANGED faults
       \/ Go(u, "silent") /\ Fault /\ UNCHANGED pool
    /\ UNCHANGED <<gameVars, camp, busy, button, proof, dm20Vars, class>>

\* A free thread of the pool takes the oldest file, for OCR or for a PDF's text.
Extract(u) ==
    /\ pool # <<>> /\ Head(pool) = u /\ Cardinality(busy) < Workers
    /\ pool' = Tail(pool) /\ busy' = busy \cup {u} /\ Go(u, "extracting")
    /\ UNCHANGED <<gameVars, camp, button, proof, dm20Vars, class, faults>>

\* Variant: a thread whose file cannot be read is never given back.
ExtractedHolds(u) ==
    /\ at[u] = "extracting"
    /\ \/ Go(u, "translating") /\ busy' = busy \ {u} /\ UNCHANGED button
       \/ Go(u, "offering") /\ button' = [button EXCEPT ![u] = "entry"]
          /\ UNCHANGED busy
    /\ UNCHANGED <<gameVars, camp, pool, proof, dm20Vars, class, faults>>

\* The thread is done; a file that could not be read scores nothing.
Extracted(u) ==
    /\ at[u] = "extracting" /\ busy' = busy \ {u}
    /\ \/ Go(u, "translating") /\ UNCHANGED button
       \/ Go(u, "offering") /\ button' = [button EXCEPT ![u] = "entry"]
    /\ UNCHANGED <<gameVars, camp, pool, proof, dm20Vars, class, faults>>

\* _ocr_quality_score, in hundredths; a PDF's text counts as certain.
Quality == {0, 15, 30}

\* translate_to_character_sheet: no sheet (no answer, no JSON, a value out of its
\* range), or one that the sanitizer warned about, or one without warnings.
Sheets == {"none", "warned", "clean"}

\* What dm20 says of a class, and of a race; a failing look-up is worth nothing.
ClassWorth == {0, 20}
RaceWorth == {0, 20}

Score(quality, sheet, class20, race20) ==
    quality + (IF sheet = "clean" THEN 30 ELSE 0)
            + (IF sheet = "none" THEN 0 ELSE class20 + race20)

\* Variant: one known name makes up for warnings.
FormForLoose(score) == IF score >= 50 THEN "review" ELSE "entry"

\* The form of upload_character_file's button.
FormFor(score) == IF score >= 60 THEN "review" ELSE "entry"

Understand(u) ==
    /\ at[u] = "translating" /\ Go(u, "offering")
    /\ \E quality \in Quality, sheet \in Sheets, c \in ClassWorth, r \in RaceWorth :
         /\ button' = [button EXCEPT ![u] = FormFor(Score(quality, sheet, c, r))]
         /\ proof' = [proof EXCEPT ![u] =
               CASE sheet = "none" -> "none"
                 [] sheet = "clean" \/ (sheet = "warned" /\ c + r = 40) -> "sure"
                 [] OTHER -> "parsed"]
    /\ UNCHANGED <<gameVars, camp, pool, busy, dm20Vars, class, faults>>

-----------------------------------------------------------------------------
(* The button and its forms. *)

Offer(u) ==
    /\ at[u] = "offering"
    /\ \/ Go(u, "offered") /\ UNCHANGED faults
       \/ Go(u, "silent") /\ Fault
    /\ UNCHANGED <<gameVars, camp, fileVars, dm20Vars, class>>

Expire(u) ==
    /\ at[u] = "offered" /\ Go(u, "expired") /\ button' = [button EXCEPT ![u] = "none"]
    /\ UNCHANGED <<gameVars, camp, pool, busy, proof, dm20Vars, class, faults>>

\* Every click opens a form, and the form keeps what the command read.
Click(u, f) ==
    /\ at[u] = "offered" /\ at[f] = "idle" /\ Go(f, "open")
    /\ camp' = [camp EXCEPT ![f] = camp[u]]
    /\ UNCHANGED <<gameVars, fileVars, dm20Vars, class, faults>>

\* parse_abilities_field: six scores from 1 to 30, or the player is told.
Parsed == {"making", "invalid"}

\* A form is sent once, whenever the player likes.
Submit(f) ==
    /\ at[f] = "open" /\ \E there \in Parsed : Go(f, there)
    /\ UNCHANGED <<gameVars, camp, fileVars, dm20Vars, class, faults>>

-----------------------------------------------------------------------------
(* The character. *)

\* A form names its campaign; an import goes to the campaign dm20 has loaded.
Target(r) == IF r \in Form THEN camp[r] ELSE world

\* dm20 made n characters for r (two: the client asked again after a lost answer).
Made(r, n) ==
    /\ made' = [made EXCEPT ![r] = n]
    /\ home' = [home EXCEPT ![r] = IF n = 0 THEN @ ELSE Target(r)]
    /\ mine' = IF n > 0 /\ r \in Form THEN mine \cup {r} ELSE mine

AfterMaking(r) == IF r \in Form THEN "classing" ELSE "owning"

\* Variant: a failure is passed over, as those of the later calls are.
MakeAnyway(r) ==
    /\ at[r] = "making" /\ Go(r, AfterMaking(r))
    /\ \/ \E n \in {0, 1} : Made(r, n) /\ UNCHANGED faults
       \/ Made(r, 2) /\ Fault
    /\ UNCHANGED <<gameVars, camp, fileVars, class>>

\* create_character or import_from_dndbeyond; refused, answered, or with its
\* answer lost: then the player is told that it failed.
Make(r) ==
    /\ at[r] = "making"
    /\ \/ Go(r, "failed") /\ Made(r, 0) /\ UNCHANGED faults
       \/ Go(r, AfterMaking(r)) /\ Made(r, 1) /\ UNCHANGED faults
       \/ Go(r, AfterMaking(r)) /\ Made(r, 2) /\ Fault
       \/ \E n \in {1, 2} : Go(r, "failed") /\ Made(r, n) /\ Fault
    /\ UNCHANGED <<gameVars, camp, fileVars, class>>

\* update_character after an import, whose failure is passed over.
Own(u) ==
    /\ at[u] = "owning" /\ Go(u, "classing")
    /\ \/ mine' = mine \cup {u} /\ UNCHANGED faults
       \/ Fault /\ UNCHANGED mine
    /\ UNCHANGED <<gameVars, camp, fileVars, made, home, class>>

\* The row of pc_classes.  A failure, or an answer that named no character, is
\* passed over.  The lobby message would be edited here, if its id were ever stored.
Class(r) ==
    /\ at[r] = "classing" /\ Go(r, "answering")
    /\ \/ class' = class \cup {r} /\ UNCHANGED faults
       \/ Fault /\ UNCHANGED class
    /\ UNCHANGED <<gameVars, camp, fileVars, dm20Vars>>

Answer(r) ==
    /\ at[r] = "answering"
    /\ \/ Go(r, "joined") /\ UNCHANGED faults
       \/ Go(r, "silent") /\ Fault
    /\ UNCHANGED <<gameVars, camp, fileVars, dm20Vars, class>>

-----------------------------------------------------------------------------
(* Around it. *)

\* /start_game, here or in another channel: dm20 has the campaign first.
NewCampaign ==
    /\ world + faults < MaxEvents /\ world' = world + 1
    /\ UNCHANGED <<game, at, camp, fileVars, dm20Vars, class, faults>>

\* Three calls later its row is written, over a row the channel had; /end_game
\* keeps the row and its campaign.
StartGame ==
    /\ game' \in (1 .. world) \ {game}
    /\ UNCHANGED <<world, at, camp, fileVars, dm20Vars, class, faults>>

\* Commands, buttons and forms are in memory only.
Restart ==
    /\ Fault /\ pool' = <<>> /\ busy' = {}
    /\ at' = [r \in Request |-> CASE at[r] \in Working \cup {"open"} -> "silent"
                                  [] at[r] = "offered" -> "expired"
                                  [] OTHER -> at[r]]
    /\ button' = [u \in Upload |-> IF at'[u] = "expired" THEN "none" ELSE button[u]]
    /\ UNCHANGED <<gameVars, camp, proof, dm20Vars, class>>

Step(u) ==
    Read(u) \/ Extract(u) \/ Extracted(u) \/ Understand(u) \/ Offer(u) \/ Own(u)
Finish(r) == Make(r) \/ Class(r) \/ Answer(r)

Next ==
    \/ \E u \in Upload : Ask(u) \/ Step(u) \/ Expire(u)
                         \/ \E f \in Form : Click(u, f)
    \/ \E f \in Form : Submit(f)
    \/ \E r \in Request : Finish(r)
    \/ NewCampaign \/ StartGame \/ Restart

\* The event loop and the pool run what can run.
Fairness == /\ \A u \in Upload : WF_vars(Step(u))
            /\ \A r \in Request : WF_vars(Finish(r))

Spec == Init /\ [][Next]_vars /\ Fairness

-----------------------------------------------------------------------------
(* Properties. *)

\* "Confirm Character" is only offered for a sheet that the LLM produced in the
\* required form, and that either drew no warning or whose class and race dm20
\* both knows: neither good OCR nor one known name is enough.
ReviewEarned == \A u \in Upload : button[u] = "review" => proof[u] = "sure"

\* Who is told that a character joined has it in dm20, in the campaign the answer
\* names; an import may have gone to a campaign begun meanwhile, never to an
\* older one.  A row of pc_classes has its character.
ToldIsTrue ==
    \A r \in Request :
       /\ at[r] = "joined" \/ r \in class => made[r] > 0
       /\ made[r] > 0 /\ r \in Form => home[r] = camp[r] /\ r \in mine
       /\ made[r] > 0 /\ r \in Upload => home[r] >= camp[r]

\* Every command and every form sent comes to its end, however many files wait
\* for the threads: in the end nobody is left waiting.
EveryUploadAnswered == <>[](\A r \in Request : at[r] \notin Working)
=============================================================================
