----------------------------- MODULE Transcript -----------------------------
(***************************************************************************)
(* session/engine.go and session/engine_factory.go: what one session keeps *)
(* on disk, and what each turn reads and writes of it.  Every turn builds  *)
(* a fresh Engine from transcript.json (all visible lines) and             *)
(* working_transcript.json (the tail the model sees), records the request  *)
(* before the model loop, and records the answer after it.  Both files are *)
(* written with os.WriteFile, which truncates first.                       *)
(*                                                                         *)
(* The turns of a session run one at a time (WorkerPool!SessionMutex), so  *)
(* there is one Engine at a time.  loop.RunTurn is one step here, with all *)
(* the outcomes that the lines it leaves behind can tell apart.            *)
(***************************************************************************)
EXTENDS Naturals, Sequences, FiniteSets, SequencesExt, Subsequences

CONSTANTS
    Turns,      \* the inbound messages of the session
    KindOf,     \* [Turns -> TurnKinds]; marked: a message whose text looks like one of the
                \* blocks a turn injects; slash: any local command but /reset
    WorkingMax, \* the rows kept in working_transcript.json (30 by default)
    MaxCrashes, \* bound on crashes of the process
    MaxFaults,  \* bound on failed file writes
    Torn,       \* the content of a file cut short: not JSON
    Absent,     \* the file does not exist
    None

TurnKinds == {"message", "marked", "reset", "slash"}

ASSUME TranscriptAssumption ==
    /\ KindOf \in [Turns -> TurnKinds]
    /\ WorkingMax \in Nat \ {0}
    /\ MaxCrashes \in Nat /\ MaxFaults \in Nat
    /\ None \notin Turns
    /\ Torn # Absent

VARIABLES
    tFile,      \* transcript.json
    wFile,      \* working_transcript.json
    dialog,     \* the day's dialog_history.json: pairs, each with (history) the turn that wrote it
    transcript, \* Engine.Transcript
    messages,   \* Engine.Messages
    cur,        \* the turn in progress
    phase,      \* idle, the three occasions of saving, the model loop, the dialog history
    saving,     \* the file being saved, "none" outside
    truncated,  \* os.WriteFile has truncated it and not written it yet
    status,     \* the fate of each turn
    last,       \* history: the last whole content of transcript.json
    asked,      \* history: the turns whose model loop began
    unsaved,    \* history: the turns whose request could not be written
    resetting,  \* history: "no"; "begun": a /reset is at work; "cut": the last one was cut short
    forgotten,  \* history: the turns before the last complete /reset
    crashes,    \* bounded by MaxCrashes
    faults      \* bounded by MaxFaults

files  == <<tFile, wFile, dialog>>
engine == <<transcript, messages, cur, phase, saving, truncated>>
hist   == <<last, asked, unsaved, resetting, forgotten>>
bounds == <<crashes, faults>>
vars   == <<tFile, wFile, dialog, transcript, messages, cur, phase, saving, truncated, status,
            last, asked, unsaved, resetting, forgotten, crashes, faults>>

-----------------------------------------------------------------------------
(* The rows of both lists.  A text is known by the turn that produced it.  *)

User(t)      == [by |-> "user", turn |-> t, kind |-> IF KindOf[t] = "marked" THEN "hidden" ELSE "line"]
\* An assistant row: a text; a text with tool calls; tool calls only; nothing at all; or
\* the sentence that names the requested tools.
Says(t, k)   == [by |-> "assistant", turn |-> t, kind |-> k]
AssistantKinds == {"text", "talk", "tools", "empty", "names"}
Rows == {User(t) : t \in Turns} \cup {Says(t, k) : t \in Turns, k \in AssistantKinds}

ASSUME FilesAssumption == Seq(Rows) \cap {Torn, Absent} = {}

Intact(f) == f \notin {Torn, Absent}
RowsOf(f) == IF Intact(f) THEN ToSet(f) ELSE {}

\* ToUserVisibleMessages drops the rows without a text, and the requests that look like an
\* injected block (shouldDropNonVisibleUserText).
Shown == {r \in Rows : r.kind \notin {"tools", "empty", "hidden"}}
Visible(m) == Kept(m, Shown)

\* LastAssistantDisplay looks back to the last assistant row that has something to show.
LastAssistantDisplay(m, t) ==
    LET I == {i \in DOMAIN m : m[i].by = "assistant" /\ m[i].kind # "empty"} IN
    IF I = {} THEN Says(t, "empty")
    ELSE LET r == m[Max(I)] IN IF r.kind = "tools" THEN Says(r.turn, "names") ELSE r

\* Variants of the operators below.
ContextAsTranscript(t, w) == IF Intact(w) THEN w ELSE IF Intact(t) THEN t ELSE <<>>
WorkingFirst              == <<"working", "transcript">>
RequestLater(t)           == transcript
ContextKept               == IF Intact(wFile) THEN wFile ELSE <<>>
AnyTwoRows(m)             == Len(m) >= 2
WholeContext(m)           == m

\* The factory: LoadTranscript, then LoadWorkingTranscript if that file exists.
LoadedTranscript(t, w) == IF t = Absent THEN <<>> ELSE t
LoadedMessages(t, w)   == IF w = Absent THEN LoadedTranscript(t, w) ELSE w

\* Both files are saved on each occasion, in this order.
SaveOrder == <<"transcript", "working">>

\* SubmitUser records the request before the model loop.
WithRequest(t) == Append(LoadedTranscript(tFile, wFile), User(t))

\* slashReset empties Messages.
ContextAfterReset == <<>>

\* appendDialogHistoryIfComplete takes the last two rows if they are a request and an answer.
CompletePair(m) ==
    Len(m) >= 2 /\ m[Len(m) - 1].by = "user" /\ m[Len(m)].by = "assistant"

\* SaveWorkingTranscriptTo keeps the tail.
WorkingTail(m) == IF Len(m) > WorkingMax THEN SubSeq(m, Len(m) - WorkingMax + 1, Len(m)) ELSE m

ContentOf(f) == IF f = "transcript" THEN Visible(transcript) ELSE WorkingTail(Visible(messages))

-----------------------------------------------------------------------------
Init ==
    /\ tFile = Absent /\ wFile = Absent /\ dialog = <<>>
    /\ transcript = <<>> /\ messages = <<>>
    /\ cur = None /\ phase = "idle" /\ saving = "none" /\ truncated = FALSE
    /\ status = [t \in Turns |-> "new"]
    /\ last = <<>> /\ asked = {} /\ unsaved = {}
    /\ resetting = "no" /\ forgotten = {}
    /\ crashes = 0 /\ faults = 0

Next1(t) == phase = "idle" /\ status[t] = "new"

\* The engine of a turn is dropped with the turn.
EndTurn(s) ==
    /\ phase' = "idle" /\ saving' = "none" /\ truncated' = FALSE
    /\ status' = [status EXCEPT ![cur] = s]
    /\ cur' = None /\ transcript' = <<>> /\ messages' = <<>>

BeginSaving(occasion) ==
    phase' = occasion /\ saving' = SaveOrder[1] /\ truncated' = FALSE

\* A file that does not parse makes the factory fail: no Engine, no turn.
FactoryFails(t) ==
    /\ Next1(t)
    /\ tFile = Torn \/ wFile = Torn
    /\ status' = [status EXCEPT ![t] = "failed"]
    /\ UNCHANGED files /\ UNCHANGED engine /\ UNCHANGED hist /\ UNCHANGED bounds

Built(t) == Next1(t) /\ tFile # Torn /\ wFile # Torn

\* A local slash command other than /reset, or an inbound message whose attachments are
\* refused: neither file is touched.
LocalTurn(t) ==
    /\ Built(t)
    /\ \/ KindOf[t] = "slash"   /\ status' = [status EXCEPT ![t] = "ok"]
       \/ KindOf[t] \in {"message", "marked"} /\ status' = [status EXCEPT ![t] = "failed"]
    /\ UNCHANGED files /\ UNCHANGED engine /\ UNCHANGED hist /\ UNCHANGED bounds

\* slashReset
BeginReset(t) ==
    /\ Built(t) /\ KindOf[t] = "reset"
    /\ cur' = t /\ status' = [status EXCEPT ![t] = "running"]
    /\ transcript' = <<>> /\ messages' = ContextAfterReset
    /\ BeginSaving("reset")
    /\ resetting' = "begun"
    /\ UNCHANGED <<last, asked, unsaved, forgotten>>
    /\ UNCHANGED files /\ UNCHANGED bounds

\* SubmitUser up to the first save: the request is a row of Transcript, not of Messages.
BeginTurn(t) ==
    /\ Built(t) /\ KindOf[t] \in {"message", "marked"}
    /\ cur' = t /\ status' = [status EXCEPT ![t] = "running"]
    /\ messages' = LoadedMessages(tFile, wFile)
    /\ transcript' = WithRequest(t)
    /\ BeginSaving("request")
    /\ UNCHANGED files /\ UNCHANGED hist /\ UNCHANGED bounds

-----------------------------------------------------------------------------
(* SaveTranscriptTo and SaveWorkingTranscriptTo.                           *)

\* The other file is next, or what follows on this occasion.
Saved ==
    IF saving = SaveOrder[1]
    THEN /\ saving' = SaveOrder[2] /\ truncated' = FALSE
         /\ UNCHANGED <<transcript, messages, cur, phase, status>>
    ELSE IF phase = "reset" THEN EndTurn("ok")
    ELSE /\ phase' = IF phase = "request" THEN "model" ELSE "dialog"
         /\ saving' = "none" /\ truncated' = FALSE
         /\ UNCHANGED <<transcript, messages, cur, status>>

SetFile(c) ==
    IF saving = "transcript" THEN tFile' = c /\ UNCHANGED <<wFile, dialog>>
                             ELSE wFile' = c /\ UNCHANGED <<tFile, dialog>>

\* os.WriteFile opens the file with O_TRUNC ...
Truncate ==
    /\ saving # "none" /\ ~ truncated
    /\ SetFile(Torn)
    /\ truncated' = TRUE
    /\ UNCHANGED <<transcript, messages, cur, phase, saving, status>>
    /\ UNCHANGED hist /\ UNCHANGED bounds

\* ... and then writes the content.
Write ==
    /\ truncated
    /\ SetFile(ContentOf(saving))
    /\ Saved
    /\ last' = IF saving = "transcript" THEN ContentOf(saving) ELSE last
    /\ unsaved' = IF saving = "transcript" THEN unsaved \ {cur} ELSE unsaved
    /\ IF phase = "reset" /\ saving = SaveOrder[2] /\ resetting = "begun"
       THEN resetting' = "no" /\ forgotten' = {t \in Turns : status[t] # "new"}
       ELSE UNCHANGED <<resetting, forgotten>>
    /\ UNCHANGED asked /\ UNCHANGED bounds

\* Either half can fail; the error is logged and the turn goes on.
SaveFails ==
    /\ saving # "none"
    /\ faults < MaxFaults
    /\ faults' = faults + 1
    /\ Saved
    /\ unsaved' = IF saving = "transcript" /\ phase = "request" THEN unsaved \cup {cur} ELSE unsaved
    /\ resetting' = IF phase = "reset" THEN "cut" ELSE resetting
    /\ UNCHANGED <<last, asked, forgotten, crashes>>
    /\ UNCHANGED files

-----------------------------------------------------------------------------
(* loop.RunTurn and what follows it.                                       *)

\* The turn ends with an assistant message without tool calls, which may be empty; there may
\* have been a tool round before it.  The byte budget may have dropped any prefix before
\* the last model call.
RunTurn ==
    /\ phase = "model"
    /\ asked' = asked \cup {cur}
    /\ \E round \in {<<>>, <<Says(cur, "talk")>>, <<Says(cur, "tools")>>}, final \in {"text", "empty"} :
         LET request == Append(messages, User(cur)) \o round IN
         \E from \in 1..(Len(request) + 1) :
            LET live == Append(SubSeq(request, from, Len(request)), Says(cur, final)) IN
            /\ transcript' = Append(transcript, LastAssistantDisplay(live, cur))
            /\ messages' = Visible(live)
    /\ BeginSaving("answer")
    /\ UNCHANGED <<cur, status, last, unsaved, resetting, forgotten>>
    /\ UNCHANGED files /\ UNCHANGED bounds

\* The model fails, the turn is cancelled (/stop) or runs out of steps: nothing is saved.
TurnFails ==
    /\ phase = "model"
    /\ asked' = asked \cup {cur}
    /\ EndTurn("failed")
    /\ UNCHANGED <<last, unsaved, resetting, forgotten>>
    /\ UNCHANGED files /\ UNCHANGED bounds

\* appendDialogHistoryIfComplete, by renaming a temporary file, or not at all; the turn ends.
AppendDialog ==
    LET m == Visible(transcript) IN
    /\ phase = "dialog"
    /\ \/ /\ dialog' = IF CompletePair(m) THEN Append(dialog, <<m[Len(m) - 1], m[Len(m)], cur>>) ELSE dialog
          /\ UNCHANGED bounds
       \/ faults < MaxFaults /\ faults' = faults + 1 /\ UNCHANGED <<dialog, crashes>>
    /\ EndTurn("ok")
    /\ UNCHANGED <<tFile, wFile>> /\ UNCHANGED hist

\* The process dies; only the files are left.
Crash ==
    /\ crashes < MaxCrashes
    /\ cur # None
    /\ crashes' = crashes + 1
    /\ EndTurn("lost")
    /\ resetting' = IF resetting = "begun" THEN "cut" ELSE resetting
    /\ UNCHANGED <<last, asked, unsaved, forgotten, faults>>
    /\ UNCHANGED files

Quiet ==
    /\ \A t \in Turns : status[t] \notin {"new", "running"}
    /\ UNCHANGED vars

Next ==
    \/ \E t \in Turns : FactoryFails(t) \/ LocalTurn(t) \/ BeginReset(t) \/ BeginTurn(t)
    \/ Truncate \/ Write \/ SaveFails
    \/ RunTurn \/ TurnFails \/ AppendDialog
    \/ Crash \/ Quiet

Spec == Init /\ [][Next]_vars

-----------------------------------------------------------------------------
(* Properties.                                                             *)

\* transcript.json is an append-only log between two /reset: whatever crashed, failed or was
\* trimmed from the model's context, each whole content extends the one before it.
TranscriptGrows ==
    [][(Intact(tFile') /\ phase # "reset") => IsPrefix(last, tFile')]_vars

\* The request of a turn that ended well is in the transcript exactly once, up to the next
\* /reset, unless it could not be written; one that looks like an injected block is not in it.
RequestOnce ==
    resetting = "no" => \A t \in Turns :
        /\ status[t] = "ok" /\ KindOf[t] \in {"message", "marked"}
        /\ t \notin forgotten \cup unsaved /\ Intact(tFile)
        => Cardinality({i \in DOMAIN tFile : tFile[i] = User(t)}) =
               IF KindOf[t] = "marked" THEN 0 ELSE 1

\* What the model is shown of earlier turns was said: as long as no write failed, each
\* request and each answer in the working file is also in the transcript, at any crash.
ContextWasSaid ==
    (Intact(tFile) /\ faults = 0 /\ resetting = "no") =>
        {r \in RowsOf(wFile) : r.kind \in {"line", "text"}} \subseteq RowsOf(tFile)

\* After a complete /reset nothing of an earlier turn comes back, from either file.
ResetForgets ==
    \A r \in RowsOf(tFile) \cup RowsOf(wFile) \cup ToSet(transcript) \cup ToSet(messages) :
        r.turn \notin forgotten

\* The dialog history has one pair per turn at most, a request and an answer after it.  The
\* request is the turn's own, unless that is hidden: then it is an earlier one.
DialogPairs ==
    \A i \in DOMAIN dialog :
        /\ dialog[i][1].by = "user" /\ dialog[i][2].by = "assistant"
        /\ KindOf[dialog[i][3]] = "message" => dialog[i][1] = User(dialog[i][3])
        /\ \A k \in DOMAIN dialog : dialog[i][3] = dialog[k][3] => i = k

\* The comment on the first save (engine.go:228): the request is recorded before the model
\* loop "so crash/interrupt still leaves the request on disk".
RequestOnDisk ==
    phase = "idle" =>
        \A t \in asked \ (forgotten \cup unsaved) : User(t) \in RowsOf(tFile)

\* The comment on Transcript (engine.go:52): it holds the "real user lines + final assistant
\* text per turn".  So the row behind a request is no other turn's text.
AnswerIsOwn ==
    Intact(tFile) =>
        \A i \in DOMAIN tFile :
            (i > 1 /\ tFile[i].by = "assistant" /\ tFile[i - 1].by = "user") =>
                tFile[i].turn = tFile[i - 1].turn

=============================================================================
