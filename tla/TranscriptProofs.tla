--------------------------- MODULE TranscriptProofs ---------------------------
(***************************************************************************)
(* What a session keeps on disk, for any turns, any working rows and any   *)
(* number of crashes and failed writes.                                    *)
(***************************************************************************)
EXTENDS Transcript, SequenceFacts, TLAPS

-----------------------------------------------------------------------------
(* The inductive invariant.                                                *)

\* The phases of a turn with an Engine that has the request in its Transcript.
InTurn == {"request", "model", "answer", "dialog"}
Savings == {"reset", "request", "answer"}

\* The rows that may be anywhere: of turns that began, and that no /reset has forgotten.
Known == {r \in Rows : status[r.turn] # "new" /\ r.turn \notin forgotten}

Files(S) == Seq(S) \cup {Torn, Absent}

\* The types, sharpened: the files hold rows that are shown, everything is of known turns,
\* and where the turn stands agrees with what is being saved.
Shape ==
    /\ tFile \in Files(Known \cap Shown) /\ wFile \in Files(Known \cap Shown)
    /\ transcript \in Seq(Known) /\ messages \in Seq(Known \cap Shown)
    /\ dialog \in Seq(Rows \X Rows \X Turns) /\ last \in Seq(Shown)
    /\ status \in [Turns -> {"new", "running", "ok", "failed", "lost"}]
    /\ phase \in {"idle", "reset"} \cup InTurn
    /\ cur \in Turns \cup {None} /\ (cur = None <=> phase = "idle")
    /\ saving \in {"none"} \cup {SaveOrder[1], SaveOrder[2]} /\ (saving # "none" <=> phase \in Savings)
    /\ truncated \in BOOLEAN /\ (truncated => saving # "none")
    /\ asked \in SUBSET Turns /\ unsaved \in SUBSET Turns
    /\ forgotten \in SUBSET {t \in Turns : status[t] # "new"}
    /\ resetting \in {"no", "begun", "cut"}
    /\ faults \in Nat /\ crashes \in Nat

\* The turn at work.
TurnAtWork ==
    cur # None =>
        /\ status[cur] = "running" /\ cur \notin forgotten
        /\ KindOf[cur] \in IF phase = "reset" THEN {"reset"} ELSE {"message", "marked"}

\* A /reset has nothing in memory, and nothing on disk once its first save succeeded.
ResetIsEmpty ==
    /\ phase = "reset" => transcript = <<>> /\ messages = <<>> /\ resetting # "no"
    /\ phase # "reset" => resetting # "begun"
    /\ (phase = "reset" /\ resetting = "begun" /\ saving = SaveOrder[2]) => tFile = <<>>

\* The content of transcript.json, if it is not cut short.
OnFile == LoadedTranscript(tFile, wFile)

\* The end of Transcript: the request, or the request and the answer.
RequestIsLast ==
    /\ phase \in {"request", "model"} =>
          transcript # <<>> /\ transcript[Len(transcript)] = User(cur)
    /\ phase \in {"answer", "dialog"} =>
          /\ Len(transcript) >= 2 /\ transcript[Len(transcript) - 1] = User(cur)
          /\ transcript[Len(transcript)].by = "assistant"

\* The dialog history has pairs of turns that ended well, one each.
DialogIsOfTurns ==
    \A i \in DOMAIN dialog :
        /\ dialog[i][3] \in Turns /\ status[dialog[i][3]] = "ok"
        /\ dialog[i][1].by = "user" /\ dialog[i][2].by = "assistant"
        /\ KindOf[dialog[i][3]] = "message" => dialog[i][1] = User(dialog[i][3])
        /\ \A k \in DOMAIN dialog : dialog[i][3] = dialog[k][3] => i = k

\* What was last written whole is on file, and Transcript extends it.
LastIsOnFile ==
    /\ tFile # Torn => last = OnFile
    /\ phase \in InTurn => IsPrefix(last, Visible(transcript))

\* The rows of q are a request once.
Once(q, t) == Kept(q, {User(t)}) = <<User(t)>>

\* The turns whose request has to be on disk.
Due == {t \in Turns : KindOf[t] = "message" /\ t \notin forgotten \cup unsaved}

RequestsAreThere ==
    resetting = "no" =>
        /\ tFile # Torn => \A t \in Due :
              /\ status[t] = "ok" => Once(OnFile, t)
              /\ (t = cur /\ ~ (phase = "request" /\ saving = SaveOrder[1])) => Once(OnFile, t)
        /\ phase \in InTurn => \A t \in Due : status[t] = "ok" => Once(transcript, t)
        /\ phase \in InTurn => Once(transcript, cur)

\* The rows that may be in the context when those of S are in the transcript.
Said(S) == {r \in Rows : r.kind \in {"line", "text"} => r \in S}

ContextIsSaid ==
    (faults = 0 /\ resetting = "no") =>
        /\ tFile # Torn => wFile \in Files(Said(RowsOf(tFile)))
        /\ phase \in InTurn =>
              /\ wFile \in Files(Said(ToSet(transcript)))
              /\ messages \in Seq(Said(ToSet(transcript)))
        /\ saving = SaveOrder[2] => tFile = Visible(transcript)

TranscriptInv ==
    /\ Shape /\ TurnAtWork /\ ResetIsEmpty /\ RequestIsLast /\ DialogIsOfTurns
    /\ LastIsOnFile /\ RequestsAreThere /\ ContextIsSaid

-----------------------------------------------------------------------------
(* Rows.                                                                   *)

\* What a row tells of itself, and which rows are shown.
LEMMA RowFacts ==
    /\ \A t \in Turns : /\ User(t) \in Rows /\ (User(t) \in Shown <=> KindOf[t] # "marked")
                        /\ User(t).turn = t /\ User(t).by = "user" /\ User(t).kind \in {"line", "hidden"}
    /\ \A t \in Turns, k \in AssistantKinds :
          Says(t, k) \in Rows /\ Says(t, k).turn = t /\ Says(t, k).by = "assistant" /\ Says(t, k).kind = k
    /\ \A r \in Rows : /\ r.turn \in Turns
                       /\ r.by = "user" => r = User(r.turn)
                       /\ r.by = "assistant" => r = Says(r.turn, r.kind) /\ r.kind \in AssistantKinds
    /\ Shown \subseteq Rows /\ \A r \in Rows : r \in Shown <=> r.kind \notin {"tools", "empty", "hidden"}
<1>1. \A t \in Turns : /\ User(t) \in Rows /\ User(t).turn = t /\ User(t).by = "user"
                       /\ User(t).kind = IF KindOf[t] = "marked" THEN "hidden" ELSE "line"
    BY DEF Rows, User
<1>2. \A t \in Turns, k \in AssistantKinds :
          Says(t, k) \in Rows /\ Says(t, k).turn = t /\ Says(t, k).by = "assistant" /\ Says(t, k).kind = k
    BY DEF Rows, Says
<1>3. ASSUME NEW r \in Rows
      PROVE  \/ r.turn \in Turns /\ r.by = "user" /\ r = User(r.turn)
             \/ r.turn \in Turns /\ r.by = "assistant" /\ r = Says(r.turn, r.kind) /\ r.kind \in AssistantKinds
    <2>1. CASE r \in {User(t) : t \in Turns}
        BY <2>1, <1>1
    <2>2. CASE r \in {Says(t, k) : t \in Turns, k \in AssistantKinds}
        BY <2>2, <1>2
    <2> QED
        BY <2>1, <2>2 DEF Rows
<1>4. Shown \subseteq Rows /\ \A r \in Rows : r \in Shown <=> r.kind \notin {"tools", "empty", "hidden"}
    BY DEF Shown
<1>5. \A t \in Turns : User(t) \in Shown <=> KindOf[t] # "marked"
    BY <1>1, <1>4
<1>6. "user" # "assistant"
    OBVIOUS
<1> QED
    BY <1>1, <1>2, <1>3, <1>4, <1>5, <1>6

-----------------------------------------------------------------------------
(* Sequences of rows.                                                      *)

\* A file of rows of S is a file of rows of any larger set.
LEMMA LargerSeq ==
    ASSUME NEW S, NEW T, S \subseteq T
    PROVE  Seq(S) \subseteq Seq(T) /\ Files(S) \subseteq Files(T)
BY SeqMonotonic DEF Files

\* What a save writes is of the rows it is given, and shown.
LEMMA VisibleType ==
    ASSUME NEW S, NEW q \in Seq(S)
    PROVE  Visible(q) \in Seq(S) /\ Visible(q) \in Seq(S \cap Shown) /\ Visible(q) \in Seq(Shown)
<1>1. Visible(q) \in Seq(S \cap Shown)
    BY KeptType DEF Visible
<1> QED
    BY <1>1, SeqMonotonic

\* What SaveWorkingTranscriptTo keeps is of the rows it is given.
LEMMA TailType ==
    ASSUME NEW S, NEW q \in Seq(S)
    PROVE  WorkingTail(q) \in Seq(S)
<1>1. CASE Len(q) > WorkingMax
    <2>1. Len(q) - WorkingMax + 1 \in 1 .. Len(q) + 1 /\ Len(q) \in 0 .. Len(q)
        BY <1>1, TranscriptAssumption
    <2>2. \A i \in Len(q) - WorkingMax + 1 .. Len(q) : q[i] \in S
        BY <2>1
    <2> QED
        BY <1>1, <2>1, <2>2, SubSeqProperties DEF WorkingTail
<1> QED
    BY <1>1 DEF WorkingTail

\* A list is a prefix of itself and stays one of what is appended to it.
LEMMA PrefixFacts ==
    ASSUME NEW S, NEW q \in Seq(S), NEW e \in S
    PROVE  /\ IsPrefix(q, q) /\ IsPrefix(<<>>, q)
           /\ \A p \in Seq(S) : IsPrefix(p, q) => IsPrefix(p, Append(q, e))
<1>1. IsPrefix(q, q)
    BY DEF IsPrefix
<1>2. IsPrefix(<<>>, q)
    BY DEF IsPrefix
<1>3. ASSUME NEW p \in Seq(S), IsPrefix(p, q) PROVE IsPrefix(p, Append(q, e))
    BY <1>3 DEF IsPrefix
<1> QED
    BY <1>1, <1>2, <1>3

\* Hidden rows and rows of others do not count.
LEMMA OnceFacts ==
    ASSUME NEW q \in Seq(Rows), NEW t \in Turns
    PROVE  /\ KindOf[t] # "marked" => (Once(Visible(q), t) <=> Once(q, t))
           /\ \A r \in Rows : r # User(t) => (Once(Append(q, r), t) <=> Once(q, t))
           /\ \A S : q \in Seq(S) /\ User(t) \notin S => Once(Append(q, User(t)), t)
<1>1. ASSUME KindOf[t] # "marked" PROVE Kept(Visible(q), {User(t)}) = Kept(q, {User(t)})
    <2>1. Kept(Kept(q, Shown), {User(t)}) = Kept(q, Shown \cap {User(t)})
        BY KeptOfKept
    <2>2. Shown \cap {User(t)} = {User(t)}
        BY <1>1, RowFacts
    <2> QED
        BY <2>1, <2>2 DEF Visible
<1>2. ASSUME NEW r \in Rows, r # User(t) PROVE Kept(Append(q, r), {User(t)}) = Kept(q, {User(t)})
    BY <1>2, KeptOfAppend
<1>3. ASSUME NEW S, q \in Seq(S), User(t) \notin S PROVE Kept(Append(q, User(t)), {User(t)}) = <<User(t)>>
    <2>1. Kept(q, {User(t)}) \in Seq(S \cap {User(t)})
        BY <1>3, KeptType
    <2>2. S \cap {User(t)} = {}
        BY <1>3
    <2>3. Kept(q, {User(t)}) = <<>>
        BY <2>1, <2>2
    <2>4. User(t) \in Rows
        BY RowFacts
    <2>5. Kept(Append(q, User(t)), {User(t)}) = Append(Kept(q, {User(t)}), User(t))
        BY <2>4, KeptOfAppend
    <2> QED
        BY <2>3, <2>5
<1> QED
    BY <1>1, <1>2, <1>3 DEF Once

\* Once counts the places of a request.
LEMMA OnceIsOne ==
    ASSUME NEW q \in Seq(Rows), NEW t, Once(q, t)
    PROVE  Cardinality({i \in DOMAIN q : q[i] = User(t)}) = 1
<1>1. Cardinality({i \in 1 .. Len(q) : q[i] \in {User(t)}}) = Len(Kept(q, {User(t)}))
    BY KeptCount
<1>2. {i \in 1 .. Len(q) : q[i] \in {User(t)}} = {i \in DOMAIN q : q[i] = User(t)}
    OBVIOUS
<1>3. Len(<<User(t)>>) = 1
    OBVIOUS
<1> QED
    BY <1>1, <1>2, <1>3 DEF Once

\* A set of places in a sequence has a last one.
LEMMA MaxIsThere ==
    ASSUME NEW n \in Nat, NEW I \in SUBSET (1 .. n), I # {}
    PROVE  Max(I) \in I /\ \A i \in I : i <= Max(I)
<1> DEFINE J == {n - i : i \in I}
<1>1. J \in SUBSET Nat /\ J # {}
    <2>1. \A i \in I : i \in Nat /\ i <= n /\ n - i \in Nat
        OBVIOUS
    <2> QED
        BY <2>1
<1>2. PICK j \in J : \A k \in J : j <= k
    <2> HIDE DEF J
    <2> QED
        BY <1>1, LeastNatural
<1>3. PICK m \in I : j = n - m
    OBVIOUS
<1>4. ASSUME NEW i \in I PROVE i <= m
    <2>1. n - i \in J /\ i \in Nat /\ m \in Nat
        OBVIOUS
    <2>2. n - m <= n - i
        BY <1>2, <1>3, <2>1
    <2> QED
        BY <2>1, <2>2
<1>5. \E x \in I : \A y \in I : x >= y
    BY <1>4
<1>6. Max(I) \in I /\ \A y \in I : Max(I) >= y
    BY <1>5 DEF Max
<1> QED
    BY <1>6

\* What is displayed is an assistant row, of the turn or of a turn in the list; if the turn ends
\* with a text it is that one.
LEMMA DisplayFacts ==
    ASSUME NEW S \in SUBSET Rows, NEW m \in Seq(S), NEW t \in Turns
    PROVE  /\ LastAssistantDisplay(m, t) \in Rows /\ LastAssistantDisplay(m, t).by = "assistant"
           /\ \/ LastAssistantDisplay(m, t).turn = t
              \/ \E r \in S : LastAssistantDisplay(m, t).turn = r.turn
           /\ \A q \in Seq(S) : m = Append(q, Says(t, "text")) => LastAssistantDisplay(m, t) = Says(t, "text")
<1> DEFINE I == {i \in DOMAIN m : m[i].by = "assistant" /\ m[i].kind # "empty"}
<1>1. I \in SUBSET (1 .. Len(m)) /\ Len(m) \in Nat /\ \A i \in I : m[i] \in S /\ m[i] \in Rows
    OBVIOUS
<1>2. I # {} => Max(I) \in I /\ \A i \in I : i <= Max(I)
    <2> HIDE DEF I
    <2> QED
        BY <1>1, MaxIsThere
<1>3. LastAssistantDisplay(m, t) =
          IF I = {} THEN Says(t, "empty")
          ELSE IF m[Max(I)].kind = "tools" THEN Says(m[Max(I)].turn, "names") ELSE m[Max(I)]
    BY DEF LastAssistantDisplay
<1>4. "empty" \in AssistantKinds /\ "names" \in AssistantKinds /\ "text" \in AssistantKinds
    BY DEF AssistantKinds
<1>5. CASE I = {}
    <2>1. \A q \in Seq(S) : m # Append(q, Says(t, "text"))
        <3> SUFFICES ASSUME NEW q \in Seq(S), m = Append(q, Says(t, "text")) PROVE FALSE
            OBVIOUS
        <3>1. Len(m) \in DOMAIN m /\ m[Len(m)] = Says(t, "text")
            OBVIOUS
        <3>2. Len(m) \in I
            BY <1>4, <3>1, RowFacts
        <3> QED
            BY <1>5, <3>2
    <2> HIDE DEF I
    <2> QED
        BY <1>3, <1>4, <1>5, <2>1, RowFacts
<1>6. CASE I # {}
    <2> DEFINE r == m[Max(I)]
    <2>1. r \in S /\ r \in Rows /\ r.by = "assistant" /\ r.turn \in Turns
        <3>1. Max(I) \in I
            BY <1>2, <1>6
        <3> QED
            BY <1>1, <3>1, RowFacts
    <2>2. ASSUME NEW q \in Seq(S), m = Append(q, Says(t, "text")) PROVE r = Says(t, "text") /\ r.kind = "text"
        <3>1. Len(m) \in DOMAIN m /\ m[Len(m)] = Says(t, "text")
            BY <2>2
        <3>2. Len(m) \in I
            BY <1>4, <3>1, RowFacts
        <3>3. Max(I) = Len(m)
            <4>1. Max(I) \in 1 .. Len(m) /\ Len(m) <= Max(I)
                <5> HIDE DEF I
                <5> QED
                    BY <1>1, <1>2, <1>6, <3>2
            <4> HIDE DEF I
            <4> QED
                BY <1>1, <4>1
        <3> QED
            BY <1>4, <3>1, <3>3, RowFacts
    <2>3. LastAssistantDisplay(m, t) = IF r.kind = "tools" THEN Says(r.turn, "names") ELSE r
        BY <1>3, <1>6
    <2> HIDE DEF I, r
    <2>4. CASE r.kind = "tools"
        BY <1>4, <2>1, <2>2, <2>3, <2>4, RowFacts
    <2>5. CASE r.kind # "tools"
        BY <1>4, <2>1, <2>2, <2>3, <2>5, RowFacts
    <2> QED
        BY <2>4, <2>5
<1> QED
    BY <1>5, <1>6

\* A sequence of rows is the content of no missing and no torn file.
LEMMA ContentFacts ==
    ASSUME NEW q \in Seq(Rows)
    PROVE  /\ q # Torn /\ q # Absent /\ RowsOf(q) = ToSet(q)
           /\ \A w : LoadedTranscript(q, w) = q
           /\ q \in Seq(Said(ToSet(q)))
<1>1. q # Torn /\ q # Absent
    BY FilesAssumption
<1>2. \A i \in 1 .. Len(q) : q[i] \in ToSet(q) /\ q[i] \in Rows
    BY DEF ToSet
<1>3. \A i \in 1 .. Len(q) : q[i] \in Said(ToSet(q))
    BY <1>2 DEF Said
<1>4. q \in Seq(Said(ToSet(q)))
    <2> DEFINE S == Said(ToSet(q))
    <2>1. \A i \in 1 .. Len(q) : q[i] \in S
        BY <1>3
    <2>2. q \in [1 .. Len(q) -> Rows] /\ Len(q) \in Nat
        OBVIOUS
    <2> HIDE DEF S
    <2>3. q \in [1 .. Len(q) -> S]
        BY <2>1, <2>2
    <2>4. q \in Seq(S)
        BY <2>2, <2>3, SeqDef
    <2> QED
        BY <2>4 DEF S
<1> QED
    BY <1>1, <1>4 DEF RowsOf, Intact, LoadedTranscript

\* The rows of a list, of the list with one more row, and of what is saved of it.
LEMMA ToSetFacts ==
    ASSUME NEW S \in SUBSET Rows, NEW q \in Seq(S)
    PROVE  /\ ToSet(q) \subseteq S /\ ToSet(<<>>) = {}
           /\ \A e \in S : ToSet(Append(q, e)) = ToSet(q) \cup {e}
           /\ ToSet(Visible(q)) = ToSet(q) \cap Shown
<1>1. \A p \in Seq(S) : ToSet(p) = Elems(p)
    BY DEF ToSet, Elems
<1>2. \A e \in S : Append(q, e) \in Seq(S) /\ Elems(Append(q, e)) = Elems(q) \cup {e}
    BY AppendFacts
<1>3. Visible(q) \in Seq(S) /\ Elems(Visible(q)) = Elems(q) \cap Shown
    BY KeptType, KeptElements DEF Visible
<1>4. ToSet(q) \subseteq S /\ ToSet(<<>>) = {}
    BY DEF ToSet
<1> QED
    BY <1>1, <1>2, <1>3, <1>4

\* A larger transcript allows at least the context a smaller one allows.
LEMMA SaidFacts ==
    ASSUME NEW S, NEW T, \A r \in S : r \in Rows /\ r.kind \in {"line", "text"} => r \in T
    PROVE  Said(S) \subseteq Said(T)
BY DEF Said

\* No row is forgotten by a step that forgets no turn.
LEMMA KnownGrows ==
    ASSUME status \in [Turns -> {"new", "running", "ok", "failed", "lost"}], forgotten' = forgotten,
           \A t \in Turns : status[t] # "new" => status'[t] # "new"
    PROVE  Known \subseteq Known' /\ Known \subseteq Rows
BY RowFacts DEF Known

\* What LoadTranscript and LoadWorkingTranscript give.
LEMMA LoadedFacts ==
    ASSUME Shape, tFile # Torn
    PROVE  /\ OnFile \in Seq(Known \cap Shown) /\ OnFile \in Seq(Rows)
           /\ RowsOf(tFile) = ToSet(OnFile)
           /\ wFile # Torn => LoadedMessages(tFile, wFile) \in Seq(Known \cap Shown)
<1>1. Known \subseteq Rows /\ Known \cap Shown \subseteq Rows
    BY DEF Known
<1>2. CASE tFile = Absent
    BY <1>2, <1>1, ToSetFacts DEF OnFile, LoadedTranscript, LoadedMessages, RowsOf, Intact, Shape, Files, ToSet
<1>3. CASE tFile # Absent
    <2>1. tFile \in Seq(Known \cap Shown)
        BY <1>3 DEF Shape, Files
    <2>2. tFile \in Seq(Rows)
        BY <1>1, <2>1, SeqMonotonic
    <2>3. OnFile = tFile
        BY <1>3 DEF OnFile, LoadedTranscript
    <2> QED
        BY <1>3, <2>1, <2>2, <2>3, ContentFacts DEF LoadedMessages, LoadedTranscript, Shape, Files
<1> QED
    BY <1>2, <1>3

-----------------------------------------------------------------------------
(* The steps.                                                              *)

\* A new session has no files and no turn at work.
LEMMA InitInv == Init => TranscriptInv
<1> SUFFICES ASSUME Init PROVE TranscriptInv
    OBVIOUS
<1>1. Shape
    <2>1. tFile \in Files(Known \cap Shown) /\ wFile \in Files(Known \cap Shown)
        BY DEF Init, Files
    <2>2. transcript \in Seq(Known) /\ messages \in Seq(Known \cap Shown) /\ dialog \in Seq(Rows \X Rows \X Turns) /\ last \in Seq(Shown)
        BY DEF Init
    <2> QED
        BY <2>1, <2>2, TranscriptAssumption DEF Init, Shape, Savings
<1>2. TurnAtWork /\ ResetIsEmpty /\ RequestIsLast /\ DialogIsOfTurns
    BY DEF Init, TurnAtWork, ResetIsEmpty, RequestIsLast, DialogIsOfTurns
<1>3. LastIsOnFile
    BY DEF Init, LastIsOnFile, OnFile, LoadedTranscript, InTurn
<1>4. RequestsAreThere
    BY TranscriptAssumption DEF Init, RequestsAreThere, InTurn, Due
<1>5. ContextIsSaid
    BY DEF Init, ContextIsSaid, InTurn, SaveOrder, Files
<1> QED
    BY <1>1, <1>2, <1>3, <1>4, <1>5 DEF TranscriptInv

\* A turn ends and its Engine is dropped; the files stay as they are.
LEMMA EndStep ==
    ASSUME TranscriptInv, cur \in Turns, NEW s \in {"ok", "failed", "lost"}, EndTurn(s),
           s = "ok" => phase \in {"dialog", "reset"},
           UNCHANGED <<tFile, wFile, last, unsaved, forgotten>>, asked' \in SUBSET Turns,
           resetting' \in {resetting, "cut"}, resetting' # "begun",
           faults' \in Nat, faults' = 0 => faults = 0, crashes' \in Nat,
           dialog' \in Seq(Rows \X Rows \X Turns), DialogIsOfTurns'
    PROVE  TranscriptInv'
<1>1. /\ phase' = "idle" /\ saving' = "none" /\ truncated' = FALSE /\ cur' = None
      /\ transcript' = <<>> /\ messages' = <<>> /\ status' = [status EXCEPT ![cur] = s]
    BY DEF EndTurn
<1>2. Known \subseteq Known' /\ Known \cap Shown \subseteq Known' \cap Shown
    BY <1>1, KnownGrows DEF TranscriptInv, Shape
<1>3. Shape'
    <2>1. tFile' \in Files((Known \cap Shown)') /\ wFile' \in Files((Known \cap Shown)')
        BY <1>2, LargerSeq DEF TranscriptInv, Shape
    <2>2. forgotten' \in SUBSET {t \in Turns : status'[t] # "new"}
        BY <1>1 DEF TranscriptInv, Shape
    <2>3. status' \in [Turns -> {"new", "running", "ok", "failed", "lost"}]
        BY <1>1 DEF TranscriptInv, Shape
    <2>4. resetting' \in {"no", "begun", "cut"} /\ last' \in Seq(Shown) /\ unsaved' \in SUBSET Turns
        BY DEF TranscriptInv, Shape
    <2>5. transcript' \in Seq(Known') /\ messages' \in Seq((Known \cap Shown)')
        BY <1>1
    <2> HIDE DEF Known
    <2> QED
        BY <1>1, <2>1, <2>2, <2>3, <2>4, <2>5 DEF Shape, Savings
<1>4. TurnAtWork' /\ ResetIsEmpty' /\ RequestIsLast'
    BY <1>1 DEF TurnAtWork, ResetIsEmpty, RequestIsLast
<1>5. LastIsOnFile'
    BY <1>1 DEF TranscriptInv, LastIsOnFile, OnFile, InTurn
<1>6. RequestsAreThere'
    <2> SUFFICES ASSUME resetting' = "no", tFile' # Torn, NEW t \in Due', status'[t] = "ok"
                 PROVE  Once(OnFile', t)
        BY <1>1, TranscriptAssumption DEF RequestsAreThere, InTurn, Due
    <2>1. resetting = "no" /\ phase # "reset" /\ t \in Due /\ OnFile' = OnFile /\ tFile # Torn
        BY DEF TranscriptInv, ResetIsEmpty, Due, OnFile
    <2>2. status[t] = "ok" \/ (t = cur /\ phase = "dialog")
        BY <1>1, <2>1 DEF TranscriptInv, Shape, Due
    <2> QED
        BY <2>1, <2>2 DEF TranscriptInv, RequestsAreThere
<1>7. ContextIsSaid'
    BY <1>1 DEF TranscriptInv, ContextIsSaid, InTurn, SaveOrder
<1> QED
    BY <1>3, <1>4, <1>5, <1>6, <1>7 DEF TranscriptInv

\* A turn that never gets an Engine, or needs none of its files.
LEMMA SkipStep ==
    ASSUME TranscriptInv, NEW t \in Turns, FactoryFails(t) \/ LocalTurn(t)
    PROVE  TranscriptInv'
<1>1. /\ phase = "idle" /\ status[t] = "new"
      /\ \E s \in {"ok", "failed"} : status' = [status EXCEPT ![t] = s] /\ (s = "ok" => KindOf[t] = "slash")
      /\ UNCHANGED <<tFile, wFile, dialog, transcript, messages, cur, phase, saving, truncated,
                     last, asked, unsaved, resetting, forgotten, crashes, faults>>
    BY DEF FactoryFails, LocalTurn, Built, Next1, files, engine, hist, bounds
<1>2. PICK s \in {"ok", "failed"} : status' = [status EXCEPT ![t] = s] /\ (s = "ok" => KindOf[t] = "slash")
    BY <1>1
<1>3. Known \subseteq Known' /\ Known \cap Shown \subseteq Known' \cap Shown
    BY <1>1, <1>2, KnownGrows DEF TranscriptInv, Shape
<1>4. Shape'
    <2>1. /\ tFile' \in Files((Known \cap Shown)') /\ wFile' \in Files((Known \cap Shown)')
          /\ transcript' \in Seq(Known') /\ messages' \in Seq((Known \cap Shown)')
        BY <1>1, <1>3, LargerSeq DEF TranscriptInv, Shape
    <2>2. status' \in [Turns -> {"new", "running", "ok", "failed", "lost"}]
        BY <1>2 DEF TranscriptInv, Shape
    <2>3. forgotten' \in SUBSET {u \in Turns : status'[u] # "new"}
        BY <1>1, <1>2 DEF TranscriptInv, Shape
    <2> HIDE DEF Known
    <2> QED
        BY <1>1, <2>1, <2>2, <2>3 DEF TranscriptInv, Shape
<1>5. cur = None
    BY <1>1 DEF TranscriptInv, Shape
<1>6. TurnAtWork' /\ ResetIsEmpty' /\ RequestIsLast' /\ LastIsOnFile' /\ ContextIsSaid'
    BY <1>1, <1>5 DEF TranscriptInv, TurnAtWork, ResetIsEmpty, RequestIsLast, LastIsOnFile, OnFile, ContextIsSaid, InTurn
<1>7. DialogIsOfTurns'
    BY <1>1, <1>2 DEF TranscriptInv, Shape, DialogIsOfTurns
<1>8. RequestsAreThere'
    <2>1. \A u \in Due' : u \in Due /\ u # cur' /\ (status'[u] = "ok" => status[u] = "ok")
        BY <1>1, <1>2, <1>5, TranscriptAssumption DEF Due, TranscriptInv, Shape
    <2> QED
        BY <1>1, <2>1 DEF TranscriptInv, RequestsAreThere, OnFile, InTurn
<1> QED
    BY <1>4, <1>6, <1>7, <1>8 DEF TranscriptInv

\* slashReset drops what it has in memory.
LEMMA BeginResetStep ==
    ASSUME TranscriptInv, NEW t \in Turns, BeginReset(t)
    PROVE  TranscriptInv'
<1>1. /\ phase = "idle" /\ status[t] = "new" /\ KindOf[t] = "reset" /\ tFile # Torn
      /\ cur' = t /\ status' = [status EXCEPT ![t] = "running"]
      /\ transcript' = <<>> /\ messages' = <<>>
      /\ phase' = "reset" /\ saving' = SaveOrder[1] /\ truncated' = FALSE /\ resetting' = "begun"
      /\ UNCHANGED <<tFile, wFile, dialog, last, asked, unsaved, forgotten, crashes, faults>>
    BY DEF BeginReset, Built, Next1, BeginSaving, ContextAfterReset, files, bounds
<1>2. Known \subseteq Known' /\ Known \cap Shown \subseteq Known' \cap Shown
    BY <1>1, KnownGrows DEF TranscriptInv, Shape
<1>3. Shape'
    <2>1. tFile' \in Files((Known \cap Shown)') /\ wFile' \in Files((Known \cap Shown)')
        BY <1>1, <1>2, LargerSeq DEF TranscriptInv, Shape
    <2>2. status' \in [Turns -> {"new", "running", "ok", "failed", "lost"}]
        BY <1>1 DEF TranscriptInv, Shape
    <2>3. forgotten' \in SUBSET {u \in Turns : status'[u] # "new"}
        BY <1>1 DEF TranscriptInv, Shape
    <2>4. saving' # "none"
        BY <1>1 DEF SaveOrder
    <2>5. transcript' \in Seq(Known') /\ messages' \in Seq((Known \cap Shown)')
        BY <1>1
    <2> HIDE DEF Known
    <2> QED
        BY <1>1, <2>1, <2>2, <2>3, <2>4, <2>5, TranscriptAssumption DEF TranscriptInv, Shape, Savings
<1>4. TurnAtWork' /\ ResetIsEmpty' /\ RequestIsLast'
    BY <1>1 DEF TranscriptInv, Shape, TurnAtWork, ResetIsEmpty, RequestIsLast, SaveOrder
<1>5. LastIsOnFile' /\ RequestsAreThere' /\ ContextIsSaid'
    BY <1>1 DEF TranscriptInv, LastIsOnFile, RequestsAreThere, ContextIsSaid, OnFile, InTurn
<1>6. DialogIsOfTurns'
    BY <1>1 DEF TranscriptInv, Shape, DialogIsOfTurns
<1> QED
    BY <1>3, <1>4, <1>5, <1>6 DEF TranscriptInv

\* SubmitUser adds the request to what it has loaded.
LEMMA BeginTurnStep ==
    ASSUME TranscriptInv, NEW t \in Turns, BeginTurn(t)
    PROVE  TranscriptInv'
<1>1. /\ phase = "idle" /\ status[t] = "new" /\ KindOf[t] \in {"message", "marked"} /\ tFile # Torn /\ wFile # Torn
      /\ cur' = t /\ status' = [status EXCEPT ![t] = "running"]
      /\ transcript' = Append(OnFile, User(t)) /\ messages' = LoadedMessages(tFile, wFile)
      /\ phase' = "request" /\ saving' = SaveOrder[1] /\ truncated' = FALSE
      /\ UNCHANGED <<tFile, wFile, dialog, last, asked, unsaved, resetting, forgotten, crashes, faults>>
    BY DEF BeginTurn, Built, Next1, BeginSaving, WithRequest, OnFile, files, hist, bounds
<1>2. Known \subseteq Known' /\ Known \cap Shown \subseteq Known' \cap Shown /\ Known \subseteq Rows
    BY <1>1, KnownGrows DEF TranscriptInv, Shape
<1>3. /\ OnFile \in Seq(Known \cap Shown) /\ OnFile \in Seq(Rows) /\ RowsOf(tFile) = ToSet(OnFile)
      /\ messages' \in Seq(Known \cap Shown) /\ OnFile' = OnFile
    BY <1>1, LoadedFacts DEF TranscriptInv, OnFile
<1>4. User(t) \in Known' /\ User(t) \notin Known /\ User(t) \in Rows
    <2>1. t \notin forgotten
        BY <1>1 DEF TranscriptInv, Shape
    <2> QED
        BY <1>1, <2>1, RowFacts DEF Known, TranscriptInv, Shape
<1>5. transcript' \in Seq(Known') /\ transcript' \in Seq(Rows)
    <2>1. OnFile \in Seq(Known')
        BY <1>2, <1>3, SeqMonotonic
    <2> QED
        BY <1>1, <1>3, <1>4, <2>1, AppendProperties
<1>6. Shape'
    <2>1. /\ tFile' \in Files((Known \cap Shown)') /\ wFile' \in Files((Known \cap Shown)')
          /\ messages' \in Seq((Known \cap Shown)')
        BY <1>1, <1>2, <1>3, LargerSeq DEF TranscriptInv, Shape
    <2>2. status' \in [Turns -> {"new", "running", "ok", "failed", "lost"}]
        BY <1>1 DEF TranscriptInv, Shape
    <2>3. forgotten' \in SUBSET {u \in Turns : status'[u] # "new"}
        BY <1>1 DEF TranscriptInv, Shape
    <2>4. saving' # "none"
        BY <1>1 DEF SaveOrder
    <2> HIDE DEF Known
    <2> QED
        BY <1>1, <1>5, <2>1, <2>2, <2>3, <2>4, TranscriptAssumption DEF TranscriptInv, Shape, Savings, InTurn
<1>7. TurnAtWork' /\ ResetIsEmpty'
    BY <1>1 DEF TranscriptInv, Shape, TurnAtWork, ResetIsEmpty
<1>8. RequestIsLast'
    <2>1. transcript' # <<>> /\ transcript'[Len(transcript')] = User(t)
        BY <1>1, <1>3, <1>4
    <2> QED
        BY <1>1, <2>1 DEF RequestIsLast
<1>9. DialogIsOfTurns'
    BY <1>1 DEF TranscriptInv, Shape, DialogIsOfTurns
<1>10. LastIsOnFile'
    <2>1. last' = OnFile
        BY <1>1 DEF TranscriptInv, LastIsOnFile
    <2>2. Visible(OnFile) = OnFile
        <3>1. OnFile \in Seq(Shown)
            BY <1>3, SeqMonotonic
        <3> QED
            BY <3>1, KeptWhole DEF Visible
    <2>3. Visible(transcript') = IF User(t) \in Shown THEN Append(OnFile, User(t)) ELSE OnFile
        BY <1>1, <1>3, <1>4, <2>2, KeptOfAppend DEF Visible
    <2>4. IsPrefix(last', Visible(transcript'))
        BY <1>3, <1>4, <2>1, <2>3, PrefixFacts
    <2> QED
        BY <1>3, <2>1, <2>4 DEF LastIsOnFile
<1>11. RequestsAreThere'
    <2> SUFFICES ASSUME resetting' = "no" PROVE RequestsAreThere'
        BY DEF RequestsAreThere
    <2>1. Once(transcript', t)
        <3>1. OnFile \in Seq(Known)
            BY <1>3, SeqMonotonic
        <3> QED
            BY <1>1, <1>3, <1>4, <3>1, OnceFacts
    <2>2. ASSUME NEW u \in Due', status'[u] = "ok" PROVE Once(OnFile, u) /\ Once(transcript', u)
        <3>1. u \in Due /\ u # t /\ status[u] = "ok" /\ u \in Turns
            BY <1>1, <2>2 DEF Due, TranscriptInv, Shape
        <3>2. Once(OnFile, u)
            BY <1>1, <3>1 DEF TranscriptInv, RequestsAreThere
        <3>3. User(t) # User(u)
            BY <3>1, RowFacts
        <3> QED
            BY <1>1, <1>3, <1>4, <3>1, <3>2, <3>3, OnceFacts
    <2> QED
        BY <1>1, <1>3, <2>1, <2>2 DEF RequestsAreThere
<1>12. ContextIsSaid'
    <2> SUFFICES ASSUME faults' = 0, resetting' = "no" PROVE ContextIsSaid'
        BY DEF ContextIsSaid
    <2> DEFINE S == ToSet(transcript')
    <2>1. RowsOf(tFile) \subseteq S /\ ToSet(OnFile) \subseteq S
        BY <1>1, <1>3, <1>4, ToSetFacts
    <2>2. wFile \in Files(Said(RowsOf(tFile)))
        BY <1>1 DEF TranscriptInv, ContextIsSaid
    <2>3. Said(RowsOf(tFile)) \subseteq Said(S) /\ Said(ToSet(OnFile)) \subseteq Said(S)
        BY <2>1, SaidFacts
    <2>4. wFile \in Files(Said(S))
        BY <2>2, <2>3, LargerSeq
    <2>5. OnFile \in Seq(Said(S))
        BY <1>3, <2>3, ContentFacts, SeqMonotonic
    <2>6. messages' \in Seq(Said(S))
        BY <1>1, <2>4, <2>5 DEF LoadedMessages, OnFile, Files
    <2>7. SaveOrder[1] # SaveOrder[2]
        BY DEF SaveOrder
    <2> HIDE DEF S
    <2> QED
        BY <1>1, <2>2, <2>4, <2>6, <2>7 DEF ContextIsSaid, S
<1> QED
    BY <1>6, <1>7, <1>8, <1>9, <1>10, <1>11, <1>12 DEF TranscriptInv

\* os.WriteFile has cut the file short.
LEMMA TruncateStep == TranscriptInv /\ Truncate => TranscriptInv'
<1> SUFFICES ASSUME TranscriptInv, Truncate PROVE TranscriptInv'
    OBVIOUS
<1>1. /\ saving # "none" /\ truncated' = TRUE
      /\ UNCHANGED <<transcript, messages, cur, phase, saving, status, dialog, last, asked, unsaved,
                     resetting, forgotten, crashes, faults>>
      /\ \/ saving = SaveOrder[1] /\ tFile' = Torn /\ wFile' = wFile
         \/ saving = SaveOrder[2] /\ wFile' = Torn /\ tFile' = tFile
    BY DEF Truncate, SetFile, hist, bounds, SaveOrder, TranscriptInv, Shape
<1>2. Known' = Known /\ Due' = Due
    BY <1>1 DEF Known, Due
<1>3. Shape'
    BY <1>1, <1>2 DEF TranscriptInv, Shape, Files
<1>4. TurnAtWork' /\ RequestIsLast' /\ DialogIsOfTurns'
    BY <1>1 DEF TranscriptInv, TurnAtWork, RequestIsLast, DialogIsOfTurns
<1>5. SaveOrder[1] # SaveOrder[2]
    BY DEF SaveOrder
<1>6. ResetIsEmpty'
    BY <1>1, <1>5 DEF TranscriptInv, ResetIsEmpty
<1>7. LastIsOnFile' /\ RequestsAreThere'
    BY <1>1, <1>2 DEF TranscriptInv, LastIsOnFile, RequestsAreThere, OnFile, LoadedTranscript
<1>8. ContextIsSaid'
    BY <1>1, <1>5 DEF TranscriptInv, ContextIsSaid, Files
<1> QED
    BY <1>3, <1>4, <1>6, <1>7, <1>8 DEF TranscriptInv

\* What the context may hold beside a transcript, it may hold beside what is saved of it.
LEMMA SaidOfVisible ==
    ASSUME NEW q \in Seq(Rows)
    PROVE  Said(ToSet(q)) \subseteq Said(RowsOf(Visible(q)))
<1>1. Visible(q) \in Seq(Rows)
    BY VisibleType
<1>2. RowsOf(Visible(q)) = ToSet(q) \cap Shown
    BY <1>1, ContentFacts, ToSetFacts
<1> QED
    BY <1>2, RowFacts DEF Said

\* transcript.json is written whole.
LEMMA WriteTranscriptStep == TranscriptInv /\ Write /\ saving = SaveOrder[1] => TranscriptInv'
<1> SUFFICES ASSUME TranscriptInv, Write, saving = SaveOrder[1] PROVE TranscriptInv'
    OBVIOUS
<1> DEFINE v == Visible(transcript)
<1>1. /\ tFile' = v /\ wFile' = wFile /\ saving' = SaveOrder[2] /\ truncated' = FALSE
      /\ last' = v /\ unsaved' = unsaved \ {cur}
      /\ UNCHANGED <<dialog, transcript, messages, cur, phase, status, asked, resetting, forgotten, crashes, faults>>
    BY DEF Write, SetFile, Saved, ContentOf, SaveOrder, bounds
<1>2. transcript \in Seq(Known) /\ transcript \in Seq(Rows)
    <2>1. Known \subseteq Rows
        BY DEF Known
    <2> QED
        BY <2>1, SeqMonotonic DEF TranscriptInv, Shape
<1>3. v \in Seq(Known \cap Shown) /\ v \in Seq(Shown) /\ v \in Seq(Rows)
    BY <1>2, VisibleType
<1>4. v # Torn /\ v # Absent /\ OnFile' = v
      /\ \A t \in Turns : KindOf[t] # "marked" => (Once(v, t) <=> Once(transcript, t))
    BY <1>1, <1>2, <1>3, ContentFacts, OnceFacts DEF OnFile
<1>5. phase \in Savings /\ phase \in {"reset"} \cup InTurn /\ cur \in Turns /\ SaveOrder[2] # "none" /\ SaveOrder[1] # SaveOrder[2]
    BY DEF TranscriptInv, Shape, Savings, SaveOrder, InTurn
<1>6. v = <<>> \/ phase # "reset"
    BY KeptOfEmpty DEF TranscriptInv, ResetIsEmpty, Visible
<1>7. IsPrefix(v, v)
    BY DEF IsPrefix
<1> HIDE DEF v
<1>8. Known' = Known
    BY <1>1 DEF Known
<1>9. Shape'
    <2>1. tFile' \in Files((Known \cap Shown)') /\ last' \in Seq(Shown)
        BY <1>1, <1>3, <1>8 DEF Files
    <2> HIDE DEF Known
    <2> QED
        BY <1>1, <1>5, <1>8, <2>1 DEF TranscriptInv, Shape
<1>10. TurnAtWork' /\ RequestIsLast' /\ DialogIsOfTurns'
    BY <1>1 DEF TranscriptInv, TurnAtWork, RequestIsLast, DialogIsOfTurns
<1>11. ResetIsEmpty'
    BY <1>1, <1>6 DEF TranscriptInv, ResetIsEmpty
<1>12. LastIsOnFile'
    BY <1>1, <1>4, <1>7 DEF LastIsOnFile, v
<1>13. RequestsAreThere'
    <2> SUFFICES ASSUME resetting' = "no" PROVE RequestsAreThere'
        BY DEF RequestsAreThere
    <2>1. phase \in InTurn /\ resetting = "no" /\ Once(transcript, cur) /\ (cur \in Due' => Once(v, cur))
        BY <1>1, <1>4, <1>5 DEF TranscriptInv, ResetIsEmpty, RequestsAreThere, Due
    <2>2. ASSUME NEW t \in Due', status'[t] = "ok" PROVE Once(transcript, t) /\ Once(v, t)
        <3>1. status[t] = "ok" /\ t \in Turns /\ t # cur
            <4>1. status[t] = "ok" /\ t \in Turns
                BY <1>1, <2>2 DEF Due
            <4>2. status[cur] = "running"
                BY <1>5, TranscriptAssumption DEF TranscriptInv, TurnAtWork
            <4> QED
                BY <4>1, <4>2
        <3>2. t \in Due /\ KindOf[t] # "marked"
            BY <1>1, <2>2, <3>1 DEF Due
        <3> QED
            BY <1>4, <2>1, <3>1, <3>2 DEF TranscriptInv, RequestsAreThere
    <2> QED
        BY <1>1, <1>4, <2>1, <2>2 DEF RequestsAreThere
<1>14. ContextIsSaid'
    <2> SUFFICES ASSUME faults' = 0, resetting' = "no" PROVE ContextIsSaid'
        BY DEF ContextIsSaid
    <2>1. /\ wFile \in Files(Said(ToSet(transcript))) /\ messages \in Seq(Said(ToSet(transcript)))
        BY <1>1, <1>5 DEF TranscriptInv, ResetIsEmpty, ContextIsSaid
    <2>2. wFile \in Files(Said(RowsOf(v)))
        BY <1>2, <2>1, SaidOfVisible, LargerSeq DEF v
    <2> QED
        BY <1>1, <2>1, <2>2 DEF ContextIsSaid, v
<1> QED
    BY <1>9, <1>10, <1>11, <1>12, <1>13, <1>14 DEF TranscriptInv

\* working_transcript.json is written whole in a turn.
LEMMA WriteWorkingStep == TranscriptInv /\ Write /\ saving = SaveOrder[2] /\ phase # "reset" => TranscriptInv'
<1> SUFFICES ASSUME TranscriptInv, Write, saving = SaveOrder[2], phase # "reset" PROVE TranscriptInv'
    OBVIOUS
<1> DEFINE w == WorkingTail(Visible(messages))
<1>1. /\ wFile' = w /\ tFile' = tFile /\ saving' = "none" /\ truncated' = FALSE
      /\ phase' = IF phase = "request" THEN "model" ELSE "dialog"
      /\ UNCHANGED <<dialog, transcript, messages, cur, status, last, asked, unsaved, resetting, forgotten, crashes, faults>>
    BY DEF Write, SetFile, Saved, ContentOf, SaveOrder, bounds
<1>2. phase \in {"request", "answer"} /\ SaveOrder[2] # "none" /\ SaveOrder[1] # SaveOrder[2]
    BY DEF TranscriptInv, Shape, Savings, SaveOrder
<1>3. w \in Seq(Known \cap Shown)
    <2>1. Visible(messages) \in Seq(Known \cap Shown)
        BY VisibleType DEF TranscriptInv, Shape
    <2> QED
        BY <2>1, TailType
<1>4. \A S : messages \in Seq(S) => w \in Seq(S)
    BY VisibleType, TailType
<1> HIDE DEF w
<1>5. Known' = Known /\ Due' = Due /\ OnFile' = OnFile
    BY <1>1 DEF Known, Due, OnFile, LoadedTranscript
<1>6. Shape'
    <2>1. wFile' \in Files((Known \cap Shown)')
        BY <1>1, <1>3, <1>5 DEF Files
    <2> HIDE DEF Known
    <2> QED
        BY <1>1, <1>2, <1>5, <2>1 DEF TranscriptInv, Shape, Savings, InTurn
<1>7. TurnAtWork' /\ ResetIsEmpty' /\ RequestIsLast' /\ DialogIsOfTurns'
    BY <1>1, <1>2 DEF TranscriptInv, Shape, TurnAtWork, ResetIsEmpty, RequestIsLast, DialogIsOfTurns
<1>8. LastIsOnFile'
    BY <1>1, <1>2, <1>5 DEF TranscriptInv, LastIsOnFile, InTurn
<1>9. RequestsAreThere'
    BY <1>1, <1>2, <1>5 DEF TranscriptInv, RequestsAreThere, InTurn
<1>10. ContextIsSaid'
    <2> SUFFICES ASSUME faults' = 0, resetting' = "no" PROVE ContextIsSaid'
        BY DEF ContextIsSaid
    <2>1. messages \in Seq(Said(ToSet(transcript))) /\ tFile = Visible(transcript)
        BY <1>1, <1>2 DEF TranscriptInv, ContextIsSaid, InTurn
    <2>2. transcript \in Seq(Rows)
        <3>1. Known \subseteq Rows
            BY DEF Known
        <3> QED
            BY <3>1, SeqMonotonic DEF TranscriptInv, Shape
    <2>3. w \in Seq(Said(ToSet(transcript))) /\ w \in Seq(Said(RowsOf(tFile)))
        <3>1. w \in Seq(Said(ToSet(transcript)))
            BY <1>4, <2>1
        <3> QED
            BY <3>1, <2>1, <2>2, SaidOfVisible, SeqMonotonic
    <2> QED
        BY <1>1, <1>2, <2>1, <2>3 DEF ContextIsSaid, Files, SaveOrder
<1> QED
    BY <1>6, <1>7, <1>8, <1>9, <1>10 DEF TranscriptInv

\* The second write of a /reset: if the first one succeeded, nothing is left.
LEMMA WriteResetStep == TranscriptInv /\ Write /\ saving = SaveOrder[2] /\ phase = "reset" => TranscriptInv'
<1> SUFFICES ASSUME TranscriptInv, Write, saving = SaveOrder[2], phase = "reset" PROVE TranscriptInv'
    OBVIOUS
<1>1. /\ wFile' = WorkingTail(Visible(messages)) /\ tFile' = tFile /\ EndTurn("ok")
      /\ IF resetting = "begun" THEN resetting' = "no" /\ forgotten' = {t \in Turns : status[t] # "new"}
                                ELSE UNCHANGED <<resetting, forgotten>>
      /\ UNCHANGED <<dialog, last, asked, unsaved, crashes, faults>>
    BY DEF Write, SetFile, Saved, ContentOf, SaveOrder, bounds
<1>2. messages = <<>> /\ resetting \in {"begun", "cut"} /\ (resetting = "begun" => tFile = <<>>)
    BY DEF TranscriptInv, ResetIsEmpty, Shape
<1>3. wFile' = <<>>
    <2>1. Visible(<<>>) = <<>>
        BY KeptOfEmpty DEF Visible
    <2> QED
        BY <1>1, <1>2, <2>1, TranscriptAssumption DEF WorkingTail
<1>4. /\ phase' = "idle" /\ saving' = "none" /\ truncated' = FALSE /\ cur' = None /\ cur \in Turns
      /\ transcript' = <<>> /\ messages' = <<>> /\ status' = [status EXCEPT ![cur] = "ok"] /\ status[cur] = "running"
    BY <1>1, TranscriptAssumption DEF EndTurn, TranscriptInv, Shape, TurnAtWork
<1>5. forgotten' \in SUBSET {t \in Turns : status'[t] # "new"} /\ resetting' \in {"no", "cut"}
    BY <1>1, <1>2, <1>4 DEF TranscriptInv, Shape
<1>6. tFile' \in Files((Known \cap Shown)')
    <2>1. CASE resetting = "begun"
        BY <1>1, <1>2, <2>1 DEF Files
    <2>2. CASE resetting # "begun"
        <3>1. Known \cap Shown \subseteq (Known \cap Shown)'
            BY <1>1, <1>4, <2>2, KnownGrows DEF TranscriptInv, Shape
        <3> QED
            BY <1>1, <3>1, LargerSeq DEF TranscriptInv, Shape
    <2> QED
        BY <2>1, <2>2
<1>7. Shape'
    <2>1. wFile' \in Files((Known \cap Shown)') /\ messages' \in Seq((Known \cap Shown)') /\ transcript' \in Seq(Known')
        BY <1>3, <1>4 DEF Files
    <2>2. status' \in [Turns -> {"new", "running", "ok", "failed", "lost"}]
        BY <1>4 DEF TranscriptInv, Shape
    <2> HIDE DEF Known
    <2> QED
        BY <1>1, <1>4, <1>5, <1>6, <2>1, <2>2 DEF TranscriptInv, Shape, Savings
<1>8. TurnAtWork' /\ ResetIsEmpty' /\ RequestIsLast'
    BY <1>4, <1>5 DEF TurnAtWork, ResetIsEmpty, RequestIsLast
<1>9. DialogIsOfTurns'
    BY <1>1, <1>4 DEF TranscriptInv, Shape, DialogIsOfTurns
<1>10. LastIsOnFile'
    BY <1>1, <1>4 DEF TranscriptInv, LastIsOnFile, OnFile, LoadedTranscript, InTurn
<1>11. RequestsAreThere'
    <2> SUFFICES ASSUME resetting' = "no", NEW t \in Due' PROVE status'[t] # "ok" /\ t # cur'
        BY <1>4 DEF RequestsAreThere, InTurn
    <2>1. t \in Turns /\ t # None /\ forgotten' = {u \in Turns : status[u] # "new"} /\ t \notin forgotten'
        BY <1>1, <1>2, TranscriptAssumption DEF Due
    <2> QED
        BY <1>4, <2>1 DEF TranscriptInv, Shape
<1>12. ContextIsSaid'
    BY <1>3, <1>4 DEF ContextIsSaid, Files, InTurn, SaveOrder
<1> QED
    BY <1>7, <1>8, <1>9, <1>10, <1>11, <1>12 DEF TranscriptInv

\* A save fails, whatever it has left of the file; the other save is next, or what follows.
LEMMA SaveFailsStep == TranscriptInv /\ SaveFails => TranscriptInv'
<1> SUFFICES ASSUME TranscriptInv, SaveFails PROVE TranscriptInv'
    OBVIOUS
<1>1. /\ saving # "none" /\ faults' = faults + 1 /\ faults' \in Nat /\ faults' # 0
      /\ unsaved' = IF saving = "transcript" /\ phase = "request" THEN unsaved \cup {cur} ELSE unsaved
      /\ resetting' = IF phase = "reset" THEN "cut" ELSE resetting
      /\ UNCHANGED <<tFile, wFile, dialog, last, asked, forgotten, crashes>>
    BY DEF SaveFails, files, TranscriptInv, Shape
<1>2. /\ phase \in Savings /\ cur \in Turns /\ cur # None /\ saving \in {SaveOrder[1], SaveOrder[2]}
      /\ SaveOrder[1] = "transcript" /\ SaveOrder[2] = "working"
    BY <1>1, TranscriptAssumption DEF TranscriptInv, Shape, Savings, SaveOrder
<1>3. ContextIsSaid' /\ OnFile' = OnFile
    BY <1>1 DEF ContextIsSaid, OnFile
<1>4. resetting' # "begun" /\ resetting' \in {resetting, "cut"}
    BY <1>1 DEF TranscriptInv, ResetIsEmpty
<1>5. CASE saving = SaveOrder[2] /\ phase = "reset"
    <2>1. EndTurn("ok") /\ unsaved' = unsaved
        BY <1>1, <1>2, <1>5 DEF SaveFails, Saved
    <2>2. DialogIsOfTurns'
        BY <1>1, <1>2, <2>1 DEF EndTurn, TranscriptInv, Shape, DialogIsOfTurns
    <2>3. dialog' \in Seq(Rows \X Rows \X Turns) /\ asked' \in SUBSET Turns /\ crashes' \in Nat
        BY <1>1 DEF TranscriptInv, Shape
    <2> QED
        BY <1>1, <1>2, <1>4, <1>5, <2>1, <2>2, <2>3, EndStep
<1>6. CASE ~ (saving = SaveOrder[2] /\ phase = "reset")
    <2>1. /\ UNCHANGED <<transcript, messages, cur, status>> /\ truncated' = FALSE
          /\ \/ saving = SaveOrder[1] /\ saving' = SaveOrder[2] /\ phase' = phase
             \/ /\ saving = SaveOrder[2] /\ saving' = "none"
                /\ (phase = "request" /\ phase' = "model") \/ (phase = "answer" /\ phase' = "dialog")
        BY <1>1, <1>2, <1>6 DEF SaveFails, Saved, Savings
    <2>2. Known' = Known
        BY <1>1, <2>1 DEF Known
    <2>3. unsaved' \in SUBSET Turns /\ unsaved \subseteq unsaved' /\ Due' \subseteq Due
        BY <1>1, <1>2 DEF TranscriptInv, Shape, Due
    <2>4. Shape'
        <3> HIDE DEF Known
        <3> QED
            BY <1>1, <1>2, <1>4, <2>1, <2>2, <2>3 DEF TranscriptInv, Shape, Savings, InTurn
    <2>5. TurnAtWork' /\ ResetIsEmpty' /\ RequestIsLast' /\ DialogIsOfTurns'
        BY <1>1, <1>2, <2>1 DEF TranscriptInv, TurnAtWork, ResetIsEmpty, RequestIsLast, DialogIsOfTurns, Savings
    <2>6. LastIsOnFile'
        BY <1>1, <1>3, <2>1 DEF TranscriptInv, LastIsOnFile, InTurn
    <2>7. RequestsAreThere'
        <3> SUFFICES ASSUME resetting' = "no" PROVE RequestsAreThere'
            BY DEF RequestsAreThere
        <3>1. resetting = "no" /\ phase \in InTurn /\ phase # "reset"
            BY <1>1, <1>2 DEF TranscriptInv, ResetIsEmpty, Savings, InTurn
        <3>2. ASSUME tFile # Torn, NEW t \in Due', t = cur PROVE Once(OnFile, t)
            <4>1. t \in Due /\ ~ (phase = "request" /\ saving = SaveOrder[1])
                BY <1>1, <1>2, <2>3, <3>2 DEF Due
            <4> QED
                BY <3>1, <3>2, <4>1 DEF TranscriptInv, RequestsAreThere
        <3>3. ASSUME NEW t \in Due', status'[t] = "ok"
              PROVE  Once(transcript, t) /\ (tFile # Torn => Once(OnFile, t))
            BY <2>1, <2>3, <3>1, <3>3 DEF TranscriptInv, RequestsAreThere
        <3>4. Once(transcript, cur)
            BY <3>1 DEF TranscriptInv, RequestsAreThere
        <3> QED
            BY <1>1, <1>3, <2>1, <3>2, <3>3, <3>4 DEF RequestsAreThere
    <2> QED
        BY <1>3, <2>4, <2>5, <2>6, <2>7 DEF TranscriptInv
<1> QED
    BY <1>5, <1>6

-----------------------------------------------------------------------------
(* The model loop.                                                         *)

Rounds == {<<>>, <<Says(cur, "talk")>>, <<Says(cur, "tools")>>}
Request(round) == Append(messages, User(cur)) \o round
Live(round, from, final) ==
    Append(SubSeq(Request(round), from, Len(Request(round))), Says(cur, final))

\* The messages the loop leaves are the loaded ones, the request and what the model said.
LEMMA LiveType ==
    ASSUME NEW S \in SUBSET Rows, messages \in Seq(S), NEW round \in Rounds, NEW final,
           {User(cur), Says(cur, "talk"), Says(cur, "tools"), Says(cur, final)} \subseteq S,
           NEW from \in 1 .. (Len(Request(round)) + 1)
    PROVE  /\ SubSeq(Request(round), from, Len(Request(round))) \in Seq(S)
           /\ Live(round, from, final) \in Seq(S)
<1>1. round \in Seq(S)
    <2>1. CASE round = <<>>
        BY <2>1
    <2>2. ASSUME NEW r \in S, round = <<r>> PROVE round \in Seq(S)
        BY <2>2
    <2> QED
        BY <2>1, <2>2 DEF Rounds
<1>2. Append(messages, User(cur)) \in Seq(S)
    BY AppendProperties
<1>3. Request(round) \in Seq(S)
    BY <1>1, <1>2, ConcatProperties DEF Request
<1> DEFINE q == Request(round)
<1> HIDE DEF q
<1>4. q \in Seq(S) /\ from \in 1 .. Len(q) + 1
    BY <1>3 DEF q
<1>5. SubSeq(q, from, Len(q)) \in Seq(S)
    <2>1. Len(q) \in 0 .. Len(q) /\ \A i \in from .. Len(q) : q[i] \in S
        BY <1>4
    <2> QED
        BY <1>4, <2>1, SubSeqProperties
<1>6. Append(SubSeq(q, from, Len(q)), Says(cur, final)) \in Seq(S)
    BY <1>5, AppendProperties
<1> QED
    BY <1>5, <1>6 DEF q, Live

\* The loop ends with an answer, or with an empty one.
LEMMA RunTurnStep == TranscriptInv /\ RunTurn => TranscriptInv'
<1> SUFFICES ASSUME TranscriptInv, RunTurn PROVE TranscriptInv'
    OBVIOUS
<1>1. /\ phase = "model" /\ asked' = asked \cup {cur}
      /\ phase' = "answer" /\ saving' = SaveOrder[1] /\ truncated' = FALSE
      /\ UNCHANGED <<tFile, wFile, dialog, cur, status, last, unsaved, resetting, forgotten, crashes, faults>>
    BY DEF RunTurn, BeginSaving, files, bounds
<1>2. PICK round \in Rounds, final \in {"text", "empty"} :
          \E from \in 1 .. (Len(Request(round)) + 1) :
             /\ transcript' = Append(transcript, LastAssistantDisplay(Live(round, from, final), cur))
             /\ messages' = Visible(Live(round, from, final))
    BY DEF RunTurn, Rounds, Request, Live
<1>3. PICK from \in 1 .. (Len(Request(round)) + 1) :
             /\ transcript' = Append(transcript, LastAssistantDisplay(Live(round, from, final), cur))
             /\ messages' = Visible(Live(round, from, final))
    BY <1>2
<1>4. cur \in Turns /\ cur # None /\ status[cur] = "running" /\ cur \notin forgotten
    BY <1>1, TranscriptAssumption DEF TranscriptInv, Shape, TurnAtWork
<1>5. {"talk", "tools", "text", "empty"} \subseteq AssistantKinds
    BY DEF AssistantKinds
<1>6. /\ {User(cur), Says(cur, "talk"), Says(cur, "tools"), Says(cur, final)} \subseteq Known
      /\ Known \in SUBSET Rows /\ \A r \in Rows : r.turn = cur => r \in Known
    BY <1>4, <1>5, RowFacts DEF Known
<1>7. transcript \in Seq(Known) /\ transcript \in Seq(Rows) /\ messages \in Seq(Known)
    BY <1>6, SeqMonotonic DEF TranscriptInv, Shape
<1> DEFINE d == LastAssistantDisplay(Live(round, from, final), cur)
<1>8. Live(round, from, final) \in Seq(Known)
    BY <1>6, <1>7, LiveType
<1>9. d \in Rows /\ d.by = "assistant" /\ d \in Known
    <2>1. /\ d \in Rows /\ d.by = "assistant"
          /\ d.turn = cur \/ \E r \in Known : d.turn = r.turn
        BY <1>4, <1>6, <1>8, DisplayFacts
    <2> HIDE DEF d
    <2> QED
        BY <1>6, <2>1 DEF Known
<1>10. PICK e : e = d
    OBVIOUS
<1>11. e \in Rows /\ e.by = "assistant" /\ e \in Known /\ transcript' = Append(transcript, e)
    BY <1>3, <1>9, <1>10
<1>12. transcript' \in Seq(Known) /\ transcript' \in Seq(Rows)
    BY <1>7, <1>11, AppendProperties
<1>13. messages' \in Seq(Known \cap Shown)
    BY <1>3, <1>8, VisibleType
<1>14. Known' = Known /\ Due' = Due /\ OnFile' = OnFile
    BY <1>1 DEF Known, Due, OnFile
<1>15. Shape'
    <2> HIDE DEF Known
    <2> QED
        BY <1>1, <1>4, <1>12, <1>13, <1>14 DEF TranscriptInv, Shape, Savings, InTurn, SaveOrder
<1>16. TurnAtWork' /\ ResetIsEmpty' /\ DialogIsOfTurns'
    BY <1>1 DEF TranscriptInv, TurnAtWork, ResetIsEmpty, DialogIsOfTurns
<1>17. transcript # <<>> /\ transcript[Len(transcript)] = User(cur)
    BY <1>1 DEF TranscriptInv, RequestIsLast
<1>18. RequestIsLast'
    <2>1. /\ Len(transcript') >= 2 /\ transcript'[Len(transcript') - 1] = User(cur)
          /\ transcript'[Len(transcript')] = e
        BY <1>7, <1>11, <1>17
    <2> QED
        BY <1>1, <1>11, <2>1 DEF RequestIsLast
<1>19. LastIsOnFile'
    <2>1. Visible(transcript') = IF e \in Shown THEN Append(Visible(transcript), e) ELSE Visible(transcript)
        BY <1>7, <1>11, KeptOfAppend DEF Visible
    <2>2. last \in Seq(Shown) /\ IsPrefix(last, Visible(transcript)) /\ Visible(transcript) \in Seq(Shown)
        BY <1>1, <1>7, VisibleType DEF TranscriptInv, Shape, LastIsOnFile, InTurn
    <2>3. IsPrefix(last, Visible(transcript'))
        BY <2>1, <2>2, PrefixFacts
    <2> QED
        BY <1>1, <1>14, <2>3 DEF TranscriptInv, LastIsOnFile
<1>20. RequestsAreThere'
    <2> SUFFICES ASSUME resetting' = "no" PROVE RequestsAreThere'
        BY DEF RequestsAreThere
    <2>1. \A t \in Turns : Once(transcript', t) <=> Once(transcript, t)
        <3>1. \A t \in Turns : e # User(t)
            BY <1>11, RowFacts
        <3> QED
            BY <1>7, <1>11, <3>1, OnceFacts
    <2>2. \A t \in Due : t \in Turns
        BY DEF Due
    <2>3. phase \in InTurn /\ phase' \in InTurn
        BY <1>1 DEF InTurn
    <2> QED
        BY <1>1, <1>4, <1>14, <2>1, <2>2, <2>3 DEF TranscriptInv, RequestsAreThere
<1>21. ContextIsSaid'
    <2> SUFFICES ASSUME faults' = 0, resetting' = "no" PROVE ContextIsSaid'
        BY DEF ContextIsSaid
    <2>1. PICK S : S = ToSet(transcript) \cup {e}
        OBVIOUS
    <2>2. ToSet(transcript') = S
        BY <1>7, <1>11, <2>1, ToSetFacts
    <2>3. Said(ToSet(transcript)) \subseteq Said(S) /\ Said(S) \in SUBSET Rows
        BY <2>1 DEF Said
    <2>4. /\ wFile \in Files(Said(ToSet(transcript))) /\ messages \in Seq(Said(ToSet(transcript)))
          /\ tFile # Torn => wFile \in Files(Said(RowsOf(tFile)))
        BY <1>1 DEF TranscriptInv, ContextIsSaid, InTurn
    <2>5. wFile \in Files(Said(S)) /\ messages \in Seq(Said(S))
        BY <2>3, <2>4, LargerSeq, SeqMonotonic
    <2>6. User(cur) \in Said(S)
        <3>1. User(cur) \in ToSet(transcript)
            BY <1>7, <1>17 DEF ToSet
        <3> QED
            BY <1>4, <2>1, <3>1, RowFacts DEF Said
    <2>7. {Says(cur, "talk"), Says(cur, "tools"), Says(cur, "empty")} \subseteq Said(S)
        BY <1>4, <1>5, RowFacts DEF Said
    <2>8. Says(cur, final) \in Said(S)
        <3>1. CASE final = "empty"
            BY <2>7, <3>1
        <3>2. CASE final = "text"
            <4>1. /\ SubSeq(Request(round), from, Len(Request(round))) \in Seq(Known)
                  /\ Live(round, from, final) = Append(SubSeq(Request(round), from, Len(Request(round))), Says(cur, "text"))
                BY <1>6, <1>7, <3>2, LiveType DEF Live
            <4>2. e = Says(cur, "text")
                BY <1>4, <1>6, <1>8, <1>10, <4>1, DisplayFacts
            <4> QED
                BY <1>11, <2>1, <3>2, <4>2 DEF Said
        <3> QED
            BY <3>1, <3>2
    <2>9. Live(round, from, final) \in Seq(Said(S))
        <3>1. {User(cur), Says(cur, "talk"), Says(cur, "tools"), Says(cur, final)} \subseteq Said(S)
            BY <2>6, <2>7, <2>8
        <3> QED
            BY <2>3, <2>5, <3>1, LiveType
    <2>10. messages' \in Seq(Said(S))
        BY <1>3, <2>9, VisibleType
    <2> QED
        BY <1>1, <2>2, <2>4, <2>5, <2>10 DEF ContextIsSaid, SaveOrder
<1> QED
    BY <1>15, <1>16, <1>18, <1>19, <1>20, <1>21 DEF TranscriptInv

-----------------------------------------------------------------------------
(* The end of a turn.                                                      *)

\* The model fails, or the process dies: the dialog history stays as it is.
LEMMA TurnIsCut == TranscriptInv /\ (TurnFails \/ Crash) => TranscriptInv'
<1> SUFFICES ASSUME TranscriptInv, TurnFails \/ Crash PROVE TranscriptInv'
    OBVIOUS
<1>1. PICK s \in {"failed", "lost"} : EndTurn(s)
    BY DEF TurnFails, Crash
<1>2. cur \in Turns /\ status[cur] = "running"
    BY TranscriptAssumption DEF TurnFails, Crash, TranscriptInv, Shape, TurnAtWork
<1>3. /\ UNCHANGED <<tFile, wFile, dialog, last, unsaved, forgotten, faults>>
      /\ asked' \in SUBSET Turns /\ crashes' \in Nat
      /\ resetting' \in {resetting, "cut"} /\ resetting' # "begun"
    BY <1>2 DEF TurnFails, Crash, files, bounds, TranscriptInv, Shape, ResetIsEmpty
<1>4. DialogIsOfTurns'
    BY <1>1, <1>2, <1>3 DEF EndTurn, TranscriptInv, Shape, DialogIsOfTurns
<1>5. dialog' \in Seq(Rows \X Rows \X Turns) /\ faults' \in Nat /\ (faults' = 0 => faults = 0)
    BY <1>3 DEF TranscriptInv, Shape
<1> QED
    BY <1>1, <1>2, <1>3, <1>4, <1>5, EndStep

\* The last two visible rows, if they are a pair, are the request and the answer of the turn,
\* or the turn's request is hidden.
LEMMA PairIsOfTurn ==
    ASSUME TranscriptInv, phase = "dialog", NEW m, m = Visible(transcript), CompletePair(m)
    PROVE  /\ m[Len(m) - 1] \in Rows /\ m[Len(m) - 1].by = "user"
           /\ m[Len(m)] \in Rows /\ m[Len(m)].by = "assistant"
           /\ KindOf[cur] = "message" => m[Len(m) - 1] = User(cur)
<1>1. cur \in Turns /\ User(cur) \in Rows /\ User(cur).by = "user"
    BY RowFacts DEF TranscriptInv, Shape
<1>2. transcript \in Seq(Rows)
    <2>1. Known \subseteq Rows
        BY DEF Known
    <2> QED
        BY <2>1, SeqMonotonic DEF TranscriptInv, Shape
<1>3. Len(transcript) >= 2 /\ transcript[Len(transcript) - 1] = User(cur)
    BY DEF TranscriptInv, RequestIsLast
<1>4. PICK q \in Seq(Rows), r \in Rows : transcript = Append(Append(q, User(cur)), r)
    <2> DEFINE n == Len(transcript)
               q == SubSeq(transcript, 1, n - 2)
    <2>1. q \in Seq(Rows) /\ n \in Nat /\ n >= 2 /\ Len(q) = n - 2 /\ \A i \in 1 .. n - 2 : q[i] = transcript[i]
        <3>1. n \in Nat /\ n >= 2 /\ \A i \in 1 .. n : transcript[i] \in Rows
            BY <1>2, <1>3
        <3>2. PICK k \in Nat : k = n - 2
            BY <3>1
        <3>3. 1 \in Int /\ k \in Int /\ \A i \in 1 .. k : transcript[i] \in Rows
            BY <3>1, <3>2
        <3>4. /\ SubSeq(transcript, 1, k) \in Seq(Rows)
              /\ Len(SubSeq(transcript, 1, k)) = IF 1 <= k THEN k - 1 + 1 ELSE 0
              /\ \A i \in 1 .. k - 1 + 1 : SubSeq(transcript, 1, k)[i] = transcript[1 + i - 1]
            BY <3>3, SubSeqProperties
        <3>5. Len(SubSeq(transcript, 1, k)) = k /\ \A i \in 1 .. k : SubSeq(transcript, 1, k)[i] = transcript[i]
            BY <3>2, <3>4
        <3> QED
            BY <3>1, <3>2, <3>4, <3>5
    <2> HIDE DEF q
    <2>2. Append(q, User(cur)) \in Seq(Rows) /\ Append(Append(q, User(cur)), transcript[n]) \in Seq(Rows)
        BY <1>1, <1>2, <2>1
    <2>3. Len(Append(Append(q, User(cur)), transcript[n])) = n
        BY <1>1, <1>2, <2>1, <2>2
    <2>4. \A i \in 1 .. n : Append(Append(q, User(cur)), transcript[n])[i] = transcript[i]
        BY <1>1, <1>2, <1>3, <2>1, <2>2
    <2>5. transcript = Append(Append(q, User(cur)), transcript[n])
        BY <1>2, <2>2, <2>3, <2>4, SeqEqual
    <2> QED
        BY <1>2, <2>1, <2>5
<1>5. Append(q, User(cur)) \in Seq(Rows) /\ Kept(q, Shown) \in Seq(Rows)
    BY <1>1, KeptType, AppendProperties
<1>6. m \in Seq(Rows) /\ m[Len(m) - 1] \in Rows /\ m[Len(m)] \in Rows
    <2>1. m \in Seq(Rows)
        BY <1>2, VisibleType
    <2> QED
        BY <2>1 DEF CompletePair
<1>7. SUFFICES ASSUME KindOf[cur] = "message" PROVE m[Len(m) - 1] = User(cur)
    BY <1>6 DEF CompletePair
<1>8. Kept(Append(q, User(cur)), Shown) = Append(Kept(q, Shown), User(cur))
    <2>1. User(cur) \in Shown
        BY <1>1, <1>7, RowFacts
    <2> QED
        BY <1>1, <2>1, KeptOfAppend
<1>9. m = IF r \in Shown THEN Append(Append(Kept(q, Shown), User(cur)), r) ELSE Append(Kept(q, Shown), User(cur))
    BY <1>4, <1>5, <1>8, KeptOfAppend DEF Visible
<1>10. PICK p \in Seq(Rows) : p = Kept(q, Shown)
    BY <1>5
<1>11. CASE r \in Shown
    <2>1. m = Append(Append(p, User(cur)), r)
        BY <1>9, <1>10, <1>11
    <2>2. Len(m) = Len(p) + 2 /\ Len(p) \in Nat /\ m[Len(p) + 2] = r /\ m[Len(p) + 1] = User(cur)
        BY <1>1, <2>1
    <2> QED
        BY <2>2 DEF CompletePair
<1>12. CASE r \notin Shown
    <2>1. m = Append(p, User(cur)) /\ m[Len(m)] = User(cur)
        BY <1>1, <1>9, <1>10, <1>12
    <2> QED
        BY <1>1, <2>1 DEF CompletePair
<1> QED
    BY <1>11, <1>12

\* The dialog history gets the pair of the turn, or nothing.
LEMMA AppendDialogStep == TranscriptInv /\ AppendDialog => TranscriptInv'
<1> SUFFICES ASSUME TranscriptInv, AppendDialog PROVE TranscriptInv'
    OBVIOUS
<1> DEFINE m == Visible(transcript)
<1>1. /\ phase = "dialog" /\ EndTurn("ok")
      /\ UNCHANGED <<tFile, wFile, last, asked, unsaved, resetting, forgotten, crashes>>
      /\ \/ dialog' = IF CompletePair(m) THEN Append(dialog, <<m[Len(m) - 1], m[Len(m)], cur>>) ELSE dialog
         \/ dialog' = dialog
      /\ faults' \in {faults, faults + 1}
    BY DEF AppendDialog, hist, bounds
<1>2. cur \in Turns /\ status[cur] = "running" /\ resetting # "begun"
    BY <1>1, TranscriptAssumption DEF TranscriptInv, Shape, TurnAtWork, ResetIsEmpty
<1>3. \/ dialog' = dialog
      \/ \E q, r \in Rows : /\ q.by = "user" /\ r.by = "assistant"
                            /\ KindOf[cur] = "message" => q = User(cur)
                            /\ dialog' = Append(dialog, <<q, r, cur>>)
    BY <1>1, PairIsOfTurn
<1> HIDE DEF m
<1>4. dialog \in Seq(Rows \X Rows \X Turns)
    BY DEF TranscriptInv, Shape
<1>5. status' = [status EXCEPT ![cur] = "ok"] /\ status \in [Turns -> {"new", "running", "ok", "failed", "lost"}]
    BY <1>1 DEF EndTurn, TranscriptInv, Shape
<1>6. dialog' \in Seq(Rows \X Rows \X Turns) /\ DialogIsOfTurns'
    <2>1. CASE dialog' = dialog
        BY <1>2, <1>4, <1>5, <2>1 DEF TranscriptInv, DialogIsOfTurns
    <2>2. ASSUME NEW q \in Rows, NEW r \in Rows, q.by = "user", r.by = "assistant",
                 KindOf[cur] = "message" => q = User(cur), dialog' = Append(dialog, <<q, r, cur>>)
          PROVE  dialog' \in Seq(Rows \X Rows \X Turns) /\ DialogIsOfTurns'
        <3>1. PICK n \in Nat : n = Len(dialog) /\ DOMAIN dialog = 1 .. n
            BY <1>4
        <3>2. <<q, r, cur>> \in Rows \X Rows \X Turns
            BY <1>2
        <3>3. /\ dialog' \in Seq(Rows \X Rows \X Turns) /\ DOMAIN dialog' = 1 .. n + 1
              /\ dialog'[n + 1] = <<q, r, cur>> /\ \A i \in 1 .. n : dialog'[i] = dialog[i]
            BY <1>4, <2>2, <3>1, <3>2
        <3>4. \A i \in 1 .. n :
                  /\ dialog[i][3] \in Turns /\ status[dialog[i][3]] = "ok" /\ dialog[i][3] # cur
                  /\ dialog[i][1].by = "user" /\ dialog[i][2].by = "assistant"
                  /\ KindOf[dialog[i][3]] = "message" => dialog[i][1] = User(dialog[i][3])
                  /\ \A k \in 1 .. n : dialog[i][3] = dialog[k][3] => i = k
            BY <1>2, <3>1 DEF TranscriptInv, DialogIsOfTurns
        <3>5. ASSUME NEW i \in 1 .. n + 1
              PROVE  /\ dialog'[i][3] \in Turns /\ status'[dialog'[i][3]] = "ok"
                     /\ dialog'[i][1].by = "user" /\ dialog'[i][2].by = "assistant"
                     /\ KindOf[dialog'[i][3]] = "message" => dialog'[i][1] = User(dialog'[i][3])
            <4>1. CASE i = n + 1
                BY <1>2, <1>5, <2>2, <3>3, <4>1
            <4>2. CASE i \in 1 .. n
                BY <1>5, <3>3, <3>4, <4>2
            <4> QED
                BY <4>1, <4>2
        <3>6. ASSUME NEW i \in 1 .. n + 1, NEW k \in 1 .. n + 1, dialog'[i][3] = dialog'[k][3] PROVE i = k
            <4>1. dialog'[n + 1][3] = cur
                BY <3>3
            <4>2. CASE i \in 1 .. n /\ k \in 1 .. n
                BY <3>3, <3>4, <3>6, <4>2
            <4>3. CASE i = n + 1 \/ k = n + 1
                BY <3>3, <3>4, <3>6, <4>1, <4>3
            <4> QED
                BY <4>2, <4>3
        <3> QED
            BY <3>3, <3>5, <3>6 DEF DialogIsOfTurns
    <2> QED
        BY <1>3, <2>1, <2>2
<1>7. faults' \in Nat /\ (faults' = 0 => faults = 0) /\ crashes' \in Nat /\ asked' \in SUBSET Turns
    BY <1>1 DEF TranscriptInv, Shape
<1> QED
    BY <1>1, <1>2, <1>6, <1>7, EndStep

\* Every step keeps the invariant.
LEMMA NextInv == TranscriptInv /\ [Next]_vars => TranscriptInv'
<1> SUFFICES ASSUME TranscriptInv, [Next]_vars PROVE TranscriptInv'
    OBVIOUS
<1>1. ASSUME NEW t \in Turns, FactoryFails(t) \/ LocalTurn(t) PROVE TranscriptInv'
    BY <1>1, SkipStep
<1>2. ASSUME NEW t \in Turns, BeginReset(t) PROVE TranscriptInv'
    BY <1>2, BeginResetStep
<1>3. ASSUME NEW t \in Turns, BeginTurn(t) PROVE TranscriptInv'
    BY <1>3, BeginTurnStep
<1>4. CASE Truncate
    BY <1>4, TruncateStep
<1>5. CASE Write
    <2>1. saving \in {SaveOrder[1], SaveOrder[2]}
        BY <1>5 DEF Write, TranscriptInv, Shape
    <2> QED
        BY <1>5, <2>1, WriteTranscriptStep, WriteWorkingStep, WriteResetStep
<1>6. CASE SaveFails
    BY <1>6, SaveFailsStep
<1>7. CASE RunTurn
    BY <1>7, RunTurnStep
<1>8. CASE TurnFails \/ Crash
    BY <1>8, TurnIsCut
<1>9. CASE AppendDialog
    BY <1>9, AppendDialogStep
<1>10. CASE UNCHANGED vars
    BY <1>10 DEF vars, TranscriptInv, Shape, TurnAtWork, ResetIsEmpty, RequestIsLast, DialogIsOfTurns, LastIsOnFile,
                 RequestsAreThere, ContextIsSaid, Known, Due, OnFile
<1> QED
    BY <1>1, <1>2, <1>3, <1>4, <1>5, <1>6, <1>7, <1>8, <1>9, <1>10 DEF Next, Quiet

\* The invariant holds in every reachable state.
LEMMA InvAlways == Spec => []TranscriptInv
<1>1. Init => TranscriptInv
    BY InitInv
<1>2. TranscriptInv /\ [Next]_vars => TranscriptInv'
    BY NextInv
<1> QED
    BY <1>1, <1>2, PTL DEF Spec

-----------------------------------------------------------------------------
(* The theorems.                                                           *)

\* After a complete /reset no row of an earlier turn is in either file or in memory: engine.go
\* slashReset empties both lists and both saves put that on disk before the turn ends.
THEOREM ResetsForget == Spec => []ResetForgets
<1>1. TranscriptInv => ResetForgets
    <2> SUFFICES ASSUME TranscriptInv,
                        NEW r \in RowsOf(tFile) \cup RowsOf(wFile) \cup ToSet(transcript) \cup ToSet(messages)
                 PROVE  r.turn \notin forgotten
        BY DEF ResetForgets
    <2>1. r \in Known
        <3>1. \A q \in Seq(Known) : ToSet(q) \subseteq Known
            BY DEF ToSet
        <3>2. \A f \in Files(Known \cap Shown) : RowsOf(f) \subseteq Known
            <4>1. Seq(Known \cap Shown) \subseteq Seq(Known)
                BY SeqMonotonic
            <4> HIDE DEF Known
            <4> QED
                BY <3>1, <4>1 DEF Files, RowsOf, Intact
        <3>3. messages \in Seq(Known)
            BY SeqMonotonic DEF TranscriptInv, Shape
        <3> HIDE DEF Known
        <3> QED
            BY <3>1, <3>2, <3>3 DEF TranscriptInv, Shape
    <2> QED
        BY <2>1 DEF Known
<1> QED
    BY <1>1, InvAlways, PTL

\* As long as no write failed, every request and every answer in working_transcript.json is also
\* in transcript.json, after any number of crashes: engine.go saves the transcript first.
THEOREM ContextIsOnFile == Spec => []ContextWasSaid
<1>1. TranscriptInv => ContextWasSaid
    <2> SUFFICES ASSUME TranscriptInv, Intact(tFile), faults = 0, resetting = "no",
                        NEW r \in RowsOf(wFile), r.kind \in {"line", "text"}
                 PROVE  r \in RowsOf(tFile)
        BY DEF ContextWasSaid
    <2>1. wFile \in Seq(Said(RowsOf(tFile))) /\ r \in ToSet(wFile)
        BY DEF TranscriptInv, ContextIsSaid, Files, Intact, RowsOf
    <2>2. r \in Said(RowsOf(tFile))
        BY <2>1 DEF ToSet
    <2> QED
        BY <2>2 DEF Said
<1> QED
    BY <1>1, InvAlways, PTL

\* The request of a turn that ended well is in transcript.json exactly once, unless it could
\* not be written or a /reset followed: whatever crashed or was trimmed since.  One that looks
\* like an injected block never is (ToUserVisibleMessages).
THEOREM RequestsAreOnce == Spec => []RequestOnce
<1>1. TranscriptInv => RequestOnce
    <2> SUFFICES ASSUME TranscriptInv, resetting = "no", NEW t \in Turns, status[t] = "ok",
                        KindOf[t] \in {"message", "marked"}, t \notin forgotten \cup unsaved, Intact(tFile)
                 PROVE  Cardinality({i \in DOMAIN tFile : tFile[i] = User(t)}) =
                            IF KindOf[t] = "marked" THEN 0 ELSE 1
        BY DEF RequestOnce
    <2>1. tFile # Torn /\ OnFile = tFile
        BY DEF Intact, OnFile, LoadedTranscript
    <2>2. OnFile \in Seq(Rows)
        BY <2>1, LoadedFacts DEF TranscriptInv
    <2>3. CASE KindOf[t] = "message"
        <3>1. Once(OnFile, t)
            BY <2>1, <2>3 DEF TranscriptInv, RequestsAreThere, Due
        <3> QED
            BY <2>1, <2>2, <2>3, <3>1, OnceIsOne
    <2>4. CASE KindOf[t] = "marked"
        <3>1. tFile \in Seq(Shown)
            BY <2>1, SeqMonotonic DEF TranscriptInv, Shape, Files, Intact
        <3>2. \A i \in DOMAIN tFile : tFile[i] # User(t)
            BY <2>4, <3>1, RowFacts
        <3>3. {i \in DOMAIN tFile : tFile[i] = User(t)} = {}
            BY <3>2
        <3> QED
            BY <2>4, <3>3, FS_EmptySet
    <2> QED
        BY <2>3, <2>4
<1> QED
    BY <1>1, InvAlways, PTL

\* The dialog history has at most one pair per turn, a request and an answer behind it:
\* appendDialogHistoryIfComplete finds the pair of the turn at work, or none, as long as the
\* request is one that ToUserVisibleMessages keeps.
THEOREM PairsAreOfTurns == Spec => []DialogPairs
<1>1. TranscriptInv => DialogPairs
    BY DEF TranscriptInv, DialogIsOfTurns, DialogPairs
<1> QED
    BY <1>1, InvAlways, PTL

\* Between two /reset each whole content of transcript.json extends the one before it: no crash,
\* failed write or trimmed context makes a later save drop a row.
THEOREM TranscriptIsALog == Spec => TranscriptGrows
<1>1. TranscriptInv /\ TranscriptInv' /\ [Next]_vars =>
          [(Intact(tFile') /\ phase # "reset") => IsPrefix(last, tFile')]_vars
    <2> SUFFICES ASSUME TranscriptInv, Next, Intact(tFile'), phase # "reset" PROVE IsPrefix(last, tFile')
        OBVIOUS
    <2>1. CASE tFile' = tFile
        <3>1. last = tFile /\ tFile \in Seq(Shown)
            <4>1. tFile \in Seq(Known \cap Shown)
                BY <2>1 DEF TranscriptInv, Shape, Files, Intact
            <4>2. last = tFile
                BY <2>1 DEF TranscriptInv, LastIsOnFile, OnFile, LoadedTranscript, Intact
            <4> QED
                BY <4>1, <4>2, SeqMonotonic
        <3> QED
            BY <2>1, <3>1 DEF IsPrefix
    <2>2. CASE Write /\ saving = "transcript"
        <3>1. tFile' = Visible(transcript) /\ phase \in InTurn
            BY <2>2 DEF Write, SetFile, ContentOf, TranscriptInv, Shape, Savings, InTurn
        <3> QED
            BY <3>1 DEF TranscriptInv, LastIsOnFile
    <2>3. CASE tFile' # tFile /\ ~ (Write /\ saving = "transcript")
        BY <2>3 DEF Next, FactoryFails, LocalTurn, BeginReset, BeginTurn, Truncate, Write, SetFile, SaveFails, RunTurn,
                    TurnFails, AppendDialog, Crash, Quiet, files, vars, Intact
    <2> QED
        BY <2>1, <2>2, <2>3
<1> QED
    BY <1>1, InvAlways, PTL DEF Spec, TranscriptGrows

=============================================================================
