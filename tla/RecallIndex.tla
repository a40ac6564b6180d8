----------------------------- MODULE RecallIndex -----------------------------
(***************************************************************************)
(* The SQLite recall backend.  Every turn searches the markdown notes of   *)
(* its session through one index file that all sessions share: it prunes   *)
(* the rows of files that are gone, collects the files whose row is        *)
(* missing, dirty or has another time stamp, indexes them again one by     *)
(* one, and queries.  Maintenance and the tools of other turns write the   *)
(* notes meanwhile; only maintenance marks the row dirty.                  *)
(*                                                                         *)
(* A note's contents are a version number.  With                           *)
(* sessions.isolate_workspace each session has notes of its own; Shared    *)
(* ones (the user's memory directory) belong to every session.             *)
(***************************************************************************)
EXTENDS Naturals, FiniteSets

CONSTANTS
    Sessions, Notes,
    OwnerOf,        \* [Notes -> Sessions \cup {Shared}]
    Shared,
    MaxEdits,       \* bound on the writes and removals of notes
    MaxSecond       \* the clock's last second; stamps have that resolution

ASSUME RecallAssumption ==
    /\ OwnerOf \in [Notes -> Sessions \cup {Shared}] /\ Shared \notin Sessions \cup Notes
    /\ Notes \cap {"idle", "pruned", "sync", "shown"} = {}
    /\ {MaxEdits, MaxSecond} \subseteq Nat \ {0}

VARIABLES
    second,     \* the clock
    note,       \* each file: its version, 0 when it does not exist, and its stamp
    edits,      \* bounded by MaxEdits; numbers the versions
    unmarked,   \* notes maintenance has written and not yet marked
    meta,       \* the rows: whether there is one, its stamp and dirty mark, the version indexed
    rpc,        \* where the recall of each session stands
    todo,       \* the notes a recall still has to index
    got,        \* the version it has read, and the stamp it took after that
    shown,      \* one of the hits it puts before the model, whichever: the note and its version
    owed,       \* history: the version of each note that the recall has to reach
    raced       \* history: notes written between a read and its commit, or twice in a second

fileVars == <<second, note, edits, unmarked>>
recVars  == <<rpc, todo, got, shown, owed>>
riVars   == <<second, note, edits, unmarked, meta, rpc, todo, got, shown, owed, raced>>

NoRow  == [row |-> FALSE, at |-> 0, dirty |-> FALSE, ver |-> 0]
NotGot == [ver |-> 0, at |-> 0]
NoHit  == [of |-> Shared, ver |-> 0]
Blank  == [n \in Notes |-> 0]

-----------------------------------------------------------------------------
\* listMemoryMarkdownFiles of the session's layout
Visible(s) == {n \in Notes : OwnerOf[n] \in {s, Shared}}
Live(s)    == {n \in Visible(s) : note[n].ver # 0}

\* A variant for the mutation runs, which stands before what it replaces.
DirtyIgnored(n) == ~ meta[n].row \/ meta[n].at # note[n].at

\* sqliteRecallPathNeedsSync
NeedsSync(n) == ~ meta[n].row \/ meta[n].dirty \/ meta[n].at # note[n].at

\* querySQLiteRecallHits has no condition on the layout.
Indexed(s) == {n \in Notes : meta[n].row /\ meta[n].ver # 0}

-----------------------------------------------------------------------------
RecallInit ==
    /\ second = 1
    /\ note = [n \in Notes |-> [ver |-> 1, at |-> 1]]
    /\ edits = 0
    /\ unmarked = {}
    /\ meta = [n \in Notes |-> NoRow]
    /\ rpc = [s \in Sessions |-> "idle"] /\ todo = [s \in Sessions |-> {}]
    /\ got = [s \in Sessions |-> NotGot] /\ shown = [s \in Sessions |-> NoHit]
    /\ owed = [s \in Sessions |-> Blank]
    /\ raced = {}

\* A write by a tool, or by maintenance, which goes on to MarkDirty.  A second write in the
\* second of the first one leaves no other stamp.
WriteNote(n) ==
    /\ edits < MaxEdits /\ edits' = edits + 1
    /\ note' = [note EXCEPT ![n] = [ver |-> edits + 2, at |-> second]]
    /\ \/ unmarked' = unmarked \cup {n} /\ raced' = raced
       \/ /\ unmarked' = unmarked
          /\ raced' = IF note[n].at = second THEN raced \cup {n} ELSE raced
    /\ UNCHANGED <<second, meta, recVars>>

\* MarkDirty, on a database handle of its own.
MarkDirty(n) ==
    /\ n \in unmarked
    /\ unmarked' = unmarked \ {n}
    /\ meta' = [meta EXCEPT ![n] = IF @.row THEN [@ EXCEPT !.dirty = TRUE]
                                   ELSE [NoRow EXCEPT !.row = TRUE, !.dirty = TRUE]]
    /\ UNCHANGED <<second, note, edits, recVars, raced>>

RemoveNote(n) ==
    /\ note[n].ver # 0
    /\ edits < MaxEdits /\ edits' = edits + 1
    /\ note' = [note EXCEPT ![n].ver = 0]
    /\ UNCHANGED <<second, unmarked, meta, recVars, raced>>

NextSecond ==
    /\ second < MaxSecond /\ second' = second + 1
    /\ UNCHANGED <<note, edits, unmarked, meta, recVars, raced>>

\* pruneSQLiteRecallDeletedPaths: a row whose file the session's layout does not list goes.
Prune(s) ==
    /\ rpc[s] = "idle"
    /\ meta' = [n \in Notes |-> IF n \in Live(s) THEN meta[n] ELSE NoRow]
    /\ rpc' = [rpc EXCEPT ![s] = "pruned"]
    /\ UNCHANGED <<fileVars, shown, todo, got, owed, raced>>

Collect(s) ==
    /\ rpc[s] = "pruned"
    /\ todo' = [todo EXCEPT ![s] = {n \in Live(s) : NeedsSync(n)}]
    /\ owed' = [owed EXCEPT ![s] = [n \in Notes |-> IF n \in unmarked THEN 0 ELSE note[n].ver]]
    /\ rpc' = [rpc EXCEPT ![s] = "sync"]
    /\ UNCHANGED <<fileVars, meta, got, shown, raced>>

\* syncSQLiteRecallPath reads the file, then takes its stamp, then commits the chunks, the
\* stamp and dirty = 0.  A file that is gone ends the sync; the recall scans instead.
ReadNote(s, n) ==
    /\ rpc[s] = "sync" /\ n \in todo[s] /\ got[s].ver = 0 /\ note[n].ver # 0
    /\ got' = [got EXCEPT ![s].ver = note[n].ver]
    /\ rpc' = [rpc EXCEPT ![s] = n]
    /\ UNCHANGED <<fileVars, meta, todo, shown, owed, raced>>

StatNote(s, n) ==
    /\ rpc[s] = n /\ got[s].at = 0 /\ note[n].ver # 0
    /\ got' = [got EXCEPT ![s].at = note[n].at]
    /\ UNCHANGED <<fileVars, meta, rpc, todo, shown, owed, raced>>

Commit(s, n) ==
    /\ rpc[s] = n /\ got[s].at # 0
    /\ meta' = [meta EXCEPT ![n] = [row |-> TRUE, at |-> got[s].at, dirty |-> FALSE, ver |-> got[s].ver]]
    /\ raced' = IF note[n].ver = got[s].ver THEN raced \ {n} ELSE raced \cup {n}
    /\ todo' = [todo EXCEPT ![s] = @ \ {n}]
    /\ got' = [got EXCEPT ![s] = NotGot]
    /\ rpc' = [rpc EXCEPT ![s] = "sync"]
    /\ UNCHANGED <<fileVars, shown, owed>>

Show(s, hit) ==
    /\ shown' = [shown EXCEPT ![s] = hit]
    /\ rpc' = [rpc EXCEPT ![s] = "shown"]
    /\ todo' = [todo EXCEPT ![s] = {}] /\ got' = [got EXCEPT ![s] = NotGot]
    /\ owed' = [owed EXCEPT ![s] = [n \in Notes |-> IF n \in raced THEN 0 ELSE @[n]]]
    /\ UNCHANGED <<fileVars, meta, raced>>

\* The notes that match the words of the user, were not shown before and fit the budget
\* (RecallText) are any of those indexed.
Query(s) ==
    /\ rpc[s] = "sync" /\ todo[s] = {}
    /\ \E n \in Indexed(s) : Show(s, [of |-> n, ver |-> meta[n].ver])

\* The scan backend (the default), an error on the way, or no hit: scanRecallHits reads the
\* session's files.
Scan(s) ==
    /\ rpc[s] \in {"idle", "pruned", "sync"} \cup Notes
    /\ \/ Show(s, NoHit)
       \/ \E n \in Live(s) : Show(s, [of |-> n, ver |-> note[n].ver])

EndRecall(s) ==
    /\ rpc[s] = "shown"
    /\ rpc' = [rpc EXCEPT ![s] = "idle"]
    /\ shown' = [shown EXCEPT ![s] = NoHit]
    /\ owed' = [owed EXCEPT ![s] = Blank]
    /\ UNCHANGED <<fileVars, meta, todo, got, raced>>

RecallStep(s) ==
    \/ Prune(s) \/ Collect(s) \/ Query(s) \/ Scan(s) \/ EndRecall(s)
    \/ \E n \in Notes : ReadNote(s, n) \/ StatNote(s, n) \/ Commit(s, n)

RecallNext ==
    \/ \E n \in Notes : WriteNote(n) \/ MarkDirty(n) \/ RemoveNote(n)
    \/ NextSecond
    \/ \E s \in Sessions : RecallStep(s)

RecallSpec == RecallInit /\ [][RecallNext]_riVars

-----------------------------------------------------------------------------
(* Properties.                                                             *)

\* What a recall shows of a note of its session is no older than the note was when the
\* recall looked for files to index, unless it then waited for its mark, or had been written
\* between a read and its commit, or by a tool twice in one second.
ShownIsCurrent ==
    \A s \in Sessions : shown[s].of \in Visible(s) => shown[s].ver >= owed[s][shown[s].of]

\* Recall shows a session nothing but its own notes and the shared ones.
RecallIsOwn ==
    \A s \in Sessions : shown[s].of \in Visible(s) \cup {Shared}

=============================================================================
