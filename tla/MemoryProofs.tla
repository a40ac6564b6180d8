------------------------------ MODULE MemoryProofs -----------------------------
(***************************************************************************)
(* The recall index, for any sessions and notes, any number of writes and  *)
(* any interleaving of their recalls; what recall makes of any query, note *)
(* and body, and what it shows of any hits; and the policy files, for any  *)
(* call.                                                                   *)
(***************************************************************************)
EXTENDS RecallIndex, RecallText, PolicyPaths, SequenceFacts, TLAPS

Places == {"idle", "pruned", "sync", "shown"} \cup Notes
Rows   == [row : BOOLEAN, at : Nat, dirty : BOOLEAN, ver : Nat]

RecallTypes ==
    /\ second \in Nat /\ edits \in Nat
    /\ note \in [Notes -> [ver : Nat, at : Nat]]
    /\ meta \in [Notes -> Rows]
    /\ rpc \in [Sessions -> Places]
    /\ todo \in [Sessions -> SUBSET Notes]
    /\ got \in [Sessions -> [ver : Nat, at : Nat]]
    /\ shown \in [Sessions -> [of : Notes \cup {Shared}, ver : Nat]]
    /\ owed \in [Sessions -> [Notes -> Nat]]

\* Versions and stamps only go up, and no row is ahead of its file.
StampsGrow ==
    \A n \in Notes :
        /\ note[n].at <= second /\ meta[n].at <= note[n].at
        /\ note[n].ver <= edits + 1

\* What a recall holds of the note it is at; it shows nothing before its end.
InHand ==
    \A s \in Sessions :
        /\ rpc[s] \in Notes => got[s].ver # 0 /\ got[s].at <= note[rpc[s]].at
        /\ rpc[s] \notin Notes => got[s].at = 0
        /\ rpc[s] # "shown" => shown[s] = NoHit

\* What a recall owes is not newer than the note is.
OwedIsOld ==
    \A s \in Sessions, n \in Notes :
        /\ owed[s][n] <= edits + 1
        /\ note[n].ver # 0 => owed[s][n] <= note[n].ver

\* A row that would not be indexed again holds what the file holds, unless a race has left
\* it behind or its mark is still to come.
RowsAreTrusted ==
    \A n \in Notes :
        (note[n].ver # 0 /\ meta[n].row /\ ~ meta[n].dirty /\ meta[n].at = note[n].at
            /\ n \notin raced \cup unmarked)
        => meta[n].ver = note[n].ver

\* What a recall has indexed, or found in no need of it, is what it owes.
IndexedIsOwed ==
    \A s \in Sessions : rpc[s] \in {"sync"} \cup Notes =>
        \A n \in Visible(s) :
            (n \notin todo[s] /\ n \notin raced /\ meta[n].row /\ meta[n].ver # 0)
            => meta[n].ver >= owed[s][n]

RecallInv ==
    RecallTypes /\ StampsGrow /\ InHand /\ OwedIsOld /\ RowsAreTrusted /\ IndexedIsOwed /\ ShownIsCurrent

-----------------------------------------------------------------------------
\* What a session sees are notes, never the shared entry.
LEMMA VisibleNotes == \A s \in Sessions : Visible(s) \subseteq Notes /\ Shared \notin Visible(s)
BY RecallAssumption DEF Visible

\* Nothing is indexed, owed or shown at the start.
LEMMA InitInv == RecallInit => RecallInv
<1> SUFFICES ASSUME RecallInit PROVE RecallInv
    OBVIOUS
<1>1. RecallTypes
    BY DEF RecallInit, RecallTypes, Places, Rows, NoRow, NotGot, NoHit, Blank
<1>2. StampsGrow /\ InHand /\ OwedIsOld /\ RowsAreTrusted
    BY RecallAssumption DEF RecallInit, StampsGrow, InHand, OwedIsOld, RowsAreTrusted, NoRow, NotGot, Blank
<1>3. IndexedIsOwed /\ ShownIsCurrent
    BY RecallAssumption, VisibleNotes DEF RecallInit, IndexedIsOwed, ShownIsCurrent, NoHit
<1> QED
    BY <1>1, <1>2, <1>3 DEF RecallInv

-----------------------------------------------------------------------------
(* The files.                                                              *)

\* A note is written: its old row differs in the stamp, or the note is unmarked or raced.
LEMMA WriteKeepsInv ==
    ASSUME RecallInv, NEW n \in Notes, WriteNote(n)
    PROVE  RecallInv'
<1> USE DEF RecallInv
<1>1. /\ edits' = edits + 1 /\ note' = [note EXCEPT ![n] = [ver |-> edits + 2, at |-> second]]
      /\ UNCHANGED <<second, meta, recVars>>
      /\ unmarked \subseteq unmarked' /\ raced \subseteq raced'
      /\ n \in unmarked' \/ (note[n].at = second => n \in raced')
    BY DEF WriteNote
<1>2. RecallTypes'
    BY <1>1 DEF RecallTypes, recVars
<1>3. StampsGrow'
    <2>1. note'[n].at = second /\ note'[n].ver = edits + 2 /\ \A m \in Notes \ {n} : note'[m] = note[m]
        BY <1>1 DEF RecallTypes
    <2>2. meta[n].at <= second
        BY DEF StampsGrow, RecallTypes, Rows
    <2> QED
        BY <1>1, <2>1, <2>2 DEF StampsGrow, RecallTypes, Rows
<1>4. InHand'
    BY <1>1 DEF InHand, StampsGrow, RecallTypes, recVars, Places
<1>5. OwedIsOld'
    BY <1>1 DEF OwedIsOld, RecallTypes, recVars
<1>6. RowsAreTrusted'
    BY <1>1 DEF RowsAreTrusted, StampsGrow, RecallTypes, Rows
<1>7. IndexedIsOwed' /\ ShownIsCurrent'
    BY <1>1 DEF IndexedIsOwed, ShownIsCurrent, recVars, Visible
<1> QED
    BY <1>2, <1>3, <1>4, <1>5, <1>6, <1>7

\* A mark only takes trust from one row.
LEMMA MarkKeepsInv ==
    ASSUME RecallInv, NEW n \in Notes, MarkDirty(n)
    PROVE  RecallInv'
<1> USE DEF RecallInv
<1>1. /\ UNCHANGED <<second, note, edits, recVars, raced>> /\ unmarked' = unmarked \ {n}
      /\ meta' \in [Notes -> Rows]
      /\ \A m \in Notes \ {n} : meta'[m] = meta[m]
      /\ meta'[n].dirty /\ (meta'[n].ver = 0 \/ (meta[n].row /\ meta'[n].ver = meta[n].ver))
      /\ meta'[n].at = 0 \/ meta'[n].at = meta[n].at
    BY DEF MarkDirty, RecallTypes, Rows, NoRow
<1>2. RecallTypes' /\ InHand' /\ OwedIsOld'
    BY <1>1 DEF RecallTypes, InHand, OwedIsOld, recVars
<1>5. StampsGrow'
    BY <1>1 DEF StampsGrow, RecallTypes, Rows
<1>3. RowsAreTrusted'
    BY <1>1 DEF RowsAreTrusted
<1>4. IndexedIsOwed' /\ ShownIsCurrent'
    BY <1>1, VisibleNotes DEF IndexedIsOwed, ShownIsCurrent, recVars, Visible
<1> QED
    BY <1>2, <1>3, <1>4, <1>5

\* Nothing is claimed of the row of a note that is gone.
LEMMA RemoveKeepsInv ==
    ASSUME RecallInv, NEW n \in Notes, RemoveNote(n)
    PROVE  RecallInv'
<1> USE DEF RecallInv
<1>1. RecallTypes' /\ StampsGrow' /\ InHand' /\ OwedIsOld'
    BY DEF RemoveNote, RecallTypes, StampsGrow, InHand, OwedIsOld, recVars
<1>2. RowsAreTrusted'
    BY DEF RemoveNote, RowsAreTrusted, RecallTypes
<1>3. IndexedIsOwed' /\ ShownIsCurrent'
    BY DEF RemoveNote, IndexedIsOwed, ShownIsCurrent, recVars, Visible
<1> QED
    BY <1>1, <1>2, <1>3

\* Later seconds keep every stamp in the past.
LEMMA TimeKeepsInv ==
    ASSUME RecallInv, NextSecond
    PROVE  RecallInv'
BY DEF NextSecond, RecallInv, RecallTypes, StampsGrow, InHand, OwedIsOld, RowsAreTrusted,
       IndexedIsOwed, ShownIsCurrent, recVars, Visible

-----------------------------------------------------------------------------
(* The recalls.                                                            *)

\* Rows of notes that are gone go too.
LEMMA PruneKeepsInv ==
    ASSUME RecallInv, NEW s \in Sessions, Prune(s)
    PROVE  RecallInv'
<1> USE DEF RecallInv
<1>1. /\ UNCHANGED <<fileVars, shown, todo, got, owed, raced>>
      /\ rpc[s] = "idle" /\ rpc' = [rpc EXCEPT ![s] = "pruned"]
      /\ meta' \in [Notes -> Rows]
      /\ \A n \in Notes : meta'[n] = meta[n] \/ meta'[n] = NoRow
    BY DEF Prune, RecallTypes, Rows, NoRow
<1>2. "pruned" \notin Notes /\ "idle" \notin Notes
    BY RecallAssumption
<1>3. RecallTypes' /\ OwedIsOld'
    BY <1>1 DEF RecallTypes, OwedIsOld, fileVars, Places
<1>7. StampsGrow'
    <2>1. \A n \in Notes : meta'[n].at = meta[n].at \/ meta'[n].at = 0
        BY <1>1 DEF NoRow
    <2>2. UNCHANGED <<second, note, edits>>
        BY <1>1 DEF fileVars
    <2>3. \A n \in Notes : 0 <= note[n].at /\ 0 <= note[n].ver
        BY DEF RecallTypes
    <2> QED
        BY <2>1, <2>2, <2>3 DEF StampsGrow
<1>4. InHand'
    BY <1>1, <1>2 DEF InHand, RecallTypes, fileVars
<1>5. RowsAreTrusted'
    BY <1>1 DEF RowsAreTrusted, fileVars, NoRow
<1>6. IndexedIsOwed' /\ ShownIsCurrent'
    BY <1>1, <1>2, VisibleNotes DEF IndexedIsOwed, ShownIsCurrent, RecallTypes, Visible, NoRow
<1> QED
    BY <1>3, <1>4, <1>5, <1>6, <1>7

\* The collection says what the session owes: the notes it will read, and the rows it trusts.
LEMMA CollectKeepsInv ==
    ASSUME RecallInv, NEW s \in Sessions, Collect(s)
    PROVE  RecallInv'
<1> USE DEF RecallInv
<1>1. /\ UNCHANGED <<fileVars, meta, got, shown, raced>>
      /\ rpc[s] = "pruned" /\ rpc' = [rpc EXCEPT ![s] = "sync"]
      /\ todo' = [todo EXCEPT ![s] = {n \in Live(s) : NeedsSync(n)}]
      /\ owed' = [owed EXCEPT ![s] = [n \in Notes |-> IF n \in unmarked THEN 0 ELSE note[n].ver]]
    BY DEF Collect
<1>2. "pruned" \notin Notes /\ "sync" \notin Notes
    BY RecallAssumption
<1>3. RecallTypes' /\ StampsGrow'
    BY <1>1, VisibleNotes DEF RecallTypes, StampsGrow, fileVars, Places, Live
<1>4. InHand' /\ RowsAreTrusted'
    BY <1>1, <1>2 DEF InHand, RowsAreTrusted, RecallTypes, fileVars
<1>5. OwedIsOld'
    BY <1>1 DEF OwedIsOld, StampsGrow, RecallTypes, fileVars
<1>6. IndexedIsOwed'
    <2>1. ASSUME NEW n \in Visible(s), n \notin todo'[s], n \notin raced, meta[n].row, meta[n].ver # 0
          PROVE  meta[n].ver >= owed'[s][n]
        <3>1. n \in Notes
            BY VisibleNotes
        <3>2. owed'[s][n] = IF n \in unmarked THEN 0 ELSE note[n].ver
            BY <1>1, <3>1 DEF RecallTypes
        <3>3. CASE n \in unmarked \/ note[n].ver = 0
            BY <3>1, <3>2, <3>3 DEF RecallTypes, Rows
        <3>4. CASE n \notin unmarked /\ note[n].ver # 0
            <4>1. ~ NeedsSync(n)
                BY <1>1, <2>1, <3>4 DEF Live, RecallTypes
            <4>2. meta[n].ver = note[n].ver
                BY <2>1, <3>1, <3>4, <4>1 DEF NeedsSync, RowsAreTrusted
            <4> QED
                BY <3>1, <3>2, <3>4, <4>2 DEF RecallTypes, Rows
        <3> QED
            BY <3>3, <3>4
    <2>2. ASSUME NEW t \in Sessions \ {s} PROVE rpc'[t] = rpc[t] /\ todo'[t] = todo[t] /\ owed'[t] = owed[t]
        BY <1>1 DEF RecallTypes
    <2> QED
        BY <1>1, <2>1, <2>2 DEF IndexedIsOwed, Visible
<1>7. ShownIsCurrent'
    <2>1. shown[s] = NoHit
        BY <1>1 DEF InHand
    <2>2. \A t \in Sessions \ {s} : owed'[t] = owed[t]
        BY <1>1 DEF RecallTypes
    <2> QED
        BY <1>1, <2>1, <2>2, VisibleNotes DEF ShownIsCurrent, NoHit, Visible
<1> QED
    BY <1>3, <1>4, <1>5, <1>6, <1>7

\* What is read is the current version.
LEMMA ReadKeepsInv ==
    ASSUME RecallInv, NEW s \in Sessions, NEW n \in Notes, ReadNote(s, n)
    PROVE  RecallInv'
<1> USE DEF RecallInv
<1>1. /\ UNCHANGED <<fileVars, meta, todo, shown, owed, raced>>
      /\ rpc[s] = "sync" /\ rpc' = [rpc EXCEPT ![s] = n] /\ note[n].ver # 0
      /\ got' = [got EXCEPT ![s].ver = note[n].ver]
    BY DEF ReadNote
<1>2. Notes \cap {"idle", "pruned", "sync", "shown"} = {}
    BY RecallAssumption
<1>3. RecallTypes'
    BY <1>1 DEF RecallTypes, fileVars, Places
<1>4. StampsGrow' /\ OwedIsOld' /\ RowsAreTrusted'
    BY <1>1 DEF StampsGrow, OwedIsOld, RowsAreTrusted, fileVars
<1>5. InHand'
    <2>1. got'[s].at = 0 /\ got'[s].ver = note[n].ver /\ rpc'[s] = n
        BY <1>1, <1>2 DEF InHand, RecallTypes
    <2>2. \A t \in Sessions \ {s} : got'[t] = got[t] /\ rpc'[t] = rpc[t]
        BY <1>1 DEF RecallTypes
    <2> QED
        BY <1>1, <1>2, <2>1, <2>2 DEF InHand, RecallTypes, fileVars
<1>6. IndexedIsOwed' /\ ShownIsCurrent'
    BY <1>1 DEF IndexedIsOwed, ShownIsCurrent, RecallTypes, Visible
<1> QED
    BY <1>3, <1>4, <1>5, <1>6

\* The stamp is taken after the read, of the file as it now is.
LEMMA StatKeepsInv ==
    ASSUME RecallInv, NEW s \in Sessions, NEW n \in Notes, StatNote(s, n)
    PROVE  RecallInv'
<1> USE DEF RecallInv
<1>1. /\ UNCHANGED <<fileVars, meta, rpc, todo, shown, owed, raced>>
      /\ rpc[s] = n /\ got' = [got EXCEPT ![s].at = note[n].at]
    BY DEF StatNote
<1>2. RecallTypes'
    BY <1>1 DEF RecallTypes, fileVars
<1>3. StampsGrow' /\ OwedIsOld' /\ RowsAreTrusted' /\ IndexedIsOwed' /\ ShownIsCurrent'
    BY <1>1 DEF StampsGrow, OwedIsOld, RowsAreTrusted, IndexedIsOwed, ShownIsCurrent, fileVars, Visible
<1>4. InHand'
    <2>1. got'[s].at = note[n].at /\ got'[s].ver = got[s].ver
        BY <1>1 DEF RecallTypes
    <2>2. \A t \in Sessions \ {s} : got'[t] = got[t]
        BY <1>1 DEF RecallTypes
    <2> QED
        BY <1>1, <2>1, <2>2 DEF InHand, RecallTypes, fileVars
<1> QED
    BY <1>2, <1>3, <1>4

\* The row now holds what was read.  If that is what the file holds, no recall owes more;
\* otherwise the note is raced.
LEMMA CommitKeepsInv ==
    ASSUME RecallInv, NEW s \in Sessions, NEW n \in Notes, Commit(s, n)
    PROVE  RecallInv'
<1> USE DEF RecallInv
<1> DEFINE new == [row |-> TRUE, at |-> got[s].at, dirty |-> FALSE, ver |-> got[s].ver]
<1>1. /\ UNCHANGED <<fileVars, shown, owed>>
      /\ rpc[s] = n /\ rpc' = [rpc EXCEPT ![s] = "sync"]
      /\ meta' = [meta EXCEPT ![n] = new]
      /\ raced' = IF note[n].ver = got[s].ver THEN raced \ {n} ELSE raced \cup {n}
      /\ todo' = [todo EXCEPT ![s] = todo[s] \ {n}]
      /\ got' = [got EXCEPT ![s] = NotGot]
    BY DEF Commit
<1>2. "sync" \notin Notes
    BY RecallAssumption
<1>3. new \in Rows /\ got[s].ver # 0 /\ got[s].at <= note[n].at
    BY <1>1 DEF InHand, RecallTypes, Rows
<1>4. meta'[n] = new /\ \A m \in Notes \ {n} : meta'[m] = meta[m]
    BY <1>1 DEF RecallTypes
<1>5. new.row /\ ~ new.dirty /\ new.ver = got[s].ver /\ new.at = got[s].at
    OBVIOUS
<1> HIDE DEF new
<1>6. RecallTypes'
    BY <1>1, <1>3 DEF RecallTypes, fileVars, Places, NotGot
<1>7. StampsGrow' /\ OwedIsOld'
    BY <1>1, <1>3, <1>4, <1>5 DEF StampsGrow, OwedIsOld, fileVars
<1>8. InHand'
    <2>1. got'[s] = NotGot /\ rpc'[s] = "sync" /\ shown[s] = NoHit
        BY <1>1, <1>2, RecallAssumption DEF RecallTypes, InHand
    <2>2. \A t \in Sessions \ {s} : got'[t] = got[t] /\ rpc'[t] = rpc[t]
        BY <1>1 DEF RecallTypes
    <2> QED
        BY <1>1, <1>2, <2>1, <2>2 DEF InHand, fileVars, NotGot
<1>9. RowsAreTrusted'
    BY <1>1, <1>4, <1>5 DEF RowsAreTrusted, fileVars
<1>10. IndexedIsOwed'
    <2>1. ASSUME NEW t \in Sessions, rpc'[t] \in {"sync"} \cup Notes, NEW m \in Visible(t),
                 m \notin todo'[t], m \notin raced', meta'[m].row, meta'[m].ver # 0
          PROVE  meta'[m].ver >= owed[t][m]
        <3>1. m \in Notes
            BY VisibleNotes
        <3>2. CASE m = n
            BY <1>1, <1>3, <1>4, <1>5, <2>1, <3>1, <3>2 DEF OwedIsOld, RecallTypes
        <3>3. CASE m # n
            <4>1. rpc[t] \in {"sync"} \cup Notes /\ m \notin todo[t] /\ m \notin raced /\ meta'[m] = meta[m]
                BY <1>1, <1>4, <2>1, <3>1, <3>3 DEF RecallTypes
            <4> QED
                BY <2>1, <4>1 DEF IndexedIsOwed
        <3> QED
            BY <3>2, <3>3
    <2> QED
        BY <1>1, <2>1 DEF IndexedIsOwed, Visible
<1>11. ShownIsCurrent'
    BY <1>1 DEF ShownIsCurrent, Visible
<1> QED
    BY <1>6, <1>7, <1>8, <1>9, <1>10, <1>11

\* What is shown must be no older than owed, if the session sees it.
LEMMA ShowKeepsInv ==
    ASSUME RecallInv, NEW s \in Sessions, NEW hit \in [of : Notes \cup {Shared}, ver : Nat], Show(s, hit),
           hit.of \in Visible(s) /\ hit.of \notin raced => hit.ver >= owed[s][hit.of]
    PROVE  RecallInv'
<1> USE DEF RecallInv
<1>1. /\ UNCHANGED <<fileVars, meta, raced>>
      /\ shown' = [shown EXCEPT ![s] = hit] /\ rpc' = [rpc EXCEPT ![s] = "shown"]
      /\ todo' = [todo EXCEPT ![s] = {}] /\ got' = [got EXCEPT ![s] = NotGot]
      /\ owed' = [owed EXCEPT ![s] = [n \in Notes |-> IF n \in raced THEN 0 ELSE owed[s][n]]]
    BY DEF Show
<1>2. "shown" \notin Notes
    BY RecallAssumption
<1>3. \A t \in Sessions \ {s} :
          shown'[t] = shown[t] /\ rpc'[t] = rpc[t] /\ todo'[t] = todo[t] /\ got'[t] = got[t] /\ owed'[t] = owed[t]
    BY <1>1 DEF RecallTypes
<1>4. /\ shown'[s] = hit /\ rpc'[s] = "shown" /\ got'[s] = NotGot
      /\ \A n \in Notes : owed'[s][n] = IF n \in raced THEN 0 ELSE owed[s][n]
    BY <1>1 DEF RecallTypes
<1>5. RecallTypes'
    BY <1>1 DEF RecallTypes, fileVars, Places, NotGot
<1>6. StampsGrow' /\ RowsAreTrusted'
    BY <1>1 DEF StampsGrow, RowsAreTrusted, fileVars
<1>7. InHand'
    BY <1>1, <1>2, <1>3, <1>4 DEF InHand, fileVars, NotGot
<1>8. OwedIsOld'
    BY <1>1, <1>3, <1>4 DEF OwedIsOld, RecallTypes, fileVars
<1>9. IndexedIsOwed'
    BY <1>1, <1>2, <1>3, <1>4 DEF IndexedIsOwed, Visible
<1>10. ShownIsCurrent'
    <2>1. hit.of \in Visible(s) => hit.ver >= owed'[s][hit.of]
        BY <1>4, VisibleNotes
    <2> QED
        BY <1>3, <1>4, <2>1 DEF ShownIsCurrent, Visible
<1> QED
    BY <1>5, <1>6, <1>7, <1>8, <1>9, <1>10

\* The query shows a row of the index, and after the sync each row is at least as new as owed.
LEMMA QueryKeepsInv ==
    ASSUME RecallInv, NEW s \in Sessions, Query(s)
    PROVE  RecallInv'
<1>1. PICK n \in Indexed(s) : Show(s, [of |-> n, ver |-> meta[n].ver])
    BY DEF Query
<1> DEFINE hit == [of |-> n, ver |-> meta[n].ver]
<1>2. n \in Notes /\ meta[n].row /\ meta[n].ver # 0 /\ meta[n].ver \in Nat
    BY DEF Indexed, RecallInv, RecallTypes, Rows
<1>3. hit \in [of : Notes \cup {Shared}, ver : Nat] /\ hit.of = n /\ hit.ver = meta[n].ver
    BY <1>2
<1>4. n \in Visible(s) /\ n \notin raced => meta[n].ver >= owed[s][n]
    BY <1>2 DEF Query, RecallInv, IndexedIsOwed
<1> HIDE DEF hit
<1>5. Show(s, hit)
    BY <1>1 DEF hit
<1> QED
    BY <1>3, <1>4, <1>5, ShowKeepsInv

\* The scan reads the notes themselves.
LEMMA ScanKeepsInv ==
    ASSUME RecallInv, NEW s \in Sessions, Scan(s)
    PROVE  RecallInv'
<1>1. CASE Show(s, NoHit)
    <2>1. NoHit \in [of : Notes \cup {Shared}, ver : Nat] /\ NoHit.of \notin Visible(s)
        BY VisibleNotes DEF NoHit
    <2> QED
        BY <1>1, <2>1, ShowKeepsInv
<1>2. ASSUME NEW n \in Live(s), Show(s, [of |-> n, ver |-> note[n].ver]) PROVE RecallInv'
    <2> DEFINE hit == [of |-> n, ver |-> note[n].ver]
    <2>1. n \in Notes /\ note[n].ver # 0 /\ note[n].ver \in Nat
        BY VisibleNotes DEF Live, RecallInv, RecallTypes
    <2>2. hit \in [of : Notes \cup {Shared}, ver : Nat] /\ hit.of = n /\ hit.ver = note[n].ver
        BY <2>1
    <2>3. note[n].ver >= owed[s][n]
        BY <2>1 DEF RecallInv, OwedIsOld, RecallTypes
    <2>4. Show(s, hit)
        BY <1>2
    <2> HIDE DEF hit
    <2> QED
        BY <2>2, <2>3, <2>4, ShowKeepsInv
<1> QED
    BY <1>1, <1>2 DEF Scan

\* A recall that has ended owes nothing.
LEMMA EndKeepsInv ==
    ASSUME RecallInv, NEW s \in Sessions, EndRecall(s)
    PROVE  RecallInv'
<1> USE DEF RecallInv
<1>1. /\ UNCHANGED <<fileVars, meta, todo, got, raced>> /\ rpc[s] = "shown"
      /\ rpc' = [rpc EXCEPT ![s] = "idle"] /\ shown' = [shown EXCEPT ![s] = NoHit]
      /\ owed' = [owed EXCEPT ![s] = Blank]
    BY DEF EndRecall
<1>2. Notes \cap {"idle", "pruned", "sync", "shown"} = {}
    BY RecallAssumption
<1>3. RecallTypes'
    BY <1>1 DEF RecallTypes, fileVars, Places, Blank, NoHit
<1>4. StampsGrow' /\ RowsAreTrusted'
    BY <1>1 DEF StampsGrow, RowsAreTrusted, fileVars
<1>5. InHand'
    BY <1>1, <1>2 DEF InHand, RecallTypes, fileVars
<1>6. OwedIsOld'
    BY <1>1 DEF OwedIsOld, RecallTypes, fileVars, Blank
<1>7. IndexedIsOwed'
    BY <1>1, <1>2 DEF IndexedIsOwed, RecallTypes, Visible
<1>8. ShownIsCurrent'
    BY <1>1, VisibleNotes DEF ShownIsCurrent, RecallTypes, NoHit, Visible
<1> QED
    BY <1>3, <1>4, <1>5, <1>6, <1>7, <1>8

-----------------------------------------------------------------------------
\* Every step keeps the invariant.
LEMMA NextKeepsInv == RecallInv /\ [RecallNext]_riVars => RecallInv'
<1> SUFFICES ASSUME RecallInv, [RecallNext]_riVars PROVE RecallInv'
    OBVIOUS
<1>1. ASSUME NEW n \in Notes, WriteNote(n) \/ MarkDirty(n) \/ RemoveNote(n) PROVE RecallInv'
    BY <1>1, WriteKeepsInv, MarkKeepsInv, RemoveKeepsInv
<1>2. CASE NextSecond
    BY <1>2, TimeKeepsInv
<1>3. ASSUME NEW s \in Sessions, RecallStep(s) PROVE RecallInv'
    BY <1>3, PruneKeepsInv, CollectKeepsInv, QueryKeepsInv, ScanKeepsInv, EndKeepsInv,
       ReadKeepsInv, StatKeepsInv, CommitKeepsInv DEF RecallStep
<1>4. CASE UNCHANGED riVars
    BY <1>4 DEF riVars, RecallInv, RecallTypes, StampsGrow, InHand, OwedIsOld, RowsAreTrusted,
                IndexedIsOwed, ShownIsCurrent, Visible
<1> QED
    BY <1>1, <1>2, <1>3, <1>4 DEF RecallNext

\* However recalls of sessions, writes, marks and removals interleave, what a recall shows of
\* a note is what it owes, or newer (recall_backend.go:137-170, 262-384, 533-606, 645-682).
THEOREM RecallShowsCurrent == RecallSpec => []ShownIsCurrent
<1>1. RecallInv => ShownIsCurrent
    BY DEF RecallInv
<1> QED
    BY InitInv, NextKeepsInv, <1>1, PTL DEF RecallSpec

-----------------------------------------------------------------------------
(* Where the write_behavior_policy tool puts its text, for any names,      *)
(* sessions and layouts of their directories.                              *)

\* The loop of CleanRel: its values, and the values of its first turns.
CleanLoop(g, p) == g = [n \in 0 .. Len(p) |-> IF n = 0 THEN <<>> ELSE Cleaned(g[n - 1], p[n])]

\* A cleaned path goes up first, if at all, and never stays.
IsClean(p) ==
    /\ \A i \in 1 .. Len(p) : p[i] # "."
    /\ \A i \in 1 .. Len(p) : p[i] = ".." => \A j \in 1 .. i : p[j] = ".."

\* The cleaned paths over some segments.
CleanPaths(S) == {p \in Seq(S) : IsClean(p)}

\* One more segment keeps a path clean.
LEMMA CleanedIsClean ==
    ASSUME NEW S, NEW p \in CleanPaths(S), NEW s \in S
    PROVE  Cleaned(p, s) \in CleanPaths(S)
<1>1. p \in Seq(S) /\ Len(p) \in Nat /\ IsClean(p)
    BY DEF CleanPaths
<1>2. CASE s = "."
    BY <1>2 DEF Cleaned
<1>3. CASE s = ".." /\ p # <<>> /\ Last(p) # ".."
    <2>1. Front(p) \in Seq(S) /\ Len(Front(p)) \in 0 .. Len(p) /\ \A i \in 1 .. Len(Front(p)) : Front(p)[i] = p[i]
        BY <1>1, <1>3 DEF Front
    <2>2. IsClean(Front(p))
        BY <1>1, <2>1 DEF IsClean
    <2> QED
        BY <1>3, <2>1, <2>2 DEF Cleaned, CleanPaths
<1>4. CASE s # "." /\ ~ (s = ".." /\ p # <<>> /\ Last(p) # "..")
    <2>1. /\ Append(p, s) \in Seq(S) /\ Len(Append(p, s)) = Len(p) + 1
          /\ Append(p, s)[Len(p) + 1] = s /\ \A i \in 1 .. Len(p) : Append(p, s)[i] = p[i]
        BY <1>1
    <2>2. ASSUME s = ".." PROVE \A j \in 1 .. Len(p) : p[j] = ".."
        <3>1. CASE p = <<>>
            BY <3>1
        <3>2. CASE p # <<>>
            <4>1. Len(p) \in 1 .. Len(p) /\ p[Len(p)] = ".."
                BY <1>1, <1>4, <2>2, <3>2 DEF Last
            <4> QED
                BY <1>1, <4>1 DEF IsClean
        <3> QED
            BY <3>1, <3>2
    <2> DEFINE w == Append(p, s)
    <2> HIDE DEF w
    <2>3. IsClean(w)
        <3>1. \A i \in 1 .. Len(p) + 1 : i \in 1 .. Len(p) \/ i = Len(p) + 1
            BY <1>1
        <3>2. ASSUME NEW i \in 1 .. Len(w) PROVE w[i] # "."
            BY <1>1, <1>4, <2>1, <3>1 DEF IsClean, w
        <3>3. ASSUME NEW i \in 1 .. Len(w), w[i] = "..", NEW j \in 1 .. i PROVE w[j] = ".."
            <4>1. CASE i \in 1 .. Len(p)
                <5>1. p[i] = ".." /\ j \in 1 .. Len(p)
                    BY <1>1, <2>1, <3>3, <4>1 DEF w
                <5> QED
                    BY <1>1, <2>1, <4>1, <5>1 DEF IsClean, w
            <4>2. CASE i = Len(p) + 1
                <5>1. s = ".."
                    BY <2>1, <3>3, <4>2 DEF w
                <5>2. CASE j = i
                    BY <3>3, <5>2
                <5>3. CASE j \in 1 .. Len(p)
                    BY <2>1, <2>2, <5>1, <5>3 DEF w
                <5> QED
                    BY <1>1, <4>2, <5>2, <5>3
            <4> QED
                BY <2>1, <3>1, <4>1, <4>2 DEF w
        <3> QED
            BY <3>2, <3>3 DEF IsClean
    <2> QED
        BY <1>4, <2>1, <2>3 DEF Cleaned, CleanPaths, w
<1> QED
    BY <1>2, <1>3, <1>4

\* filepath.Clean of any relative path.
LEMMA CleanRelFacts ==
    ASSUME NEW S, NEW p \in Seq(S)
    PROVE  CleanRel(p) \in CleanPaths(S)
<1> DEFINE f == [c \in CleanPaths(S) |-> [s \in S |-> Cleaned(c, s)]]
           ran == CHOOSE g : CleanLoop(g, p)
<1>1. f \in [CleanPaths(S) -> [S -> CleanPaths(S)]]
    BY CleanedIsClean
<1>2. <<>> \in CleanPaths(S) /\ Len(p) \in Nat
    BY DEF CleanPaths, IsClean
<1>3. \A c \in CleanPaths(S), s \in S : f[c][s] = Cleaned(c, s)
    OBVIOUS
<1> HIDE DEF f
<1>4. PICK g \in [0 .. Len(p) -> CleanPaths(S)] : IsRun(g, f, <<>>, p, Len(p))
    BY <1>1, <1>2, RunExists
<1>5. CleanLoop(g, p)
    <2>1. \A n \in 1 .. Len(p) : n - 1 \in 0 .. Len(p) /\ n \in 0 .. Len(p) /\ p[n] \in S
        BY <1>2
    <2>2. \A n \in 1 .. Len(p) : g[n - 1] \in CleanPaths(S) /\ g[n] = Cleaned(g[n - 1], p[n])
        BY <1>3, <1>4, <2>1 DEF IsRun
    <2>3. \A n \in 0 .. Len(p) : n # 0 => n \in 1 .. Len(p)
        BY <1>2
    <2>4. \A n \in 0 .. Len(p) : g[n] = IF n = 0 THEN <<>> ELSE Cleaned(g[n - 1], p[n])
        BY <1>4, <2>2, <2>3 DEF IsRun
    <2> QED
        BY <2>4 DEF CleanLoop
<1>6. CleanLoop(ran, p)
    BY <1>5
<1> HIDE DEF ran
<1> DEFINE K == {n \in Nat : n <= Len(p) => ran[n] \in CleanPaths(S)}
<1>7. Nat \subseteq K
    <2>1. 0 \in K
        BY <1>2, <1>6 DEF CleanLoop
    <2>2. ASSUME NEW n \in Nat, n \in K PROVE n + 1 \in K
        <3> SUFFICES ASSUME n + 1 <= Len(p) PROVE ran[n + 1] \in CleanPaths(S)
            OBVIOUS
        <3>1. n + 1 \in 0 .. Len(p) /\ n + 1 # 0 /\ (n + 1) - 1 = n /\ p[n + 1] \in S /\ ran[n] \in CleanPaths(S)
            BY <1>2, <2>2
        <3>2. ran[n + 1] = Cleaned(ran[n], p[n + 1])
            BY <1>6, <3>1 DEF CleanLoop
        <3> QED
            BY <3>1, <3>2, CleanedIsClean
    <2> HIDE DEF K
    <2> QED
        BY <2>1, <2>2, SetInduction
<1>8. ran[Len(p)] \in CleanPaths(S)
    BY <1>2, <1>7
<1>9. CleanRel(p) = ran[Len(p)]
    BY DEF CleanRel, CleanLoop, ran
<1> QED
    BY <1>8, <1>9

Paths == Seq(Segments)

\* The names of the code are segments.
LEMMA Names == FileNames \subseteq Segments /\ Base \in Paths
BY PathsAssumption DEF FileNames, Segments, Paths

\* What is put behind a path lies under it.
LEMMA UnderFacts ==
    ASSUME NEW p \in Paths, NEW q \in Paths
    PROVE  Under(p \o q, p) /\ p \o q \in Paths
<1>1. p \o q \in Paths /\ Len(p \o q) = Len(p) + Len(q) /\ Len(p) \in Nat /\ Len(q) \in Nat
    BY DEF Paths
<1>2. \A i \in 1 .. Len(p) : (p \o q)[i] = p[i]
    BY DEF Paths
<1> DEFINE w == p \o q
<1>3. SubSeq(p, 1, Len(p)) = SubSeq(w, 1, Len(p))
    <2> HIDE DEF w
    <2> QED
        BY <1>1, <1>2 DEF w, Paths
<1> QED
    BY <1>1, <1>3 DEF Under, IsPrefix

\* What lies under a path begins with it, and is no shorter.
LEMMA UnderBegins ==
    ASSUME NEW p \in Paths, NEW q \in Paths, Under(q, p)
    PROVE  Len(p) <= Len(q) /\ \A i \in 1 .. Len(p) : q[i] = p[i]
<1>1. Len(p) <= Len(q) /\ SubSeq(p, 1, Len(p)) = SubSeq(q, 1, Len(p)) /\ Len(p) \in Nat /\ Len(q) \in Nat
    BY DEF Under, IsPrefix, Paths
<1>2. \A i \in 1 .. Len(p) : SubSeq(p, 1, Len(p))[i] = p[i] /\ SubSeq(q, 1, Len(p))[i] = q[i]
    BY <1>1 DEF Paths
<1> QED
    BY <1>1, <1>2

\* Only a path that begins with another one fails to be off it.
LEMMA BeginsUnder ==
    ASSUME NEW p \in Paths, NEW q \in Paths, Len(p) <= Len(q), \A i \in 1 .. Len(p) : q[i] = p[i]
    PROVE  Under(q, p)
<1>1. SubSeq(p, 1, Len(p)) = SubSeq(q, 1, Len(p))
    BY DEF Paths
<1> QED
    BY <1>1 DEF Under, IsPrefix

\* Two segments put in front of a path, one after the other.
LEMMA AppendedPath ==
    ASSUME NEW p \in Paths, NEW a \in Segments
    PROVE  Append(p, a) = p \o <<a>>
BY AppendIsConcat DEF Paths

\* The places of a path with one more segment.
LongerBy(w, p, a) ==
    /\ w \in Paths /\ Len(w) = Len(p) + 1 /\ Len(p) \in Nat
    /\ w[Len(p) + 1] = a /\ \A i \in 1 .. Len(p) : w[i] = p[i]

\* Append adds the one at the end.
LEMMA AppendIsLonger ==
    ASSUME NEW p \in Paths, NEW a \in Segments
    PROVE  LongerBy(Append(p, a), p, a)
<1>1. Append(p, a) \in Paths /\ Len(Append(p, a)) = Len(p) + 1 /\ Len(p) \in Nat
    BY DEF Paths
<1>2. Append(p, a)[Len(p) + 1] = a
    BY DEF Paths
<1>3. \A i \in 1 .. Len(p) : Append(p, a)[i] = p[i]
    BY DEF Paths
<1> DEFINE w == Append(p, a)
<1>4. w \in Paths /\ Len(w) = Len(p) + 1 /\ Len(p) \in Nat
    BY <1>1
<1>5. w[Len(p) + 1] = a
    BY <1>2
<1>6. \A i \in 1 .. Len(p) : w[i] = p[i]
    BY <1>3
<1> HIDE DEF w
<1>7. LongerBy(w, p, a)
    BY <1>4, <1>5, <1>6 DEF LongerBy
<1> QED
    BY <1>7 DEF w

\* The parts of it.
LEMMA AppendParts ==
    ASSUME NEW p \in Paths, NEW a \in Segments
    PROVE  Front(Append(p, a)) = p /\ Last(Append(p, a)) = a
<1> DEFINE w == Append(p, a)
<1>1. LongerBy(w, p, a)
    BY AppendIsLonger
<1> HIDE DEF w
<1>2. SubSeq(w, 1, Len(w) - 1) = p
    BY <1>1 DEF Paths, LongerBy
<1>3. Front(w) = p /\ Last(w) = a
    BY <1>1, <1>2 DEF Front, Last, LongerBy
<1> QED
    BY <1>3 DEF w

\* The layout of a session of each kind.
LEMMA Layouts ==
    ASSUME NEW c \in Contexts
    PROVE  LET lay == LayoutOf(c)
               root == SessionRoot(c)
           IN /\ root \in Paths /\ DotOrDataRoot(lay) = root
              /\ lay.agents = AgentDirs(root)
              /\ lay.ir = c.ir
              /\ lay.project = Append(root, "memory")
              /\ ~ lay.host => lay.cwd = root
<1>1. c.cwd \in Paths /\ c.ir \in Paths
    BY PathsAssumption DEF Paths
<1>2. CASE ~ c.flat
    BY <1>1, <1>2, PathsAssumption DEF LayoutOf, RepoLayout, SessionRoot, DotOrDataRoot
<1>3. CASE c.flat /\ c.ir # <<>>
    BY <1>1, <1>3, PathsAssumption DEF LayoutOf, IMLayout, SessionDotLayout, RepoLayout, SessionRoot, DotOrDataRoot
<1>4. CASE c.flat /\ c.ir = <<>>
    BY <1>1, <1>4, PathsAssumption DEF LayoutOf, SessionDotLayout, RepoLayout, SessionRoot, DotOrDataRoot
<1> QED
    BY <1>2, <1>3, <1>4

\* Three paths put together.
LEMMA ThreePaths ==
    ASSUME NEW p \in Paths, NEW q \in Paths, NEW r \in Paths
    PROVE  (p \o q) \o r = p \o (q \o r)
BY ConcatAssociative DEF Paths

\* The last place of two paths put together.
LEMMA ConcatEnds ==
    ASSUME NEW p \in Paths, NEW q \in Paths, q # <<>>
    PROVE  Last(p \o q) = Last(q) /\ Len(p \o q) = Len(p) + Len(q)
<1>1. Len(p) \in Nat /\ Len(q) \in Nat \ {0}
    BY DEF Paths
<1>2. Len(p \o q) = Len(p) + Len(q)
    BY DEF Paths
<1>3. (p \o q)[Len(p) + Len(q)] = q[Len(q)]
    BY <1>1, <1>2 DEF Paths
<1> DEFINE w == p \o q
<1>4. Len(w) = Len(p) + Len(q)
    BY <1>2
<1>5. w[Len(p) + Len(q)] = q[Len(q)]
    BY <1>3
<1> HIDE DEF w
<1>6. Last(w) = Last(q)
    BY <1>4, <1>5 DEF Last
<1> QED
    BY <1>2, <1>6 DEF w

\* A file in the rules or the skills of a session.
InDir(root, k, tail) == root \o <<k>> \o tail
IsInDir(c, root, k, tail, path) ==
    /\ path \in Paths /\ Under(path, Append(root, k)) /\ Under(path, root) /\ Audited(LayoutOf(c), path)
    /\ Len(path) = Len(root) + 1 + Len(tail) /\ Last(path) = Last(tail)

\* Such a file lies in the session, and a write of it is in the audit log.
LEMMA RuleIsRead ==
    ASSUME NEW c \in Contexts, NEW k \in {"rules", "skills"}, NEW tail \in Paths, tail # <<>>
    PROVE  IsInDir(c, SessionRoot(c), k, tail, InDir(SessionRoot(c), k, tail))
<1> DEFINE lay  == LayoutOf(c)
           root == SessionRoot(c)
           dir  == Append(root, k)
           path == InDir(root, k, tail)
<1>1. path = root \o <<k>> \o tail
    BY DEF InDir
<1>2. root \in Paths /\ DotOrDataRoot(lay) = root
    BY Layouts
<1>3. k \in Segments /\ Base \in Paths
    BY Names DEF FileNames
<1>4a. dir = root \o <<k>> /\ LongerBy(dir, root, k)
    BY <1>2, <1>3, AppendedPath, AppendIsLonger
<1> HIDE DEF lay, root, dir, path
<1>4. dir \in Paths /\ Len(dir) = Len(root) + 1 /\ Len(root) \in Nat
    BY <1>4a DEF LongerBy
<1>5. path = dir \o tail /\ path \in Paths /\ Under(path, dir)
    BY <1>1, <1>4, <1>4a, UnderFacts
<1>6. <<k>> \o tail \in Paths /\ path = root \o (<<k>> \o tail)
    BY <1>1, <1>2, <1>3 DEF Paths
<1>7. Under(path, root)
    BY <1>2, <1>6, UnderFacts
<1>8. Len(path) = Len(root) + 1 + Len(tail) /\ Last(path) = Last(tail)
    BY <1>4, <1>5, ConcatEnds
<1>9. ~ Under(path, Append(Base, "projects"))
    <2> DEFINE projects == Append(Base, "projects")
    <2>1. projects \in Paths /\ Len(projects) = Len(Base) + 1 /\ Len(Base) \in Nat
          /\ projects[Len(projects)] = "projects" /\ \A i \in 1 .. Len(Base) : projects[i] = Base[i]
        <3>1. "projects" \in Segments
            BY Names DEF FileNames
        <3> QED
            <4>1. LongerBy(projects, Base, "projects")
                BY <1>3, <3>1, AppendIsLonger
            <4> HIDE DEF projects
            <4> QED
                BY <4>1 DEF LongerBy
    <2>2. ~ Under(root, projects) /\ ~ Under(Base, dir)
        BY PathsAssumption, Zenon DEF Under, projects, dir, root
    <2> HIDE DEF projects
    <2> SUFFICES ASSUME Under(path, projects) PROVE FALSE
        BY DEF projects
    <2>3. Len(projects) <= Len(path) /\ \A i \in 1 .. Len(projects) : path[i] = projects[i]
        BY <1>5, <2>1, UnderBegins
    <2>4. \A i \in 1 .. Len(dir) : path[i] = dir[i]
        BY <1>4, <1>5, UnderBegins
    <2>5. Len(dir) = Len(root) + 1 /\ dir[Len(dir)] = k /\ \A i \in 1 .. Len(root) : dir[i] = root[i]
        BY <1>4a, <1>4 DEF LongerBy
    <2>6. CASE Len(projects) <= Len(root)
        <3>1. \A i \in 1 .. Len(projects) : root[i] = projects[i]
            BY <1>4, <2>1, <2>3, <2>4, <2>5, <2>6
        <3> QED
            BY <1>2, <2>1, <2>2, <2>6, <3>1, BeginsUnder
    <2>7. CASE Len(projects) = Len(dir)
        <3>1. path[Len(dir)] = k /\ path[Len(dir)] = "projects"
            BY <1>4, <2>1, <2>3, <2>4, <2>5, <2>7
        <3> QED
            BY <3>1
    <2>8. CASE Len(dir) <= Len(Base)
        <3>1. \A i \in 1 .. Len(dir) : i \in 1 .. Len(Base) /\ i \in 1 .. Len(projects)
            BY <1>4, <2>1, <2>8
        <3>2. \A i \in 1 .. Len(dir) : Base[i] = dir[i]
            BY <2>1, <2>3, <2>4, <3>1
        <3> QED
            BY <1>3, <1>4, <2>2, <2>8, <3>2, BeginsUnder
    <2> QED
        BY <1>4, <2>1, <2>6, <2>7, <2>8
<1>10. Audited(lay, path)
    <2>1. Under(path, Append(root, k))
        BY <1>5 DEF dir
    <2> QED
        BY <1>2, <1>9, <2>1 DEF Audited
<1> QED
    BY <1>5, <1>7, <1>8, <1>10 DEF IsInDir, lay, root, dir, path

\* What PolicyIsRead says of a path.
IsReadBack(a, lay, path) ==
    /\ Valid(lay, path, a.target) /\ path \in Seq(Segments)
    /\ Under(path, DotOrDataRoot(lay)) \/ Under(path, PublicRoot(lay))
    /\ \/ InPrompt(lay, path) \/ InCatalog(a.ctx, path)
       \/ a.target = "agent_memory" /\ (a.agent # "default" \/ a.name # <<>>)
    /\ a.target \in {"rule", "skill", "agent_md"} => Audited(lay, path)
    /\ a.target = "agent_memory" /\ a.agent = "default" => Readable(a.ctx, path)

\* A name without a separator is one segment.
LEMMA NameFacts ==
    ASSUME NEW name \in Seq(Words), IsName(name)
    PROVE  name \in Paths /\ Len(name) = 1 /\ name # <<>>
<1>1. Len(name) = 1 /\ name[1] \in Segments
    BY DEF IsName, Segments
<1>2. \A i \in 1 .. Len(name) : name[i] \in Segments
    BY <1>1
<1>3. name \in Seq(Segments)
    BY <1>2
<1> QED
    BY <1>1, <1>3 DEF Paths

\* What is left of a relative name goes down only.
LEMMA RelativeFacts ==
    ASSUME NEW name \in Seq(Words), Relative(name) # Nowhere
    PROVE  Relative(name) \in Paths /\ Relative(name) # <<>> /\ (name = <<>> => Relative(name) = <<"MEMORY.md">>)
<1>1. CASE name = <<>>
    <2>1. "MEMORY.md" \in Segments
        BY Names DEF FileNames
    <2> QED
        BY <1>1, <2>1 DEF Relative, Paths
<1>2. CASE name # <<>>
    <2> DEFINE c == CleanRel(name)
    <2>1. c \in Seq(Words) /\ IsClean(c)
        BY CleanRelFacts DEF CleanPaths
    <2>2. Relative(name) = c /\ c # <<>> /\ c[1] # ".."
        BY <1>2 DEF Relative, Nowhere
    <2> HIDE DEF c
    <2>3. 1 \in 1 .. Len(c)
        BY <2>1, <2>2
    <2>4. ASSUME NEW i \in 1 .. Len(c) PROVE c[i] \in Segments
        <3>1. 1 \in 1 .. i /\ c[i] \in Words
            BY <2>1
        <3>2. c[i] # "." /\ c[i] # ".."
            BY <2>1, <2>2, <3>1 DEF IsClean
        <3> QED
            BY <3>1, <3>2 DEF Segments
    <2>5. c \in Paths
        BY <2>1, <2>4 DEF Paths
    <2> QED
        BY <1>2, <2>2, <2>5
<1> QED
    BY <1>1, <1>2

\* Rules are in the prompt.
LEMMA RulesAreRead ==
    ASSUME NEW a \in Calls, a.target = "rule", Resolve(LayoutOf(a.ctx), a) # Nowhere
    PROVE  IsReadBack(a, LayoutOf(a.ctx), Resolve(LayoutOf(a.ctx), a))
<1> DEFINE lay  == LayoutOf(a.ctx)
           root == SessionRoot(a.ctx)
           path == InDir(root, "rules", a.name)
<1>1. a.ctx \in Contexts /\ a.name \in Seq(Words)
    BY PathsAssumption DEF Calls
<1>2. root \in Paths /\ DotOrDataRoot(lay) = root /\ (~ lay.host => lay.cwd = root)
    BY <1>1, Layouts
<1>3. Resolve(lay, a) = path /\ IsName(a.name)
    BY DEF Resolve, InDir
<1>4. a.name \in Paths /\ a.name # <<>>
    BY <1>1, <1>3, NameFacts
<1>5. path \in Paths /\ Under(path, Append(root, "rules")) /\ Under(path, root) /\ Audited(lay, path)
    BY <1>1, <1>4, RuleIsRead DEF IsInDir
<1> HIDE DEF lay, root, path
<1>6. InstructionOf(root, path)
    BY <1>5 DEF InstructionOf
<1>7. Len(root) \in 0 .. Len(root) /\ SubSeq(root, 1, Len(root)) = root
    BY <1>2 DEF Paths
<1>8. InPrompt(lay, path)
    BY <1>2, <1>6, <1>7 DEF InPrompt
<1>9. Valid(lay, path, "rule")
    BY <1>2, <1>5 DEF Valid
<1>10. IsReadBack(a, lay, path)
    BY <1>2, <1>5, <1>8, <1>9 DEF IsReadBack, Paths
<1> QED
    BY <1>3, <1>10 DEF lay

\* Skills are in the catalog.
LEMMA SkillsAreRead ==
    ASSUME NEW a \in Calls, a.target = "skill", Resolve(LayoutOf(a.ctx), a) # Nowhere
    PROVE  IsReadBack(a, LayoutOf(a.ctx), Resolve(LayoutOf(a.ctx), a))
<1> DEFINE lay  == LayoutOf(a.ctx)
           root == SessionRoot(a.ctx)
           dir  == Append(root, "skills")
           tail == a.name \o <<"SKILL.md">>
           path == InDir(root, "skills", tail)
<1>1. a.ctx \in Contexts /\ a.name \in Seq(Words)
    BY PathsAssumption DEF Calls
<1>2. root \in Paths /\ DotOrDataRoot(lay) = root
    BY <1>1, Layouts
<1>3. Resolve(lay, a) = root \o <<"skills">> \o a.name \o <<"SKILL.md">> /\ IsName(a.name)
    BY DEF Resolve
<1>4. a.name \in Paths /\ Len(a.name) = 1
    BY <1>1, <1>3, NameFacts
<1>5. tail \in Paths /\ tail # <<>> /\ Len(tail) = 2 /\ Last(tail) = "SKILL.md"
    <2>1. <<"SKILL.md">> \in Paths /\ <<"SKILL.md">> # <<>> /\ Last(<<"SKILL.md">>) = "SKILL.md" /\ Len(<<"SKILL.md">>) = 1
        BY Names DEF FileNames, Paths, Last
    <2>2. Len(tail) = Len(a.name) + 1 /\ Last(tail) = "SKILL.md"
        BY <1>4, <2>1, ConcatEnds
    <2>3. tail \in Paths
        BY <1>4, <2>1, UnderFacts
    <2> QED
        BY <1>4, <2>2, <2>3
<1>6. path = root \o <<"skills">> \o a.name \o <<"SKILL.md">>
    <2>1. <<"skills">> \in Paths /\ <<"SKILL.md">> \in Paths
        BY Names DEF FileNames, Paths
    <2>2. root \o <<"skills">> \o (a.name \o <<"SKILL.md">>) = (root \o <<"skills">> \o a.name) \o <<"SKILL.md">>
        <3>1. root \o <<"skills">> \in Paths
            BY <1>2, <2>1, UnderFacts
        <3> QED
            BY <1>4, <2>1, <3>1, ThreePaths, Zenon
    <2> QED
        BY <2>2, Zenon DEF InDir
<1> HIDE DEF tail
<1>7. /\ path \in Paths /\ Under(path, dir) /\ Under(path, root) /\ Audited(lay, path)
      /\ Len(path) = Len(root) + 1 + Len(tail) /\ Last(path) = "SKILL.md"
    <2>1. IsInDir(a.ctx, root, "skills", tail, path)
        BY <1>1, <1>5, RuleIsRead
    <2> QED
        BY <1>5, <2>1 DEF IsInDir
<1>8. Len(root) \in Nat /\ Len(dir) = Len(root) + 1
    BY <1>2 DEF Paths
<1> HIDE DEF lay, path
<1>9. InCatalog(a.ctx, path)
    <2> HIDE DEF root
    <2>1. Len(path) = Len(dir) + 2
        BY <1>5, <1>7, <1>8
    <2> QED
        BY <1>7, <2>1 DEF InCatalog, root
<1>10. Valid(lay, path, "skill")
    <2> HIDE DEF root
    <2>1. Len(path) = Len(root) + 3
        BY <1>5, <1>7, <1>8
    <2> QED
        BY <1>2, <1>7, <2>1 DEF Valid
<1>11. IsReadBack(a, lay, path)
    BY <1>2, <1>7, <1>9, <1>10 DEF IsReadBack, Paths
<1>12. Resolve(lay, a) = path
    BY <1>3, <1>6
<1> QED
    BY <1>11, <1>12 DEF lay

\* The AGENT.md of a session is in its prompt.
LEMMA InstructionsAreRead ==
    ASSUME NEW a \in Calls, a.target = "agent_md"
    PROVE  IsReadBack(a, LayoutOf(a.ctx), Resolve(LayoutOf(a.ctx), a))
<1> DEFINE lay  == LayoutOf(a.ctx)
           root == SessionRoot(a.ctx)
           path == Append(root, "AGENT.md")
           projects == Append(Base, "projects")
<1>1. a.ctx \in Contexts
    BY DEF Calls
<1>2. root \in Paths /\ DotOrDataRoot(lay) = root /\ (~ lay.host => lay.cwd = root)
    BY <1>1, Layouts
<1>3. Resolve(lay, a) = path
    BY DEF Resolve
<1>4. "AGENT.md" \in Segments /\ "projects" \in Segments /\ Base \in Paths /\ <<"AGENT.md">> \in Paths
    BY Names DEF FileNames, Paths
<1>5. LongerBy(path, root, "AGENT.md") /\ LongerBy(projects, Base, "projects")
    BY <1>2, <1>4, AppendIsLonger
<1>6. Under(path, root)
    <2>1. path = root \o <<"AGENT.md">>
        BY <1>2, <1>4, AppendedPath
    <2> QED
        BY <1>2, <1>4, <2>1, UnderFacts
<1>7. ~ Under(root, projects)
    BY <1>1, PathsAssumption DEF Under
<1> HIDE DEF projects
<1>8. ~ Under(path, projects)
    <2> HIDE DEF path, root
    <2> SUFFICES ASSUME Under(path, projects) PROVE FALSE
        OBVIOUS
    <2>1. path \in Paths /\ projects \in Paths /\ Len(path) = Len(root) + 1 /\ Len(projects) = Len(Base) + 1
          /\ Len(root) \in Nat /\ Len(Base) \in Nat
        BY <1>5 DEF LongerBy
    <2>2. Len(projects) <= Len(path) /\ \A i \in 1 .. Len(projects) : path[i] = projects[i]
        BY <2>1, UnderBegins
    <2>3. CASE Len(projects) = Len(path)
        <3>1. Len(path) \in 1 .. Len(projects) /\ Len(root) = Len(Base)
            BY <2>1, <2>3
        <3>2. path[Len(path)] = "AGENT.md" /\ projects[Len(projects)] = "projects"
            BY <1>5, <2>1 DEF LongerBy
        <3> QED
            BY <2>2, <2>3, <3>1, <3>2
    <2>4. CASE Len(projects) <= Len(root)
        <3>1. \A i \in 1 .. Len(projects) : i \in 1 .. Len(root)
            BY <2>1, <2>4
        <3>2. \A i \in 1 .. Len(projects) : root[i] = projects[i]
            BY <1>5, <2>2, <3>1 DEF LongerBy
        <3> QED
            BY <1>2, <1>7, <2>1, <2>4, <3>2, BeginsUnder
    <2> QED
        BY <2>1, <2>2, <2>3, <2>4
<1>9. Audited(lay, path)
    BY <1>2, <1>8 DEF Audited, projects
<1>10. Len(root) \in 0 .. Len(root) /\ SubSeq(root, 1, Len(root)) = root
    BY <1>2 DEF Paths
<1>11. InPrompt(lay, path)
    <2>1. InstructionOf(root, path)
        BY DEF InstructionOf
    <2> HIDE DEF path
    <2> QED
        BY <1>2, <1>10, <2>1 DEF InPrompt
<1>12. Valid(lay, path, "agent_md")
    BY <1>2 DEF Valid
<1>13. path \in Seq(Segments)
    BY <1>5 DEF LongerBy, Paths
<1> HIDE DEF lay, path, root
<1>14. IsReadBack(a, lay, path)
    BY <1>2, <1>6, <1>9, <1>11, <1>12, <1>13 DEF IsReadBack
<1> QED
    BY <1>3, <1>14 DEF lay

\* The MEMORY.md of a session or project is in its prompt.
LEMMA MemoryIsRead ==
    ASSUME NEW a \in Calls, a.target = "memory"
    PROVE  IsReadBack(a, LayoutOf(a.ctx), Resolve(LayoutOf(a.ctx), a))
<1> DEFINE lay  == LayoutOf(a.ctx)
           root == SessionRoot(a.ctx)
           path == Resolve(lay, a)
<1>1. a.ctx \in Contexts
    BY DEF Calls
<1>2. root \in Paths /\ DotOrDataRoot(lay) = root /\ lay.ir = a.ctx.ir /\ lay.project = Append(root, "memory")
    BY <1>1, Layouts
<1>3. "memory" \in Segments /\ "MEMORY.md" \in Segments /\ <<"memory", "MEMORY.md">> \in Paths /\ <<"MEMORY.md">> \in Paths
    BY Names DEF FileNames, Paths
<1>4. path = Entrypoint(lay) /\ path \in Paths /\ Under(path, root)
    <2>1. CASE a.ctx.ir # <<>>
        <3>1. path = Append(root, "MEMORY.md") /\ root = a.ctx.ir
            BY <2>1 DEF Resolve, SessionRoot
        <3>2. path = root \o <<"MEMORY.md">>
            BY <1>2, <1>3, <3>1, AppendedPath
        <3>3. Entrypoint(lay) = Append(root, "MEMORY.md")
            BY <1>2, <2>1, <3>1 DEF Entrypoint
        <3> HIDE DEF path, root, lay
        <3> QED
            BY <1>2, <1>3, <3>1, <3>2, <3>3, UnderFacts
    <2>2. CASE a.ctx.ir = <<>>
        <3>1. path = root \o <<"memory", "MEMORY.md">>
            BY <2>2 DEF Resolve
        <3>2. Entrypoint(lay) = Append(Append(root, "memory"), "MEMORY.md")
            BY <1>2, <2>2 DEF Entrypoint, ProjectEntry
        <3>3. Append(Append(root, "memory"), "MEMORY.md") = root \o <<"memory", "MEMORY.md">>
            BY <1>2, <1>3 DEF Paths
        <3> HIDE DEF path, root, lay
        <3> QED
            BY <1>2, <1>3, <3>1, <3>2, <3>3, UnderFacts
    <2> QED
        BY <2>1, <2>2
<1> HIDE DEF lay, path, root
<1>5. InPrompt(lay, path) /\ Valid(lay, path, "memory")
    BY <1>4 DEF InPrompt, Valid
<1>6. IsReadBack(a, lay, path)
    BY <1>2, <1>4, <1>5 DEF IsReadBack, Paths
<1> QED
    BY <1>6 DEF lay, path

\* A note of an agent lies below the memory of its type, and the prompt brings the default one.
LEMMA AgentMemoryIsRead ==
    ASSUME NEW a \in Calls, a.target = "agent_memory", Resolve(LayoutOf(a.ctx), a) # Nowhere
    PROVE  IsReadBack(a, LayoutOf(a.ctx), Resolve(LayoutOf(a.ctx), a))
<1> DEFINE lay  == LayoutOf(a.ctx)
           root == SessionRoot(a.ctx)
           path == Resolve(lay, a)
           rel  == Relative(a.name)
<1>1. a.ctx \in Contexts /\ a.name \in Seq(Words)
    BY PathsAssumption DEF Calls
<1>2. root \in Paths /\ DotOrDataRoot(lay) = root /\ lay.agents = AgentDirs(root)
    BY <1>1, Layouts
<1>3. /\ path = AgentMemoryPath(lay, a) /\ rel # Nowhere /\ a.agent \in Segments
      /\ path = PublicRoot(lay) \o <<a.agent>> \o rel \/ path = LocalRoot(lay) \o <<a.agent>> \o rel
    BY DEF Resolve, AgentMemoryPath, IsAgentType
<1>4. rel \in Paths /\ rel # <<>> /\ (a.name = <<>> => rel = <<"MEMORY.md">>)
    BY <1>1, <1>3, RelativeFacts
<1>5. "agent-memory" \in Segments /\ "default" \in Segments /\ Base \in Paths /\ <<"agent-memory">> \in Paths
    BY Names DEF FileNames, Paths
<1> DEFINE above(dir) == Append(dir, "agent-memory")
<1>6. ASSUME NEW dir \in Paths
      PROVE  /\ above(dir) \in Paths /\ Under(above(dir), dir)
             /\ Front(dir \o <<"agent-memory", "default">>) = above(dir)
             /\ dir \o <<"agent-memory", "default">> = above(dir) \o <<"default">>
    <2>1. above(dir) \in Paths /\ above(dir) = dir \o <<"agent-memory">>
        <3>1. LongerBy(above(dir), dir, "agent-memory")
            BY <1>5, AppendIsLonger
        <3>2. above(dir) = dir \o <<"agent-memory">>
            BY <1>5, AppendedPath
        <3> HIDE DEF above
        <3> QED
            BY <3>1, <3>2 DEF LongerBy
    <2>2. Under(above(dir), dir)
        BY <1>5, <2>1, UnderFacts
    <2>3. dir \o <<"agent-memory", "default">> = Append(above(dir), "default")
        BY <1>5 DEF Paths
    <2>4. Front(Append(above(dir), "default")) = above(dir) /\ Append(above(dir), "default") = above(dir) \o <<"default">>
        <3> HIDE DEF above
        <3>1. Front(Append(above(dir), "default")) = above(dir)
            BY <1>5, <2>1, AppendParts
        <3>2. Append(above(dir), "default") = above(dir) \o <<"default">>
            BY <1>5, <2>1, AppendedPath
        <3> QED
            BY <3>1, <3>2
    <2> QED
        BY <2>1, <2>2, <2>3, <2>4
<1>7. PublicRoot(lay) = above(Base) /\ LocalRoot(lay) = above(root)
    BY <1>2, <1>5, <1>6 DEF PublicRoot, LocalRoot, AgentDirs
<1> DEFINE memo(dir) == above(dir) \o <<a.agent>> \o rel
           deft(dir) == dir \o <<"agent-memory", "default">>
<1>8. ASSUME NEW dir \in Paths
      PROVE  /\ memo(dir) \in Paths /\ Under(memo(dir), above(dir)) /\ Under(memo(dir), dir)
             /\ a.agent = "default" => Under(memo(dir), deft(dir))
             /\ a.agent = "default" /\ a.name = <<>> => memo(dir) = Append(deft(dir), "MEMORY.md")
    <2>1. above(dir) \in Paths /\ above(dir) = dir \o <<"agent-memory">>
        BY <1>5, <1>6, AppendedPath
    <2>2. <<a.agent>> \in Paths /\ <<a.agent>> \o rel \in Paths /\ <<"agent-memory">> \o (<<a.agent>> \o rel) \in Paths
        <3>1. <<a.agent>> \in Paths
            BY <1>3 DEF Paths
        <3> QED
            BY <1>4, <1>5, <3>1, UnderFacts
    <2>3. memo(dir) = above(dir) \o (<<a.agent>> \o rel)
        BY <1>4, <2>1, <2>2, ThreePaths
    <2>4. memo(dir) = dir \o (<<"agent-memory">> \o (<<a.agent>> \o rel))
        BY <1>5, <2>1, <2>2, <2>3, ThreePaths
    <2>5. a.agent = "default" => memo(dir) = deft(dir) \o rel /\ deft(dir) \in Paths
        BY <1>6, <2>1, <2>2, UnderFacts
    <2>6. memo(dir) \in Paths /\ Under(memo(dir), above(dir)) /\ Under(memo(dir), dir)
        <3> HIDE DEF memo, above
        <3>1. memo(dir) \in Paths /\ Under(memo(dir), above(dir))
            BY <2>1, <2>2, <2>3, UnderFacts
        <3>2. Under(memo(dir), dir)
            BY <2>2, <2>4, UnderFacts
        <3> QED
            BY <3>1, <3>2
    <2>7. a.agent = "default" => Under(memo(dir), deft(dir))
        <3> HIDE DEF memo, deft
        <3> QED
            BY <1>4, <2>5, UnderFacts
    <2>8. a.agent = "default" /\ a.name = <<>> => memo(dir) = Append(deft(dir), "MEMORY.md")
        <3>1. "MEMORY.md" \in Segments
            BY Names DEF FileNames
        <3> HIDE DEF memo, deft
        <3> QED
            BY <1>4, <2>5, <3>1, AppendedPath
    <2> QED
        BY <2>6, <2>7, <2>8
<1>9. PICK dir \in {Base, root} : path = memo(dir)
    BY <1>3, <1>7
<1>10. dir \in Paths /\ deft(dir) \in {lay.agents[1], lay.agents[2]}
    <2>1. dir \in Paths
        BY <1>2, <1>5
    <2>2. AgentDirs(root)[1] = deft(Base) /\ AgentDirs(root)[2] = deft(root)
        BY DEF AgentDirs
    <2> HIDE DEF lay, root, deft
    <2> QED
        BY <1>2, <2>1, <2>2
<1> HIDE DEF lay, path, root, above, memo, deft, rel
<1>11. Valid(lay, path, "agent_memory") /\ (Under(path, root) \/ Under(path, PublicRoot(lay))) /\ path \in Paths
    BY <1>7, <1>8, <1>9, <1>10 DEF Valid
<1>12. a.agent = "default" => Readable(a.ctx, path)
    <2>1. \A r \in {lay.agents[1], lay.agents[2]} : r \in WriteRoots(LayoutOf(a.ctx))
        BY DEF WriteRoots, lay
    <2> QED
        BY <1>8, <1>9, <1>10, <2>1 DEF Readable
<1>13. a.agent = "default" /\ a.name = <<>> => InPrompt(lay, path)
    BY <1>8, <1>9, <1>10 DEF InPrompt
<1>14. IsReadBack(a, lay, path)
    BY <1>2, <1>11, <1>12, <1>13 DEF IsReadBack, Paths
<1> QED
    BY <1>14 DEF lay, path

\* In every kind of session, for any names, agents and directories, what the tool resolves
\* passes its own check and is read later (write_behavior_policy.go:136-372, paths.go).
THEOREM PoliciesAreRead == PathsInit => PolicyIsRead
<1> SUFFICES ASSUME asked \in Calls, ~ Malformed(asked), Resolve(LayoutOf(asked.ctx), asked) # Nowhere
             PROVE  PolicyIsRead
    BY DEF PathsInit, PolicyIsRead
<1> DEFINE lay == LayoutOf(asked.ctx)
           path == Resolve(lay, asked)
<1>1. asked.target \in {"rule", "skill", "agent_md", "memory", "agent_memory"}
    BY DEF Calls, Targets
<1>2. IsReadBack(asked, lay, path)
    BY <1>1, RulesAreRead, SkillsAreRead, InstructionsAreRead, MemoryIsRead, AgentMemoryIsRead
<1>3. Written(asked) = path
    BY <1>2 DEF Written, IsReadBack
<1> QED
    BY <1>2, <1>3 DEF PolicyIsRead, IsReadBack

-----------------------------------------------------------------------------
(* The ranking of the hits and the attachment, for any hits and budget.    *)

HitRecords == [of : Nat, at : Nat, score : Nat, size : Nat \ {0}]

\* The order of triples of numbers.
LEMMA LexOfThree ==
    ASSUME NEW a1 \in Int, NEW a2 \in Int, NEW a3 \in Int, NEW b1 \in Int, NEW b2 \in Int, NEW b3 \in Int
    PROVE  Lex(<<a1, a2, a3>>, <<b1, b2, b3>>) <=>
               a1 < b1 \/ (a1 = b1 /\ a2 < b2) \/ (a1 = b1 /\ a2 = b2 /\ a3 < b3)
<1> DEFINE a == <<a1, a2, a3>>
           b == <<b1, b2, b3>>
<1>1. /\ DOMAIN a = {1, 2, 3} /\ a[1] = a1 /\ a[2] = a2 /\ a[3] = a3
      /\ b[1] = b1 /\ b[2] = b2 /\ b[3] = b3
    OBVIOUS
<1> HIDE DEF a, b
<1>2. Lex(a, b) <=> \E k \in {1, 2, 3} : a[k] < b[k] /\ \A j \in 1 .. k - 1 : a[j] = b[j]
    BY <1>1 DEF Lex
<1>3. 1 .. 1 - 1 = {} /\ 1 .. 2 - 1 = {1} /\ 1 .. 3 - 1 = {1, 2}
    OBVIOUS
<1>4. Lex(a, b) <=> \/ a[1] < b[1]
                    \/ a[1] = b[1] /\ a[2] < b[2]
                    \/ a[1] = b[1] /\ a[2] = b[2] /\ a[3] < b[3]
    BY <1>2, <1>3
<1> QED
    BY <1>1, <1>4 DEF a, b

\* One hit comes before another, number by number.
Earlier(x, y) == \/ y.score < x.score
                 \/ x.score = y.score /\ x.of < y.of
                 \/ x.score = y.score /\ x.of = y.of /\ x.at < y.at

\* The hits of a recall are finitely many, and stand in one row.
LEMMA HitFacts ==
    ASSUME NEW H \in HitSets
    PROVE  /\ IsFiniteSet(H) /\ H \subseteq HitRecords
           /\ \A x \in H, y \in H : <<x, y>> \in BestFirst(H) <=> Earlier(x, y)
           /\ Orders(BestFirst(H), H)
<1>1. H \subseteq Hits /\ \A g \in H, h \in H : g.of = h.of /\ g.at = h.at => g = h
    BY DEF HitSets, kSubset
<1>2. IsFiniteSet(H) /\ H \subseteq HitRecords
    BY <1>1, TextAssumption, FS_Subset DEF HitRecords
<1>3. ASSUME NEW x \in H, NEW y \in H PROVE <<x, y>> \in BestFirst(H) <=> Earlier(x, y)
    <2>1. /\ x.score \in Nat /\ x.of \in Nat /\ x.at \in Nat
          /\ y.score \in Nat /\ y.of \in Nat /\ y.at \in Nat
        BY <1>2 DEF HitRecords
    <2>2. <<x, y>> \in BestFirst(H) <=> Lex(<<- x.score, x.of, x.at>>, <<- y.score, y.of, y.at>>)
        BY DEF BestFirst
    <2>3. - x.score \in Int /\ - y.score \in Int /\ (- x.score < - y.score <=> y.score < x.score)
          /\ (- x.score = - y.score <=> x.score = y.score)
        BY <2>1
    <2>4. Lex(<<- x.score, x.of, x.at>>, <<- y.score, y.of, y.at>>) <=>
              \/ - x.score < - y.score
              \/ - x.score = - y.score /\ x.of < y.of
              \/ - x.score = - y.score /\ x.of = y.of /\ x.at < y.at
        <3> DEFINE a1 == - x.score
                   b1 == - y.score
        <3>1. /\ a1 \in Int /\ b1 \in Int
              /\ x.of \in Int /\ x.at \in Int /\ y.of \in Int /\ y.at \in Int
            BY <2>1, <2>3
        <3> HIDE DEF a1, b1
        <3>2. Lex(<<a1, x.of, x.at>>, <<b1, y.of, y.at>>) <=>
                  a1 < b1 \/ (a1 = b1 /\ x.of < y.of) \/ (a1 = b1 /\ x.of = y.of /\ x.at < y.at)
            BY <3>1, LexOfThree
        <3> QED
            BY <3>2 DEF a1, b1
    <2> QED
        BY <2>2, <2>3, <2>4 DEF Earlier
<1>4. \A x \in H : x.score \in Nat /\ x.of \in Nat /\ x.at \in Nat
    BY <1>2 DEF HitRecords
<1>5. /\ \A x \in H : ~ Earlier(x, x)
      /\ \A x \in H, y \in H : x # y => Earlier(x, y) \/ Earlier(y, x)
    BY <1>1, <1>4 DEF Earlier
<1>6. \A x \in H, y \in H, z \in H : Earlier(x, y) /\ Earlier(y, z) => Earlier(x, z)
    BY <1>4 DEF Earlier
<1>7. Orders(BestFirst(H), H)
    BY <1>3, <1>5, <1>6 DEF Orders
<1> QED
    BY <1>2, <1>3, <1>7

\* Hits of different notes.
Others == {p \in HitRecords \X HitRecords : p[1].of # p[2].of}

\* The ranking has one hit of each note, a best one.
LEMMA RankedFacts ==
    ASSUME NEW H \in HitSets
    PROVE  /\ Ranked(H) \in Seq(HitRecords)
           /\ Rises(Ranked(H), Others)
           /\ \A h \in H : \E best \in Elems(Ranked(H)) : best.of = h.of /\ best.score >= h.score
<1> DEFINE R == BestFirst(H)
           q == Sorted(H, R)
           first == {i \in DOMAIN q : IsFirstOf(q, i)}
           K == {q[i] : i \in first}
           r == Ranked(H)
<1>1. /\ IsFiniteSet(H) /\ H \subseteq HitRecords /\ Orders(R, H)
      /\ \A x \in H, y \in H : <<x, y>> \in R <=> Earlier(x, y)
    BY HitFacts
<1>2. q \in Seq(H) /\ Elems(q) = H /\ Rises(q, R)
    BY <1>1, SortedFacts
<1>3. r = Kept(q, K)
    BY DEF Ranked
<1> HIDE DEF R, q, r
<1>4. DOMAIN q = 1 .. Len(q) /\ Len(q) \in Nat /\ \A i \in 1 .. Len(q) : q[i] \in H
    BY <1>2
<1>5. Elems(r) = K
    <2>1. Elems(r) = Elems(q) \cap K
        BY <1>2, <1>3, KeptElements
    <2>2. K \subseteq Elems(q)
        BY <1>4 DEF Elems
    <2> QED
        BY <2>1, <2>2
<1>6. r \in Seq(H) /\ Rises(r, R)
    BY <1>2, <1>3, KeptType, KeptRises
<1>7. \A i \in first : i \in 1 .. Len(q) /\ \A j \in 1 .. i - 1 : q[j].of # q[i].of
    BY <1>4 DEF IsFirstOf
<1>8. \A x \in K, y \in K : x # y => x.of # y.of
    <2> SUFFICES ASSUME NEW a \in first, NEW b \in first, q[a] # q[b] PROVE q[a].of # q[b].of
        OBVIOUS
    <2>1. a \in 1 .. Len(q) /\ b \in 1 .. Len(q)
        BY <1>7
    <2>2. a \in 1 .. b - 1 \/ b \in 1 .. a - 1
        BY <2>1
    <2> QED
        BY <1>7, <2>2
<1>9. r \in Seq(HitRecords)
    BY <1>1, <1>6
<1>10. Rises(r, Others)
    <2>1. DOMAIN r = 1 .. Len(r) /\ \A i \in 1 .. Len(r) : r[i] \in H /\ r[i] \in HitRecords
        BY <1>1, <1>6
    <2>2. \A i \in 1 .. Len(r) : r[i] \in K
        BY <1>5 DEF Elems
    <2>3. ASSUME NEW i \in 1 .. Len(r), NEW j \in 1 .. Len(r), i < j PROVE <<r[i], r[j]>> \in Others
        <3>1. <<r[i], r[j]>> \in R
            BY <1>6, <2>1, <2>3 DEF Rises
        <3>2. r[i] # r[j]
            BY <1>1, <2>1, <3>1 DEF Orders
        <3>3. r[i].of # r[j].of
            BY <1>8, <2>2, <3>2
        <3> QED
            BY <2>1, <3>3 DEF Others
    <2> QED
        BY <2>1, <2>3 DEF Rises
<1>11. ASSUME NEW h \in H PROVE \E best \in Elems(r) : best.of = h.of /\ best.score >= h.score
    <2>1. PICK i \in 1 .. Len(q) : q[i] = h
        BY <1>2 DEF Elems
    <2> DEFINE T == {j \in 1 .. Len(q) : q[j].of = h.of}
    <2>2. T \in SUBSET Nat /\ i \in T
        BY <2>1
    <2>3. PICK k \in T : \A j \in T : k <= j
        BY <2>2, LeastNatural
    <2>4. k \in 1 .. Len(q) /\ q[k].of = h.of /\ k <= i
        BY <2>2, <2>3
    <2>5. IsFirstOf(q, k)
        <3>1. \A j \in 1 .. k - 1 : j \in 1 .. Len(q) /\ j < k
            BY <1>4, <2>4
        <3>2. \A j \in 1 .. k - 1 : j \notin T
            BY <2>3, <2>4, <3>1
        <3> QED
            BY <2>4, <3>1, <3>2 DEF IsFirstOf
    <2>6. q[k] \in Elems(r)
        BY <1>4, <1>5, <2>4, <2>5
    <2>7. q[k].score >= h.score
        <3>1. q[k] \in H /\ q[k].score \in Nat /\ h.score \in Nat
            BY <1>1, <1>4, <2>4 DEF HitRecords
        <3>2. CASE k = i
            BY <2>1, <3>1, <3>2
        <3>3. CASE k < i
            <4>1. Earlier(q[k], h)
                BY <1>1, <1>2, <1>4, <2>1, <2>4, <3>1, <3>3 DEF Rises
            <4> QED
                BY <3>1, <4>1 DEF Earlier
        <3> QED
            BY <2>4, <3>2, <3>3
    <2> QED
        BY <2>4, <2>6, <2>7
<1> QED
    BY <1>9, <1>10, <1>11 DEF r

\* What has not been shown, still one hit of each note.
LEMMA FreshFacts ==
    ASSUME NEW hits \in Seq(HitRecords), Rises(hits, Others), NEW st
    PROVE  /\ Fresh(hits, st) \in Seq(HitRecords)
           /\ Rises(Fresh(hits, st), Others)
           /\ \A h \in Elems(Fresh(hits, st)) : h.of \notin st.paths
<1> DEFINE K == {h \in ToSet(hits) : h.of \notin st.paths}
<1>1. Fresh(hits, st) = Kept(hits, K)
    BY DEF Fresh
<1>2. Elems(Fresh(hits, st)) = Elems(hits) \cap K
    BY <1>1, KeptElements
<1> QED
    BY <1>1, <1>2, KeptType, KeptRises

\* What the session has seen.
Seen == [paths : SUBSET Nat, bytes : 0 .. RecallBudget]

\* The room that is left and the bytes taken make up the budget, but for the header.
Rooms(st) == {acc \in [full : BOOLEAN, room : Nat, paths : SUBSET Nat, bytes : Nat] :
                 acc.bytes + acc.room = RecallBudget - 1 /\ st.paths \subseteq acc.paths}

\* One more hit keeps them together.
LEMMA SurfaceFacts ==
    ASSUME NEW st \in Seen, NEW acc \in Rooms(st), NEW h \in HitRecords
    PROVE  Surface(acc, h) \in Rooms(st)
<1>1. /\ acc.full \in BOOLEAN /\ acc.room \in Nat /\ acc.paths \subseteq Nat /\ acc.bytes \in Nat
      /\ acc.bytes + acc.room = RecallBudget - 1 /\ st.paths \subseteq acc.paths
      /\ acc = [full |-> acc.full, room |-> acc.room, paths |-> acc.paths, bytes |-> acc.bytes]
    BY DEF Rooms
<1>2. h.of \in Nat /\ h.size \in Nat
    BY DEF HitRecords
<1>3. CASE acc.full \/ ~ Fits(h, acc.room)
    <2>1. Surface(acc, h) = [full |-> TRUE, room |-> acc.room, paths |-> acc.paths, bytes |-> acc.bytes]
        BY <1>1, <1>3 DEF Surface
    <2> QED
        BY <1>1, <2>1 DEF Rooms
<1>4. CASE ~ (acc.full \/ ~ Fits(h, acc.room))
    <2>1. Surface(acc, h) = [full |-> acc.full, room |-> acc.room - h.size,
                             paths |-> acc.paths \cup {h.of}, bytes |-> acc.bytes + h.size]
        BY <1>1, <1>4 DEF Surface
    <2>2. h.size <= acc.room
        BY <1>4 DEF Fits
    <2>3. /\ acc.room - h.size \in Nat /\ acc.bytes + h.size \in Nat
          /\ (acc.bytes + h.size) + (acc.room - h.size) = RecallBudget - 1
        BY <1>1, <1>2, <2>2, TextAssumption
    <2> QED
        BY <1>1, <1>2, <2>1, <2>3 DEF Rooms
<1> QED
    BY <1>3, <1>4

\* The values of Attach's loop.
AttachLoop(g, hits, st) ==
    g = [n \in 0 .. Len(hits) |->
            IF n = 0 THEN [full |-> FALSE, room |-> (RecallBudget - st.bytes) - 1, paths |-> st.paths, bytes |-> st.bytes]
            ELSE Surface(g[n - 1], hits[n])]

\* An attachment, to any session: what was shown stays, and all of it keeps to the budget.
LEMMA AttachFacts ==
    ASSUME NEW hits \in Seq(HitRecords), NEW st \in Seen
    PROVE  Attach(hits, st) \in Seen /\ st.paths \subseteq Attach(hits, st).paths
<1> DEFINE ran == CHOOSE g : AttachLoop(g, hits, st)
           b == [full |-> FALSE, room |-> (RecallBudget - st.bytes) - 1, paths |-> st.paths, bytes |-> st.bytes]
           f == [acc \in Rooms(st) |-> [h \in HitRecords |-> Surface(acc, h)]]
           end == ran[Len(hits)]
<1>1. Attach(hits, st) = IF RecallBudget - st.bytes < 1 \/ end.paths = st.paths THEN st
                         ELSE [paths |-> end.paths, bytes |-> end.bytes + 1]
    BY DEF Attach, AttachLoop
<1>2. st.paths \subseteq Nat /\ st.bytes \in Nat /\ st.bytes <= RecallBudget /\ RecallBudget \in Nat
    BY TextAssumption DEF Seen
<1>3. CASE RecallBudget - st.bytes < 1
    BY <1>1, <1>3
<1>4. CASE ~ (RecallBudget - st.bytes < 1)
    <2>1. b \in Rooms(st) /\ Len(hits) \in Nat /\ \A n \in 1 .. Len(hits) : hits[n] \in HitRecords
        BY <1>2, <1>4 DEF Rooms
    <2>2. f \in [Rooms(st) -> [HitRecords -> Rooms(st)]] /\ \A acc \in Rooms(st), h \in HitRecords : f[acc][h] = Surface(acc, h)
        BY SurfaceFacts
    <2> HIDE DEF f, b
    <2>3. PICK g \in [0 .. Len(hits) -> Rooms(st)] : IsRun(g, f, b, hits, Len(hits))
        BY <2>1, <2>2, RunExists
    <2>4. AttachLoop(g, hits, st)
        <3>1. \A n \in 1 .. Len(hits) : n - 1 \in 0 .. Len(hits)
            BY <2>1
        <3>2. \A n \in 1 .. Len(hits) : g[n] = Surface(g[n - 1], hits[n])
            BY <2>1, <2>2, <2>3, <3>1 DEF IsRun
        <3>3. \A n \in 0 .. Len(hits) : n # 0 => n \in 1 .. Len(hits)
            BY <2>1
        <3>4. \A n \in 0 .. Len(hits) : g[n] = IF n = 0 THEN b ELSE Surface(g[n - 1], hits[n])
            BY <2>3, <3>2, <3>3 DEF IsRun
        <3> QED
            BY <3>4 DEF AttachLoop, b
    <2>5. AttachLoop(ran, hits, st)
        BY <2>4
    <2> HIDE DEF ran
    <2>6. ran[0] = b /\ \A n \in 1 .. Len(hits) : ran[n] = Surface(ran[n - 1], hits[n])
        <3>1. \A n \in 0 .. Len(hits) : ran[n] = IF n = 0 THEN b ELSE Surface(ran[n - 1], hits[n])
            BY <2>5 DEF AttachLoop, b
        <3> QED
            BY <2>1, <3>1
    <2> DEFINE I == [n \in 0 .. Len(hits) |-> Rooms(st)]
    <2>7. \A n \in 0 .. Len(hits) : I[n] = Rooms(st)
        OBVIOUS
    <2>8. /\ \A n \in 1 .. Len(hits) : n \in 0 .. Len(hits) /\ n - 1 \in 0 .. Len(hits)
          /\ Len(hits) \in 0 .. Len(hits) /\ 0 \in 0 .. Len(hits)
        BY <2>1
    <2> HIDE DEF I
    <2>9. \A n \in 1 .. Len(hits) : ran[n - 1] \in I[n - 1] => ran[n] \in I[n]
        BY <2>1, <2>6, <2>7, <2>8, SurfaceFacts
    <2>10. \A n \in 0 .. Len(hits) : ran[n] \in I[n]
        BY <2>1, <2>6, <2>7, <2>8, <2>9, RunInvariant
    <2>11. end \in Rooms(st)
        BY <2>7, <2>8, <2>10
    <2> HIDE DEF end
    <2>12. /\ end.paths \subseteq Nat /\ st.paths \subseteq end.paths
           /\ end.bytes + 1 \in Nat /\ end.bytes + 1 <= RecallBudget
        BY <1>2, <2>11 DEF Rooms
    <2> QED
        BY <1>1, <2>12 DEF Seen
<1> QED
    BY <1>3, <1>4

\* Over two recalls of a session, for any hits and any budget, no note is shown twice, each is
\* shown by a best chunk, and what was shown keeps to the budget (recall_backend.go:645-816).
THEOREM RecallIsBounded == TextInit => RecallStaysInBudget
<1> SUFFICES ASSUME TextInit, input.kind = "hits" PROVE RecallStaysInBudget
    BY DEF RecallStaysInBudget
<1> DEFINE none == [paths |-> {}, bytes |-> 0]
           first == Ranked(input.first)
           one == Attach(Fresh(first, none), none)
           hits == Fresh(Ranked(input.then), one)
           two == Attach(hits, one)
<1>1. input.first \in HitSets /\ input.then \in HitSets
    BY DEF TextInit
<1>2. /\ first \in Seq(HitRecords) /\ Rises(first, Others)
      /\ \A h \in input.first : \E best \in Elems(first) : best.of = h.of /\ best.score >= h.score
    BY <1>1, RankedFacts
<1>3. none \in Seen
    BY TextAssumption DEF Seen
<1> HIDE DEF first, none
<1>4. Fresh(first, none) \in Seq(HitRecords)
    BY <1>2, FreshFacts
<1>5. one \in Seen
    BY <1>3, <1>4, AttachFacts
<1> HIDE DEF one
<1>6. Ranked(input.then) \in Seq(HitRecords) /\ Rises(Ranked(input.then), Others)
    BY <1>1, RankedFacts
<1>7. /\ hits \in Seq(HitRecords) /\ Rises(hits, Others)
      /\ \A h \in Elems(hits) : h.of \notin one.paths
    BY <1>6, FreshFacts
<1> HIDE DEF hits
<1>8. two \in Seen /\ one.paths \subseteq two.paths
    BY <1>5, <1>7, AttachFacts
<1> HIDE DEF two
<1>9. two.bytes <= RecallBudget
    BY <1>8, TextAssumption DEF Seen
<1>10. \A q \in Seq(HitRecords) : ToSet(q) = Elems(q)
    BY DEF ToSet, Elems
<1>11. \A i \in DOMAIN hits, j \in DOMAIN hits : hits[i].of = hits[j].of => i = j
    <2>1. DOMAIN hits = 1 .. Len(hits) /\ Len(hits) \in Nat
        BY <1>7
    <2>2. \A i \in DOMAIN hits, j \in DOMAIN hits : i < j => hits[i].of # hits[j].of
        BY <1>7 DEF Rises, Others
    <2>3. \A i \in DOMAIN hits, j \in DOMAIN hits : i < j \/ j < i \/ i = j
        BY <2>1
    <2> QED
        BY <2>2, <2>3
<1> QED
    BY <1>2, <1>7, <1>8, <1>9, <1>10, <1>11 DEF RecallStaysInBudget, two, hits, one, first, none

-----------------------------------------------------------------------------
\* The search terms of a query.

\* Two Han characters side by side; a whole word of more than two bytes.
PairAt(text, x, y) == {x, y} \subseteq 1 .. Len(text) /\ y = x + 1 /\ text[x].kind = "han" /\ text[y].kind = "han"
WordAt(text, x, y) ==
    /\ {x, y} \subseteq 1 .. Len(text) /\ x <= y /\ IsLong(text, x, y)
    /\ \A i \in x .. y : text[i].kind = "letter"
    /\ {x - 1, y + 1} \cap {i \in 1 .. Len(text) : text[i].kind = "letter"} = {}

\* The places of all characters of a kind right up to place n.
IsRunOf(q, text, class, n) ==
    /\ q \in Seq(Nat) /\ Len(q) <= n
    /\ \A j \in 1 .. Len(q) : q[j] = n - Len(q) + j
    /\ \A i \in n - Len(q) + 1 .. n : text[i].kind = class
    /\ Len(q) < n => text[n - Len(q)].kind # class

\* The pairs that end at p or before, and the words that end at w or before.
HasTerms(T, text, p, w) ==
    /\ T \in Seq(Nat \X Nat)
    /\ \A x \in Nat, y \in Nat : <<x, y>> \in Elems(T) <=> (PairAt(text, x, y) /\ y <= p) \/ (WordAt(text, x, y) /\ y <= w)

\* The bytes of a word.
HasSize(size, text, q) ==
    /\ size \in Nat /\ size >= Len(q)
    /\ Len(q) = 0 => size = 0
    /\ Len(q) = 1 => size = text[q[1]].bytes
    /\ Len(q) = 2 => size = text[q[1]].bytes + text[q[2]].bytes

\* What the loop over the characters has behind it at place n.
TokenStates == [terms : Seq(Nat \X Nat), latin : Seq(Nat), size : Nat, han : Seq(Nat)]
Tokens(text, n) ==
    {acc \in TokenStates :
        /\ IsRunOf(acc.latin, text, "letter", n) /\ IsRunOf(acc.han, text, "han", n)
        /\ HasSize(acc.size, text, acc.latin)
        /\ HasTerms(acc.terms, text, n - Len(acc.han), n - Len(acc.latin))}

\* A character has a kind and a size.
LEMMA RuneFacts ==
    ASSUME NEW text \in Seq(Runes), NEW i \in 1 .. Len(text)
    PROVE  text[i].kind \in {"han", "letter", "gap"} /\ text[i].bytes \in Nat /\ text[i].bytes > 0
<1>1. text[i] \in [kind : {"han", "letter", "gap"}, bytes : Nat \ {0}, is : Nat]
    BY TextAssumption
<1> QED
    BY <1>1

\* The size tells whether the word is long enough.
LEMMA SizeTells ==
    ASSUME NEW text \in Seq(Runes), NEW n \in 0 .. Len(text), NEW q, IsRunOf(q, text, "letter", n),
           NEW size, HasSize(size, text, q)
    PROVE  size > 2 <=> Len(q) > 0 /\ IsLong(text, n - Len(q) + 1, n)
<1>1. /\ Len(q) \in Nat /\ n \in Nat /\ Len(q) <= n /\ size \in Nat /\ size >= Len(q)
      /\ \A j \in 1 .. Len(q) : q[j] = n - Len(q) + j
    BY DEF IsRunOf, HasSize
<1>2. CASE Len(q) = 0
    BY <1>1, <1>2 DEF HasSize
<1>3. CASE Len(q) = 1
    <2>1. 1 \in 1 .. Len(q) /\ n - Len(q) + 1 = n /\ n \in 1 .. Len(text)
        BY <1>1, <1>3
    <2>2. q[1] = n /\ size = text[n].bytes
        BY <1>1, <1>3, <2>1 DEF HasSize
    <2>3. ~ (n > n + 1) /\ n # n + 1
        BY <1>1
    <2>4. IsLong(text, n, n) <=> text[n].bytes > 2
        BY <2>3 DEF IsLong
    <2> QED
        BY <1>3, <2>1, <2>2, <2>4
<1>4. CASE Len(q) = 2
    <2>1. /\ 1 \in 1 .. Len(q) /\ 2 \in 1 .. Len(q) /\ n - Len(q) + 1 = n - 1 /\ n - Len(q) + 2 = n
          /\ n = (n - 1) + 1
        BY <1>1, <1>4
    <2>2. q[1] = n - 1 /\ q[2] = n /\ size = text[n - 1].bytes + text[n].bytes
        BY <1>1, <1>4, <2>1 DEF HasSize
    <2>3. ~ (n > (n - 1) + 1) /\ n # n - 1
        BY <1>1
    <2>4. IsLong(text, n - 1, n) <=> text[n - 1].bytes + text[n].bytes > 2
        BY <2>1, <2>3 DEF IsLong
    <2>5. Len(q) > 0
        BY <1>4
    <2> QED
        BY <2>1, <2>2, <2>4, <2>5
<1>5. CASE Len(q) > 2
    <2>1. size > 2 /\ Len(q) > 0 /\ n > (n - Len(q) + 1) + 1
        BY <1>1, <1>5
    <2> QED
        BY <2>1 DEF IsLong
<1>6. Len(q) = 0 \/ Len(q) = 1 \/ Len(q) = 2 \/ Len(q) > 2
    <2> DEFINE k == Len(q)
    <2>1. k \in Nat
        BY <1>1
    <2> HIDE DEF k
    <2>2. k = 0 \/ k = 1 \/ k = 2 \/ k > 2
        BY <2>1
    <2> QED
        BY <2>2 DEF k
<1> QED
    BY <1>2, <1>3, <1>4, <1>5, <1>6

\* One more letter of a word.
LEMMA SizeGrows ==
    ASSUME NEW text \in Seq(Runes), NEW i \in 1 .. Len(text), NEW q \in Seq(Nat), NEW size, HasSize(size, text, q)
    PROVE  HasSize(size + text[i].bytes, text, Append(q, i))
<1> DEFINE r == Append(q, i)
           b == text[i].bytes
<1>1. Len(r) = Len(q) + 1 /\ r[Len(q) + 1] = i /\ Len(q) \in Nat /\ \A j \in 1 .. Len(q) : r[j] = q[j]
    OBVIOUS
<1>2. b \in Nat /\ b > 0
    BY RuneFacts
<1>3. size \in Nat /\ size >= Len(q)
    BY DEF HasSize
<1> HIDE DEF r
<1>4. size + b \in Nat /\ size + b >= Len(r)
    BY <1>1, <1>2, <1>3
<1>4a. (Len(r) = 1 => Len(q) = 0) /\ (Len(r) = 2 => Len(q) = 1)
    <2> DEFINE k == Len(q)
    <2>1. k \in Nat /\ Len(r) = k + 1
        BY <1>1
    <2> HIDE DEF k
    <2>2. (k + 1 = 1 => k = 0) /\ (k + 1 = 2 => k = 1)
        BY <2>1
    <2> QED
        BY <2>1, <2>2 DEF k
<1>5. ASSUME Len(r) = 1 PROVE size + b = text[r[1]].bytes
    <2>1. Len(q) = 0
        BY <1>4a, <1>5
    <2>2. r[1] = i
        BY <1>1, <2>1
    <2> QED
        BY <1>2, <2>1, <2>2 DEF HasSize
<1>6. ASSUME Len(r) = 2 PROVE size + b = text[r[1]].bytes + text[r[2]].bytes
    <2>1. Len(q) = 1
        BY <1>4a, <1>6
    <2>2. r[2] = i /\ 1 \in 1 .. Len(q)
        BY <1>1, <2>1
    <2>3. r[1] = q[1]
        BY <1>1, <2>2
    <2> QED
        BY <2>1, <2>2, <2>3 DEF HasSize
<1>7. Len(r) # 0
    BY <1>1
<1>8. HasSize(size + b, text, r)
    BY <1>4, <1>5, <1>6, <1>7 DEF HasSize
<1> QED
    BY <1>8 DEF r, b

\* No word has no size.
LEMMA NoSize == \A text : HasSize(0, text, <<>>)
<1>1. Len(<<>>) = 0
    OBVIOUS
<1> QED
    BY <1>1 DEF HasSize

\* A word that ends in the run of letters before n is that run, unless it goes on.
LEMMA WordInRun ==
    ASSUME NEW text \in Seq(Runes), NEW n \in 0 .. Len(text), NEW q, IsRunOf(q, text, "letter", n),
           n < Len(text) => text[n + 1].kind # "letter",
           NEW x \in Nat, NEW y \in Nat
    PROVE  (WordAt(text, x, y) /\ y <= n) <=>
               \/ WordAt(text, x, y) /\ y <= n - Len(q)
               \/ Len(q) > 0 /\ IsLong(text, n - Len(q) + 1, n) /\ x = n - Len(q) + 1 /\ y = n
<1>1. Len(q) \in Nat /\ Len(text) \in Nat /\ n \in Nat /\ Len(q) <= n
    BY DEF IsRunOf
<1> DEFINE a == n - Len(q)
<1>2. a \in Nat /\ a <= n /\ a + Len(q) = n
    BY <1>1
<1>3. \A i \in a + 1 .. n : text[i].kind = "letter"
    BY DEF IsRunOf
<1>4. a > 0 => text[a].kind # "letter"
    BY <1>1 DEF IsRunOf
<1> HIDE DEF a
<1>5. ASSUME WordAt(text, x, y), y <= n, a < y PROVE Len(q) > 0 /\ IsLong(text, a + 1, n) /\ x = a + 1 /\ y = n
    <2>1. x \in 1 .. Len(text) /\ y \in 1 .. Len(text) /\ x <= y /\ IsLong(text, x, y) /\ \A i \in x .. y : text[i].kind = "letter"
        BY <1>5 DEF WordAt
    <2>2. /\ y + 1 \in 1 .. Len(text) => text[y + 1].kind # "letter"
          /\ x - 1 \in 1 .. Len(text) => text[x - 1].kind # "letter"
        BY <1>5 DEF WordAt
    <2>3. y = n
        <3>1. SUFFICES ASSUME y < n PROVE FALSE
            BY <1>5, <1>1
        <3>2. y + 1 \in a + 1 .. n /\ y + 1 \in 1 .. Len(text)
            BY <1>1, <1>2, <1>5, <3>1
        <3> QED
            BY <1>3, <2>2, <3>2
    <2>4. x >= a + 1
        <3>1. SUFFICES ASSUME x <= a PROVE FALSE
            BY <1>2
        <3>2. a \in x .. y /\ a > 0
            BY <1>2, <1>5, <2>1, <3>1
        <3> QED
            BY <1>4, <2>1, <3>2
    <2>5. x <= a + 1
        <3>1. SUFFICES ASSUME x > a + 1 PROVE FALSE
            BY <1>2
        <3>2. x - 1 \in a + 1 .. n /\ x - 1 \in 1 .. Len(text)
            BY <1>1, <1>2, <2>1, <2>3, <3>1
        <3> QED
            BY <1>3, <2>2, <3>2
    <2>6. x = a + 1
        BY <1>2, <2>1, <2>4, <2>5
    <2>7. Len(q) > 0
        BY <1>1, <1>2, <1>5, <2>3
    <2> QED
        BY <2>1, <2>3, <2>6, <2>7
<1>6. ASSUME Len(q) > 0, IsLong(text, a + 1, n), x = a + 1, y = n PROVE WordAt(text, x, y)
    <2>1. {x, y} \subseteq 1 .. Len(text) /\ x <= y
        BY <1>1, <1>2, <1>6
    <2>2. y + 1 \in 1 .. Len(text) => text[y + 1].kind # "letter"
        BY <1>1, <1>6
    <2>3. x - 1 \in 1 .. Len(text) => text[x - 1].kind # "letter"
        <3>1. x - 1 = a
            BY <1>2, <1>6
        <3> QED
            BY <1>4, <3>1
    <2> QED
        BY <1>3, <1>6, <2>1, <2>2, <2>3 DEF WordAt
<1>7. y <= n /\ ~ (y <= a) => a < y
    BY <1>2
<1> QED
    BY <1>1, <1>2, <1>5, <1>6, <1>7 DEF a

\* A pair that ends in the run of Han characters before n lies in it.
LEMMA PairInRun ==
    ASSUME NEW text \in Seq(Runes), NEW n \in 0 .. Len(text), NEW q, IsRunOf(q, text, "han", n),
           NEW x \in Nat, NEW y \in Nat
    PROVE  (PairAt(text, x, y) /\ y <= n) <=>
               \/ PairAt(text, x, y) /\ y <= n - Len(q)
               \/ \E i \in 1 .. Len(q) - 1 : x = q[i] /\ y = q[i] + 1
<1>1. Len(q) \in Nat /\ Len(text) \in Nat /\ n \in Nat /\ Len(q) <= n
    BY DEF IsRunOf
<1> DEFINE a == n - Len(q)
<1>2. a \in Nat /\ a <= n /\ a + Len(q) = n /\ \A j \in 1 .. Len(q) : q[j] = a + j
    BY <1>1 DEF IsRunOf
<1>3. \A i \in a + 1 .. n : text[i].kind = "han"
    BY DEF IsRunOf
<1>4. a > 0 => text[a].kind # "han"
    BY <1>1 DEF IsRunOf
<1> HIDE DEF a
<1>5. ASSUME PairAt(text, x, y), y <= n, a < y PROVE \E i \in 1 .. Len(q) - 1 : x = q[i] /\ y = q[i] + 1
    <2>1. x \in 1 .. Len(text) /\ y = x + 1 /\ text[x].kind = "han"
        BY <1>5 DEF PairAt
    <2>2. x # a
        BY <1>2, <1>4, <2>1
    <2>3. x - a \in 1 .. Len(q) - 1 /\ x - a \in 1 .. Len(q) /\ a + (x - a) = x
        BY <1>1, <1>2, <1>5, <2>1, <2>2
    <2> QED
        BY <1>2, <2>1, <2>3
<1>6. ASSUME NEW i \in 1 .. Len(q) - 1, x = q[i], y = q[i] + 1 PROVE PairAt(text, x, y) /\ y <= n
    <2>1. x = a + i /\ i \in 1 .. Len(q)
        BY <1>1, <1>2, <1>6
    <2>2. x \in a + 1 .. n /\ y \in a + 1 .. n /\ {x, y} \subseteq 1 .. Len(text)
        BY <1>1, <1>2, <1>6, <2>1
    <2> QED
        BY <1>3, <1>6, <2>2 DEF PairAt
<1>7. y <= n /\ ~ (y <= a) => a < y
    BY <1>2
<1>8. y <= a => y <= n
    BY <1>2
<1> QED
    BY <1>5, <1>6, <1>7, <1>8 DEF a

\* The end of a word.
LEMMA FlushLatinFacts ==
    ASSUME NEW text \in Seq(Runes), NEW n \in 0 .. Len(text), NEW acc \in Tokens(text, n),
           n < Len(text) => text[n + 1].kind # "letter"
    PROVE  /\ FlushLatin(acc) = [terms |-> FlushLatin(acc).terms, latin |-> <<>>, size |-> 0, han |-> acc.han]
           /\ HasTerms(FlushLatin(acc).terms, text, n - Len(acc.han), n)
<1> DEFINE q == acc.latin
           T == FlushLatin(acc).terms
           p == n - Len(acc.han)
           a == n - Len(q) + 1
           new == LatinTerms(q, acc.size)
<1>1. /\ acc.terms \in Seq(Nat \X Nat) /\ q \in Seq(Nat) /\ acc.han \in Seq(Nat) /\ acc.size \in Nat
      /\ IsRunOf(q, text, "letter", n) /\ HasTerms(acc.terms, text, p, n - Len(q)) /\ HasSize(acc.size, text, q)
    BY DEF Tokens, TokenStates
<1>2. FlushLatin(acc) = [terms |-> acc.terms \o new, latin |-> <<>>, size |-> 0, han |-> acc.han]
    BY DEF FlushLatin
<1> HIDE DEF q, new
<1>3. T = acc.terms \o new
    BY <1>2
<1>4. Len(q) \in Nat /\ n \in Nat /\ Len(q) <= n /\ \A j \in 1 .. Len(q) : q[j] = n - Len(q) + j
    BY <1>1 DEF IsRunOf
<1>5. acc.size > 2 <=> Len(q) > 0 /\ IsLong(text, a, n)
    BY <1>1, SizeTells
<1>6. Len(q) > 0 => q[1] = a /\ Last(q) = n /\ <<a, n>> \in Nat \X Nat
    <2>1. ASSUME Len(q) > 0 PROVE 1 \in 1 .. Len(q) /\ Len(q) \in 1 .. Len(q) /\ a \in Nat /\ n - Len(q) + Len(q) = n
        BY <1>4, <2>1
    <2> QED
        BY <1>4, <2>1 DEF Last
<1> HIDE DEF T, a, p
<1>7. /\ new \in Seq(Nat \X Nat)
      /\ \A x \in Nat, y \in Nat : <<x, y>> \in Elems(new) <=> Len(q) > 0 /\ IsLong(text, a, n) /\ x = a /\ y = n
    <2>1. CASE acc.size > 2
        <3> DEFINE one == <<a, n>>
        <3>1. new = <<one>> /\ one \in Nat \X Nat
            BY <1>5, <1>6, <2>1 DEF LatinTerms, new
        <3>2. \A x \in Nat, y \in Nat : <<x, y>> = one <=> x = a /\ y = n
            OBVIOUS
        <3> HIDE DEF one
        <3>3. <<one>> \in Seq(Nat \X Nat) /\ Len(<<one>>) = 1 /\ <<one>>[1] = one
            BY <3>1
        <3>4. Elems(<<one>>) = {one}
            BY <3>3 DEF Elems
        <3> QED
            BY <1>5, <2>1, <3>1, <3>2, <3>3, <3>4
    <2>2. CASE ~ (acc.size > 2)
        <3>1. new = <<>>
            BY <2>2 DEF LatinTerms, new
        <3> QED
            BY <1>5, <2>2, <3>1, EmptyElems
    <2> QED
        BY <2>1, <2>2
<1>8. T \in Seq(Nat \X Nat) /\ Elems(T) = Elems(acc.terms) \cup Elems(new)
    BY <1>1, <1>3, <1>7, ConcatElems, ConcatProperties
<1>9. ASSUME NEW x \in Nat, NEW y \in Nat
      PROVE  <<x, y>> \in Elems(T) <=> (PairAt(text, x, y) /\ y <= p) \/ (WordAt(text, x, y) /\ y <= n)
    <2>1. <<x, y>> \in Elems(T) <=>
               \/ <<x, y>> \in Elems(acc.terms)
               \/ Len(q) > 0 /\ IsLong(text, a, n) /\ x = a /\ y = n
        BY <1>7, <1>8
    <2>2. <<x, y>> \in Elems(acc.terms) <=> (PairAt(text, x, y) /\ y <= p) \/ (WordAt(text, x, y) /\ y <= n - Len(q))
        BY <1>1 DEF HasTerms
    <2>3. (WordAt(text, x, y) /\ y <= n) <=>
               \/ WordAt(text, x, y) /\ y <= n - Len(q)
               \/ Len(q) > 0 /\ IsLong(text, a, n) /\ x = a /\ y = n
        <3>3. IsRunOf(q, text, "letter", n)
            BY <1>1
        <3>1. (WordAt(text, x, y) /\ y <= n) <=>
                   \/ WordAt(text, x, y) /\ y <= n - Len(q)
                   \/ Len(q) > 0 /\ IsLong(text, n - Len(q) + 1, n) /\ x = n - Len(q) + 1 /\ y = n
            BY <3>3, WordInRun
        <3>2. a = n - Len(q) + 1
            BY DEF a
        <3> QED
            BY <3>1, <3>2
    <2> QED
        BY <2>1, <2>2, <2>3
<1> QED
    BY <1>2, <1>3, <1>8, <1>9 DEF HasTerms, T, p

\* The pairs of a row of Han characters.
LEMMA HanTermsFacts ==
    ASSUME NEW q \in Seq(Nat)
    PROVE  /\ HanTerms(q) \in Seq(Nat \X Nat)
           /\ \A x \in Nat, y \in Nat :
                 <<x, y>> \in Elems(HanTerms(q)) <=> \E i \in 1 .. Len(q) - 1 : x = q[i] /\ y = q[i] + 1
<1>1. Len(q) \in Nat /\ \A i \in 1 .. Len(q) - 1 : i \in 1 .. Len(q) /\ q[i] \in Nat
    OBVIOUS
<1>2. CASE Len(q) < 2
    <2>1. HanTerms(q) = <<>> /\ \A i \in 1 .. Len(q) - 1 : FALSE
        BY <1>1, <1>2 DEF HanTerms
    <2>2. <<>> \in Seq(Nat \X Nat)
        OBVIOUS
    <2>3. \A p : p \notin Elems(HanTerms(q))
        BY <2>1, EmptyElems
    <2> QED
        BY <2>1, <2>2, <2>3
<1>3. CASE ~ (Len(q) < 2)
    <2> DEFINE m == Len(q) - 1
               t == [i \in 1 .. m |-> <<q[i], q[i] + 1>>]
    <2>1. HanTerms(q) = t /\ m \in Nat
        BY <1>1, <1>3 DEF HanTerms
    <2>2. \A i \in 1 .. m : t[i] = <<q[i], q[i] + 1>> /\ t[i] \in Nat \X Nat
        BY <1>1
    <2>3. t \in Seq(Nat \X Nat) /\ Len(t) = m
        BY <2>1, <2>2
    <2> HIDE DEF t
    <2>4. Elems(t) = {<<q[i], q[i] + 1>> : i \in 1 .. m}
        BY <2>2, <2>3 DEF Elems
    <2>5. \A x \in Nat, y \in Nat : <<x, y>> \in Elems(t) <=> \E i \in 1 .. m : x = q[i] /\ y = q[i] + 1
        BY <2>4
    <2> QED
        BY <2>1, <2>3, <2>5
<1> QED
    BY <1>2, <1>3

\* The end of a row of Han characters.
LEMMA FlushHanFacts ==
    ASSUME NEW text \in Seq(Runes), NEW n \in 0 .. Len(text), NEW w \in Nat,
           NEW acc \in TokenStates,
           IsRunOf(acc.han, text, "han", n), HasTerms(acc.terms, text, n - Len(acc.han), w)
    PROVE  /\ FlushHan(acc) = [terms |-> FlushHan(acc).terms, latin |-> acc.latin, size |-> acc.size, han |-> <<>>]
           /\ HasTerms(FlushHan(acc).terms, text, n, w)
<1> DEFINE q == acc.han
           T == FlushHan(acc).terms
           new == HanTerms(q)
<1>1. acc.terms \in Seq(Nat \X Nat) /\ q \in Seq(Nat)
    BY DEF TokenStates
<1>2. FlushHan(acc) = [terms |-> acc.terms \o new, latin |-> acc.latin, size |-> acc.size, han |-> <<>>]
    BY DEF FlushHan
<1> HIDE DEF q, new
<1>3. T = acc.terms \o new
    BY <1>2
<1>4. Len(q) \in Nat /\ n \in Nat /\ \A i \in 1 .. Len(q) - 1 : i \in 1 .. Len(q) /\ q[i] \in Nat
    BY <1>1
<1>5. /\ new \in Seq(Nat \X Nat)
      /\ \A x \in Nat, y \in Nat : <<x, y>> \in Elems(new) <=> \E i \in 1 .. Len(q) - 1 : x = q[i] /\ y = q[i] + 1
    BY <1>1, HanTermsFacts DEF new
<1> HIDE DEF T
<1>6. T \in Seq(Nat \X Nat) /\ Elems(T) = Elems(acc.terms) \cup Elems(new)
    BY <1>1, <1>3, <1>5, ConcatElems, ConcatProperties
<1>7. ASSUME NEW x \in Nat, NEW y \in Nat
      PROVE  <<x, y>> \in Elems(T) <=> (PairAt(text, x, y) /\ y <= n) \/ (WordAt(text, x, y) /\ y <= w)
    <2>1. <<x, y>> \in Elems(T) <=> <<x, y>> \in Elems(acc.terms) \/ \E i \in 1 .. Len(q) - 1 : x = q[i] /\ y = q[i] + 1
        BY <1>5, <1>6
    <2>2. <<x, y>> \in Elems(acc.terms) <=> (PairAt(text, x, y) /\ y <= n - Len(q)) \/ (WordAt(text, x, y) /\ y <= w)
        BY DEF HasTerms, q
    <2>3. (PairAt(text, x, y) /\ y <= n) <=>
               \/ PairAt(text, x, y) /\ y <= n - Len(q)
               \/ \E i \in 1 .. Len(q) - 1 : x = q[i] /\ y = q[i] + 1
        BY PairInRun DEF q
    <2> QED
        BY <2>1, <2>2, <2>3
<1> QED
    BY <1>2, <1>3, <1>6, <1>7 DEF HasTerms, T, q

\* A run gets longer with a letter of its class, and ends with any other.
LEMMA RunGrows ==
    ASSUME NEW text \in Seq(Runes), NEW n \in 0 .. Len(text) - 1, NEW q, NEW class, IsRunOf(q, text, class, n)
    PROVE  /\ text[n + 1].kind = class => IsRunOf(Append(q, n + 1), text, class, n + 1)
           /\ text[n + 1].kind # class => IsRunOf(<<>>, text, class, n + 1)
<1>1. /\ q \in Seq(Nat) /\ Len(q) \in Nat /\ Len(q) <= n /\ n \in Nat /\ Len(text) \in Nat
      /\ \A j \in 1 .. Len(q) : q[j] = n - Len(q) + j
      /\ \A i \in n - Len(q) + 1 .. n : text[i].kind = class
      /\ Len(q) < n => text[n - Len(q)].kind # class
    BY DEF IsRunOf
<1>2. ASSUME text[n + 1].kind = class PROVE IsRunOf(Append(q, n + 1), text, class, n + 1)
    <2> DEFINE r == Append(q, n + 1)
    <2>1. r \in Seq(Nat) /\ Len(r) = Len(q) + 1 /\ r[Len(q) + 1] = n + 1 /\ \A j \in 1 .. Len(q) : r[j] = q[j]
        BY <1>1
    <2> HIDE DEF r
    <2>2. (n + 1) - Len(r) = n - Len(q)
        BY <1>1, <2>1
    <2>3. \A j \in 1 .. Len(r) : r[j] = n - Len(q) + j
        <3>1. \A j \in 1 .. Len(r) : j \in 1 .. Len(q) \/ j = Len(q) + 1
            BY <1>1, <2>1
        <3>2. n - Len(q) + (Len(q) + 1) = n + 1
            BY <1>1
        <3> QED
            BY <1>1, <2>1, <3>1, <3>2
    <2>4. \A i \in n - Len(q) + 1 .. n + 1 : text[i].kind = class
        <3>1. \A i \in n - Len(q) + 1 .. n + 1 : i \in n - Len(q) + 1 .. n \/ i = n + 1
            BY <1>1
        <3> QED
            BY <1>1, <1>2, <3>1
    <2>5. Len(r) <= n + 1 /\ (Len(r) < n + 1 => text[(n + 1) - Len(r)].kind # class)
        BY <1>1, <2>1, <2>2
    <2>6. \A j \in 1 .. Len(r) : r[j] = (n + 1) - Len(r) + j
        BY <2>2, <2>3
    <2>7. \A i \in (n + 1) - Len(r) + 1 .. n + 1 : text[i].kind = class
        BY <2>2, <2>4
    <2>8. IsRunOf(r, text, class, n + 1)
        BY <2>1, <2>5, <2>6, <2>7 DEF IsRunOf
    <2> QED
        BY <2>8 DEF r
<1>3. ASSUME text[n + 1].kind # class PROVE IsRunOf(<<>>, text, class, n + 1)
    <2>1. <<>> \in Seq(Nat) /\ Len(<<>>) = 0 /\ (n + 1) - 0 = n + 1 /\ n + 1 \in Nat
        BY <1>1
    <2>2. \A i \in (n + 1) + 1 .. n + 1 : FALSE
        BY <1>1
    <2> DEFINE e == <<>>
    <2>3. e \in Seq(Nat) /\ Len(e) = 0
        OBVIOUS
    <2> HIDE DEF e
    <2>4. IsRunOf(e, text, class, n + 1)
        BY <1>1, <1>3, <2>1, <2>2, <2>3 DEF IsRunOf
    <2> QED
        BY <2>4 DEF e
<1> QED
    BY <1>2, <1>3

\* A letter that ends no word or pair leaves their terms as they are.
LEMMA SameTerms ==
    ASSUME NEW text \in Seq(Runes), NEW n \in 0 .. Len(text) - 1, NEW T, NEW p \in Nat, NEW w \in Nat, HasTerms(T, text, p, w)
    PROVE  /\ p = n /\ text[n + 1].kind # "han" => HasTerms(T, text, n + 1, w)
           /\ w = n /\ text[n + 1].kind # "letter" => HasTerms(T, text, p, n + 1)
<1>1. \A y \in Nat : y <= n + 1 <=> y <= n \/ y = n + 1
    OBVIOUS
<1>2. text[n + 1].kind # "han" => \A x \in Nat : ~ PairAt(text, x, n + 1)
    BY DEF PairAt
<1>3. text[n + 1].kind # "letter" => \A x \in Nat : ~ WordAt(text, x, n + 1)
    <2> SUFFICES ASSUME NEW x \in Nat, WordAt(text, x, n + 1) PROVE text[n + 1].kind = "letter"
        OBVIOUS
    <2>1. n + 1 \in x .. n + 1
        BY DEF WordAt
    <2> QED
        BY <2>1 DEF WordAt
<1> QED
    BY <1>1, <1>2, <1>3 DEF HasTerms

\* A run with one more place, and one with none.
LEMMA RunLengths ==
    ASSUME NEW n \in Nat, NEW q \in Seq(Nat)
    PROVE  /\ Append(q, n + 1) \in Seq(Nat) /\ (n + 1) - Len(Append(q, n + 1)) = n - Len(q)
           /\ <<>> \in Seq(Nat) /\ (n + 1) - Len(<<>>) = n + 1
<1>1. Append(q, n + 1) \in Seq(Nat) /\ Len(Append(q, n + 1)) = Len(q) + 1 /\ Len(q) \in Nat
    OBVIOUS
<1>2. <<>> \in Seq(Nat) /\ Len(<<>>) = 0
    OBVIOUS
<1>3. (n + 1) - Len(Append(q, n + 1)) = n - Len(q)
    BY <1>1
<1>4. (n + 1) - Len(<<>>) = n + 1
    BY <1>2
<1> QED
    BY <1>1, <1>2, <1>3, <1>4

\* An accumulator, put together and taken apart.
LEMMA TokenRecord ==
    ASSUME NEW T \in Seq(Nat \X Nat), NEW l \in Seq(Nat), NEW z \in Nat, NEW h \in Seq(Nat), NEW acc,
           acc = [terms |-> T, latin |-> l, size |-> z, han |-> h]
    PROVE  acc \in TokenStates /\ acc.terms = T /\ acc.latin = l /\ acc.size = z /\ acc.han = h
BY DEF TokenStates

\* What the loop has, put together.
LEMMA TokensHave ==
    ASSUME NEW text, NEW n, NEW T \in Seq(Nat \X Nat), NEW l \in Seq(Nat), NEW z \in Nat, NEW h \in Seq(Nat),
           IsRunOf(l, text, "letter", n), IsRunOf(h, text, "han", n), HasSize(z, text, l),
           HasTerms(T, text, n - Len(h), n - Len(l))
    PROVE  [terms |-> T, latin |-> l, size |-> z, han |-> h] \in Tokens(text, n)
<1> DEFINE acc == [terms |-> T, latin |-> l, size |-> z, han |-> h]
<1>1. acc \in TokenStates /\ acc.terms = T /\ acc.latin = l /\ acc.size = z /\ acc.han = h
    BY TokenRecord
<1> HIDE DEF acc
<1>2. acc \in Tokens(text, n)
    BY <1>1 DEF Tokens
<1> QED
    BY <1>2 DEF acc

\* One more character.
LEMMA TakeRuneFacts ==
    ASSUME NEW text \in Seq(Runes), NEW n \in 0 .. Len(text) - 1, NEW acc \in Tokens(text, n)
    PROVE  TakeRune(acc, text[n + 1], n + 1) \in Tokens(text, n + 1)
<1> DEFINE i == n + 1
           r == text[i]
           c == r.kind
           l == acc.latin
           h == acc.han
           z == acc.size
           L == FlushLatin(acc)
           H == FlushHan(acc)
           B == FlushHan(FlushLatin(acc))
           e == <<>>
<1>1. /\ n \in Nat /\ i \in Nat /\ n \in 0 .. Len(text) /\ i \in 1 .. Len(text) /\ n < Len(text)
      /\ c \in {"han", "letter", "gap"} /\ r.bytes \in Nat
    <2>1. n \in Nat /\ i \in 1 .. Len(text) /\ n < Len(text) /\ n \in 0 .. Len(text)
        OBVIOUS
    <2> QED
        BY <2>1, RuneFacts
<1>2. /\ acc \in TokenStates /\ l \in Seq(Nat) /\ h \in Seq(Nat) /\ z \in Nat
      /\ IsRunOf(l, text, "letter", n) /\ IsRunOf(h, text, "han", n) /\ HasSize(z, text, l)
      /\ HasTerms(acc.terms, text, n - Len(h), n - Len(l))
    BY DEF Tokens, TokenStates
<1>3. Len(l) \in Nat /\ Len(h) \in Nat /\ n - Len(l) \in Nat /\ n - Len(h) \in Nat
    BY <1>1, <1>2 DEF IsRunOf
<1>4. /\ c = "letter" => IsRunOf(Append(l, i), text, "letter", i)
      /\ c # "letter" => IsRunOf(e, text, "letter", i)
      /\ c = "han" => IsRunOf(Append(h, i), text, "han", i)
      /\ c # "han" => IsRunOf(e, text, "han", i)
    BY <1>2, RunGrows
<1>5. /\ Append(l, i) \in Seq(Nat) /\ Append(h, i) \in Seq(Nat)
      /\ i - Len(Append(l, i)) = n - Len(l) /\ i - Len(Append(h, i)) = n - Len(h)
      /\ e \in Seq(Nat) /\ i - Len(e) = i
    <2> HIDE DEF l, h
    <2> QED
        BY <1>1, <1>2, RunLengths
<1>6. c # "letter" => L = [terms |-> L.terms, latin |-> e, size |-> 0, han |-> h] /\ HasTerms(L.terms, text, n - Len(h), n)
    BY <1>1, FlushLatinFacts
<1>7. H = [terms |-> H.terms, latin |-> l, size |-> z, han |-> e] /\ HasTerms(H.terms, text, n, n - Len(l))
    BY <1>1, <1>2, <1>3, FlushHanFacts
<1>8. HasSize(0, text, e) /\ HasSize(z + r.bytes, text, Append(l, i)) /\ z + r.bytes \in Nat /\ 0 \in Nat
    BY <1>1, <1>2, NoSize, SizeGrows
<1>9. \A T, p, w : HasTerms(T, text, p, w) => T \in Seq(Nat \X Nat)
    BY DEF HasTerms
<1> HIDE DEF L, H, B, c, l, h, z, e
<1>10. CASE c = "han"
    <2> DEFINE a == Append(h, i)
               T == L.terms
    <2>1. L = [terms |-> T, latin |-> e, size |-> 0, han |-> h]
        BY <1>6, <1>10
    <2>2. HasTerms(T, text, n - Len(h), i) /\ T \in Seq(Nat \X Nat)
        BY <1>1, <1>3, <1>6, <1>9, <1>10, SameTerms DEF c
    <2>3. /\ IsRunOf(e, text, "letter", i) /\ i - Len(e) = i
          /\ a \in Seq(Nat) /\ i - Len(a) = n - Len(h) /\ IsRunOf(a, text, "han", i)
        BY <1>4, <1>5, <1>10
    <2>4. TakeRune(acc, r, i) = [L EXCEPT !.han = Append(@, i)]
        BY <1>10 DEF TakeRune, L, c
    <2>5. L.han = h
        BY <2>1
    <2>6. TakeRune(acc, r, i) = [L EXCEPT !.han = a]
        BY <2>4, <2>5
    <2> HIDE DEF a, T
    <2>7. [L EXCEPT !.han = a] = [terms |-> T, latin |-> e, size |-> 0, han |-> a]
        BY <2>1
    <2>8. [terms |-> T, latin |-> e, size |-> 0, han |-> a] \in Tokens(text, i)
        BY <1>5, <1>8, <2>2, <2>3, TokensHave
    <2> QED
        BY <2>6, <2>7, <2>8
<1>11. CASE c = "letter"
    <2> DEFINE a == Append(l, i)
               s == z + r.bytes
               T == H.terms
    <2>1. H = [terms |-> T, latin |-> l, size |-> z, han |-> e]
        BY <1>7
    <2>2. HasTerms(T, text, i, n - Len(l)) /\ T \in Seq(Nat \X Nat)
        BY <1>1, <1>3, <1>7, <1>9, <1>11, SameTerms DEF c
    <2>3. /\ IsRunOf(e, text, "han", i) /\ i - Len(e) = i
          /\ a \in Seq(Nat) /\ i - Len(a) = n - Len(l) /\ IsRunOf(a, text, "letter", i)
          /\ HasSize(s, text, a) /\ s \in Nat
        BY <1>4, <1>5, <1>8, <1>11
    <2>4. TakeRune(acc, r, i) = [H EXCEPT !.latin = Append(@, i), !.size = @ + r.bytes]
        BY <1>11 DEF TakeRune, H, c
    <2>5. H.latin = l /\ H.size = z
        BY <2>1
    <2>6. TakeRune(acc, r, i) = [H EXCEPT !.latin = a, !.size = s]
        BY <2>1, <2>4, <2>5
    <2> HIDE DEF a, s, T
    <2>7. [H EXCEPT !.latin = a, !.size = s] = [terms |-> T, latin |-> a, size |-> s, han |-> e]
        <3> DEFINE mid == [H EXCEPT !.latin = a]
        <3>1. mid = [terms |-> T, latin |-> a, size |-> z, han |-> e]
            BY <2>1
        <3>2. [H EXCEPT !.latin = a, !.size = s] = [mid EXCEPT !.size = s]
            BY <2>1
        <3> HIDE DEF mid
        <3>3. [mid EXCEPT !.size = s] = [terms |-> T, latin |-> a, size |-> s, han |-> e]
            BY <3>1
        <3> QED
            BY <3>2, <3>3
    <2>8. [terms |-> T, latin |-> a, size |-> s, han |-> e] \in Tokens(text, i)
        BY <1>5, <2>2, <2>3, TokensHave
    <2> QED
        BY <2>6, <2>7, <2>8
<1>12. CASE c = "gap"
    <2> DEFINE T == B.terms
    <2>1. L = [terms |-> L.terms, latin |-> e, size |-> 0, han |-> h] /\ HasTerms(L.terms, text, n - Len(h), n)
        BY <1>6, <1>12
    <2>2. L \in TokenStates /\ L.latin = e /\ L.size = 0 /\ L.han = h
        <3> DEFINE t == L.terms
        <3>1. t \in Seq(Nat \X Nat)
            BY <1>9, <2>1
        <3> HIDE DEF t
        <3>2. L = [terms |-> t, latin |-> e, size |-> 0, han |-> h]
            BY <2>1 DEF t
        <3> QED
            BY <1>2, <1>5, <1>8, <3>1, <3>2, TokenRecord
    <2>3. B = [terms |-> T, latin |-> e, size |-> 0, han |-> e] /\ HasTerms(T, text, n, n)
        BY <1>1, <1>2, <2>1, <2>2, FlushHanFacts DEF B, L, e
    <2>4. HasTerms(T, text, i, i) /\ T \in Seq(Nat \X Nat)
        <3>1. HasTerms(T, text, i, n)
            BY <1>1, <1>12, <2>3, SameTerms DEF c
        <3> QED
            BY <1>1, <1>9, <1>12, <3>1, SameTerms DEF c
    <2>5. TakeRune(acc, r, i) = B
        BY <1>12 DEF TakeRune, B, c
    <2>6. i - Len(e) = i /\ IsRunOf(e, text, "letter", i) /\ IsRunOf(e, text, "han", i)
        BY <1>4, <1>5, <1>12
    <2> HIDE DEF T
    <2>7. [terms |-> T, latin |-> e, size |-> 0, han |-> e] \in Tokens(text, i)
        BY <1>5, <1>8, <2>4, <2>6, TokensHave
    <2> QED
        BY <2>3, <2>5, <2>7
<1> QED
    BY <1>1, <1>10, <1>11, <1>12

\* The values of the loop over the characters.
TokenLoop(g, text) ==
    g = [n \in 0 .. Len(text) |-> IF n = 0 THEN [terms |-> <<>>, latin |-> <<>>, size |-> 0, han |-> <<>>]
                                  ELSE TakeRune(g[n - 1], text[n], n)]

\* The places of the terms of any text.
LEMMA TermPlacesFacts ==
    ASSUME NEW text \in Seq(Runes)
    PROVE  HasTerms(TermPlaces(text), text, Len(text), Len(text))
<1> DEFINE m == Len(text)
           b == [terms |-> <<>>, latin |-> <<>>, size |-> 0, han |-> <<>>]
           I == [n \in 0 .. m |-> Tokens(text, n)]
           f == [n \in 1 .. m |-> [acc \in I[n - 1] |-> TakeRune(acc, text[n], n)]]
           ran == CHOOSE g : TokenLoop(g, text)
<1>1. m \in Nat
    OBVIOUS
<1>2. b \in Tokens(text, 0)
    <2> DEFINE e == <<>>
    <2>1. e \in Seq(Nat) /\ e \in Seq(Nat \X Nat) /\ Len(e) = 0 /\ 0 \in Nat /\ 0 - 0 = 0
        OBVIOUS
    <2>2. Elems(e) = {} /\ HasSize(0, text, e)
        BY EmptyElems, NoSize
    <2> HIDE DEF e
    <2>3. IsRunOf(e, text, "letter", 0) /\ IsRunOf(e, text, "han", 0)
        BY <2>1 DEF IsRunOf
    <2>4. HasTerms(e, text, 0, 0)
        BY <2>1, <2>2 DEF HasTerms, PairAt, WordAt
    <2>5. [terms |-> e, latin |-> e, size |-> 0, han |-> e] \in Tokens(text, 0)
        BY <2>1, <2>2, <2>3, <2>4, TokensHave
    <2> QED
        BY <2>5 DEF e
<1>3. \A n \in 0 .. m : I[n] = Tokens(text, n)
    OBVIOUS
<1>4. \A n \in 1 .. m : n \in 0 .. m /\ n - 1 \in 0 .. m - 1 /\ n - 1 \in 0 .. m /\ (n - 1) + 1 = n
    BY <1>1
<1> HIDE DEF I, b, m
<1>5. \A n \in 1 .. m : \A acc \in I[n - 1] : TakeRune(acc, text[n], n) \in I[n] /\ f[n][acc] = TakeRune(acc, text[n], n)
    <2> TAKE n \in 1 .. m
    <2> TAKE acc \in I[n - 1]
    <2>1. acc \in Tokens(text, n - 1) /\ n - 1 \in 0 .. Len(text) - 1
        BY <1>3, <1>4 DEF m
    <2>2. TakeRune(acc, text[(n - 1) + 1], (n - 1) + 1) \in Tokens(text, (n - 1) + 1)
        BY <2>1, TakeRuneFacts
    <2> QED
        BY <1>3, <1>4, <2>2
<1> HIDE DEF f
<1>6. b \in I[0]
    BY <1>1, <1>2, <1>3
<1>7a. \A n \in 1 .. m : \A acc \in I[n - 1] : f[n][acc] \in I[n]
    BY <1>5
<1>7b. \A n \in 0 .. m : n # 0 => n \in 1 .. m
    BY <1>1
<1>7. PICK g : g = [n \in 0 .. m |-> g[n]] /\ HasTurns(g, f, b, m) /\ \A n \in 0 .. m : g[n] \in I[n]
    BY <1>1, <1>6, <1>7a, TurnsExist
<1>8. TokenLoop(g, text)
    <2>1. \A n \in 1 .. m : g[n] = TakeRune(g[n - 1], text[n], n)
        BY <1>4, <1>5, <1>7 DEF HasTurns
    <2>2. \A n \in 0 .. m : g[n] = IF n = 0 THEN b ELSE TakeRune(g[n - 1], text[n], n)
        BY <1>7, <1>7b, <2>1 DEF HasTurns
    <2> QED
        BY <1>7, <2>2 DEF TokenLoop, m, b
<1>9. TokenLoop(ran, text)
    BY <1>8
<1>10. TermPlaces(text) = FlushHan(FlushLatin(ran[m])).terms
    BY DEF TermPlaces, TokenLoop, m
<1> HIDE DEF ran
<1>11. ran[m] \in Tokens(text, m)
    <2>1. \A n \in 0 .. m : ran[n] = IF n = 0 THEN b ELSE TakeRune(ran[n - 1], text[n], n)
        BY <1>9 DEF TokenLoop, m, b
    <2>2. ran[0] \in I[0] /\ \A n \in 1 .. m : ran[n - 1] \in I[n - 1] => ran[n] \in I[n]
        <3>1. ran[0] = b
            BY <1>1, <2>1
        <3>2. \A n \in 1 .. m : ran[n] = TakeRune(ran[n - 1], text[n], n)
            BY <1>4, <2>1
        <3> QED
            BY <1>5, <1>6, <3>1, <3>2
    <2>3. \A n \in 0 .. m : ran[n] \in I[n]
        BY <1>1, <2>2, RunInvariant
    <2> QED
        BY <1>1, <1>3, <2>3
<1> DEFINE acc == ran[m]
           L == FlushLatin(acc)
           e == <<>>
           h == acc.han
           T == L.terms
<1> HIDE DEF acc
<1>12. acc \in Tokens(text, m) /\ m \in 0 .. Len(text) /\ ~ (m < Len(text))
    BY <1>1, <1>11 DEF acc, m
<1>13. L = [terms |-> T, latin |-> e, size |-> 0, han |-> h] /\ HasTerms(T, text, m - Len(h), m)
    BY <1>12, FlushLatinFacts
<1>14. h \in Seq(Nat) /\ IsRunOf(h, text, "han", m) /\ e \in Seq(Nat) /\ 0 \in Nat
    BY <1>12 DEF Tokens, TokenStates
<1>15. T \in Seq(Nat \X Nat)
    BY <1>13 DEF HasTerms
<1> HIDE DEF L, e, h, T
<1>16. L \in TokenStates /\ L.han = h /\ L.terms = T
    BY <1>13, <1>14, <1>15, TokenRecord
<1>17. HasTerms(FlushHan(L).terms, text, m, m)
    BY <1>1, <1>12, <1>13, <1>14, <1>16, FlushHanFacts
<1> QED
    BY <1>10, <1>17 DEF acc, L, m

\* add takes every text once, up to the cap.
LEMMA AdmittedFacts ==
    ASSUME NEW S, NEW q \in Seq(S)
    PROVE  /\ Admitted(q) \in Seq(S) /\ Len(Admitted(q)) <= MaxTerms
           /\ \A i \in 1 .. Len(Admitted(q)) : \A j \in 1 .. Len(Admitted(q)) : Admitted(q)[i] = Admitted(q)[j] => i = j
           /\ Elems(Admitted(q)) \subseteq Elems(q)
           /\ Len(Admitted(q)) < MaxTerms => Elems(q) \subseteq Elems(Admitted(q))
<1> DEFINE firsts == {i \in 1 .. Len(q) : \A j \in 1 .. i - 1 : q[j] # q[i]}
           idx == [i \in 1 .. Len(q) |-> i]
           sel == Kept(idx, firsts)
           m == Capped(Len(sel), MaxTerms)
           t == [n \in 1 .. m |-> q[sel[n]]]
<1>1. Admitted(q) = t
    BY DEF Admitted
<1>2. idx \in Seq(Nat) /\ Len(idx) = Len(q) /\ Len(q) \in Nat /\ Elems(idx) = 1 .. Len(q) /\ Rising(idx)
    <2>1. Len(q) \in Nat /\ idx \in Seq(Nat) /\ Len(idx) = Len(q)
        OBVIOUS
    <2> QED
        BY <2>1 DEF Elems, Rising
<1> HIDE DEF idx
<1>3. sel \in Seq(Nat) /\ Len(sel) \in Nat /\ Elems(sel) = firsts /\ Rising(sel)
    <2>1. sel \in Seq(Nat) /\ Rising(sel)
        BY <1>2, KeptType, KeptIsRising
    <2>2. Elems(sel) = Elems(idx) \cap firsts
        BY <1>2, KeptElements
    <2>3. firsts \subseteq 1 .. Len(q)
        OBVIOUS
    <2> HIDE DEF sel, firsts
    <2>4. Len(sel) \in Nat
        BY <2>1
    <2> QED
        BY <1>2, <2>1, <2>2, <2>3, <2>4
<1>4. MaxTerms \in Nat
    BY TextAssumption
<1> HIDE DEF sel
<1>5. m \in Nat /\ m <= Len(sel) /\ m <= MaxTerms /\ (m < MaxTerms => m = Len(sel))
    BY <1>3, <1>4 DEF Capped
<1> HIDE DEF m
<1>6. \A n \in 1 .. m : n \in 1 .. Len(sel) /\ sel[n] \in firsts
    BY <1>3, <1>5 DEF Elems
<1>7. \A i \in firsts : i \in 1 .. Len(q) /\ i \in Nat /\ \A j \in 1 .. i - 1 : q[j] # q[i]
    OBVIOUS
<1>8. \A k \in 1 .. Len(q) : \E i \in firsts : q[i] = q[k]
    <2> TAKE k \in 1 .. Len(q)
    <2> DEFINE U == {i \in 1 .. Len(q) : q[i] = q[k]}
    <2>1. U \in SUBSET Nat /\ U # {}
        BY <1>2
    <2> HIDE DEF U
    <2>2. PICK i \in U : \A j \in U : i <= j
        BY <2>1, LeastNatural
    <2>3. i \in 1 .. Len(q) /\ q[i] = q[k]
        BY <2>2 DEF U
    <2>4. ASSUME NEW j \in 1 .. i - 1, q[j] = q[i] PROVE FALSE
        <3>1. j \in 1 .. Len(q) /\ j < i
            BY <1>2, <2>3, <2>4
        <3>2. j \in U
            BY <2>3, <2>4, <3>1 DEF U
        <3> QED
            BY <1>2, <2>2, <2>3, <3>1, <3>2
    <2> QED
        BY <2>3, <2>4
<1> HIDE DEF firsts
<1>9. t \in Seq(S) /\ Len(t) = m /\ \A n \in 1 .. m : t[n] = q[sel[n]]
    <2>1. \A n \in 1 .. m : q[sel[n]] \in S
        BY <1>6, <1>7
    <2> QED
        BY <1>5, <2>1
<1> HIDE DEF t
<1>10. ASSUME NEW i \in 1 .. m, NEW j \in 1 .. m, i < j PROVE t[i] # t[j]
    <2>1. sel[i] < sel[j] /\ sel[i] \in firsts /\ sel[j] \in firsts
        BY <1>3, <1>6, <1>10 DEF Rising
    <2>2. sel[i] \in 1 .. sel[j] - 1
        BY <1>2, <1>7, <2>1
    <2> QED
        BY <1>7, <1>9, <2>1, <2>2
<1>11. \A i \in 1 .. m, j \in 1 .. m : i = j \/ i < j \/ j < i
    BY <1>5
<1>12. \A i \in 1 .. m : \A j \in 1 .. m : t[i] = t[j] => i = j
    BY <1>10, <1>11
<1>13. Elems(t) = {t[n] : n \in 1 .. m} /\ Elems(q) = {q[k] : k \in 1 .. Len(q)}
    BY <1>9 DEF Elems
<1>14. Elems(t) \subseteq Elems(q)
    <2>1. \A n \in 1 .. m : \E k \in 1 .. Len(q) : t[n] = q[k]
        BY <1>6, <1>7, <1>9
    <2> QED
        BY <1>13, <2>1
<1>15. ASSUME m < MaxTerms PROVE Elems(q) \subseteq Elems(t)
    <2>1. \A i \in firsts : \E n \in 1 .. m : sel[n] = i
        BY <1>3, <1>5, <1>15 DEF Elems
    <2>2. \A k \in 1 .. Len(q) : \E n \in 1 .. m : q[k] = t[n]
        BY <1>8, <1>9, <2>1
    <2> QED
        BY <1>13, <2>2
<1> QED
    BY <1>1, <1>5, <1>9, <1>12, <1>14, <1>15

\* A place has a word that counts or a pair of Han characters.
LEMMA PlaceKinds ==
    ASSUME NEW text \in Seq(Runes), NEW x \in 1 .. Len(text), NEW y \in 1 .. Len(text)
    PROVE  (PairAt(text, x, y) <=> IsPair(text, x, y)) /\ (WordAt(text, x, y) <=> IsWord(text, x, y))
<1>1. PairAt(text, x, y) <=> IsPair(text, x, y)
    BY DEF PairAt, IsPair
<1> DEFINE letters == {i \in 1 .. Len(text) : text[i].kind = "letter"}
<1>2. \A i \in x .. y : i \in 1 .. Len(text)
    OBVIOUS
<1>3. x .. y \subseteq letters <=> \A i \in x .. y : text[i].kind = "letter"
    BY <1>2
<1> HIDE DEF letters
<1>4. IsWord(text, x, y) <=> x <= y /\ x .. y \subseteq letters /\ {x - 1, y + 1} \cap letters = {} /\ IsLong(text, x, y)
    BY DEF IsWord, letters
<1>5. WordAt(text, x, y) <=>
          /\ x <= y /\ IsLong(text, x, y) /\ (\A i \in x .. y : text[i].kind = "letter")
          /\ {x - 1, y + 1} \cap letters = {}
    BY DEF WordAt, letters
<1> QED
    BY <1>1, <1>3, <1>4, <1>5

\* The terms are the whole words and the pairs, up to the cap, for any query.
LEMMA TermsAreExact == TextInit => TermsAreWords
<1> SUFFICES ASSUME TextInit, input.kind = "query" PROVE TermsAreWords
    BY DEF TermsAreWords
<1> DEFINE text == input.text
           places == TermPlaces(text)
           words == [n \in 1 .. Len(places) |-> SubSeq(text, places[n][1], places[n][2])]
           terms == TokenizeRecall(text)
           here == 1 .. Len(text)
           meant == {SubSeq(text, p[1], p[2]) :
                         p \in {q \in here \X here : IsWord(text, q[1], q[2]) \/ IsPair(text, q[1], q[2])}}
<1>1. text \in Seq(Runes)
    <2>1. MaxNoteLines \in Nat
        BY TextAssumption
    <2>2. text \in UNION {[1 .. n -> Runes] : n \in 0 .. MaxNoteLines}
        BY DEF TextInit
    <2> HIDE DEF text
    <2> QED
        BY <2>1, <2>2
<1> HIDE DEF text
<1>2. Len(text) \in Nat
    BY <1>1
<1>3. HasTerms(places, text, Len(text), Len(text))
    BY <1>1, TermPlacesFacts
<1>4. terms = Admitted(words)
    BY DEF TokenizeRecall
<1> HIDE DEF places
<1>5. places \in Seq(Nat \X Nat) /\ Len(places) \in Nat
    BY <1>3 DEF HasTerms
<1>6. \A x \in Nat, y \in Nat : PairAt(text, x, y) \/ WordAt(text, x, y) => x \in here /\ y \in here
    BY DEF PairAt, WordAt
<1>7. \A x \in here, y \in here : PairAt(text, x, y) \/ WordAt(text, x, y) <=> IsWord(text, x, y) \/ IsPair(text, x, y)
    BY <1>1, PlaceKinds
<1>8. \A x \in here, y \in here : x \in Nat /\ y \in Nat /\ x <= Len(text) /\ y <= Len(text)
    BY <1>2
<1> DEFINE chosen == {q \in here \X here : IsWord(text, q[1], q[2]) \/ IsPair(text, q[1], q[2])}
<1>9. \A x \in Nat, y \in Nat : <<x, y>> \in Elems(places) <=> <<x, y>> \in chosen
    <2> TAKE x \in Nat, y \in Nat
    <2>1. <<x, y>> \in Elems(places) <=> (PairAt(text, x, y) /\ y <= Len(text)) \/ (WordAt(text, x, y) /\ y <= Len(text))
        BY <1>3 DEF HasTerms
    <2>2. <<x, y>> \in chosen <=> x \in here /\ y \in here /\ (IsWord(text, x, y) \/ IsPair(text, x, y))
        OBVIOUS
    <2> QED
        BY <1>6, <1>7, <1>8, <2>1, <2>2
<1>10. Elems(places) \subseteq Nat \X Nat /\ chosen \subseteq Nat \X Nat
    <2>1. \A n \in 1 .. Len(places) : places[n] \in Nat \X Nat
        BY <1>5
    <2>2. here \subseteq Nat
        BY <1>8
    <2> QED
        BY <2>1, <2>2 DEF Elems
<1> HIDE DEF here, chosen
<1>11. Elems(places) = chosen
    <2>1. \A p \in Nat \X Nat : \E x \in Nat, y \in Nat : p = <<x, y>>
        OBVIOUS
    <2>2. \A p \in Nat \X Nat : p \in Elems(places) <=> p \in chosen
        BY <1>9, <2>1
    <2> QED
        BY <1>10, <2>2
<1> DEFINE S == {words[n] : n \in 1 .. Len(places)}
<1>12. words \in Seq(S) /\ Len(words) = Len(places)
    <2>1. words = [n \in 1 .. Len(places) |-> words[n]]
        OBVIOUS
    <2> HIDE DEF words
    <2>2. \A n \in 1 .. Len(places) : words[n] \in S
        OBVIOUS
    <2> HIDE DEF S
    <2>3. words \in [1 .. Len(places) -> S]
        BY <2>1, <2>2
    <2> DEFINE k == Len(places)
    <2>4. k \in Nat /\ words \in [1 .. k -> S]
        BY <1>5, <2>3
    <2> HIDE DEF k
    <2>5. words \in Seq(S) /\ Len(words) = k
        BY <2>4
    <2> QED
        BY <2>5 DEF k
<1>13. Elems(words) = {SubSeq(text, p[1], p[2]) : p \in Elems(places)}
    BY <1>12 DEF Elems
<1>14. Elems(words) = meant
    BY <1>11, <1>13 DEF chosen
<1> HIDE DEF words, S, meant
<1>15. /\ terms \in Seq(S) /\ Len(terms) <= MaxTerms
       /\ \A i \in 1 .. Len(terms) : \A j \in 1 .. Len(terms) : terms[i] = terms[j] => i = j
       /\ Elems(terms) \subseteq meant
       /\ Len(terms) < MaxTerms => meant \subseteq Elems(terms)
    BY <1>4, <1>12, <1>14, AdmittedFacts
<1> HIDE DEF terms
<1>16. DOMAIN terms = 1 .. Len(terms) /\ ToSet(terms) = Elems(terms)
    BY <1>15 DEF ToSet, Elems
<1> QED
    BY <1>15, <1>16 DEF TermsAreWords, terms, meant, here, text

-----------------------------------------------------------------------------
\* The chunks of a note.

\* A heading above line n whose section line n is in.
IsOpen(lines, h, n) == lines[h] > 0 /\ \A l \in h + 1 .. n : lines[l] <= 0 \/ lines[l] > lines[h]

\* The headings a line is filed under: as deep as they are listed, none closed, none missing.
IsPath(path, lines, n) ==
    /\ path \in Seq(Nat)
    /\ \A k \in 1 .. Len(path) :
          lines[path[k]] >= k /\ \A l \in path[k] + 1 .. n : lines[l] <= 0 \/ lines[l] > k
    /\ \A h \in 1 .. n : IsOpen(lines, h, n) => \E k \in 1 .. Len(path) : path[k] = h

ChunkRecords == [from : Nat, to : Nat, path : Seq(Nat)]

\* A chunk has one heading at most, in front, and the path of its section.
IsSection(c, lines) ==
    /\ c.from <= c.to /\ \A l \in c.from + 1 .. c.to : lines[l] <= 0
    /\ IsPath(c.path, lines, c.from)

\* The chunks hold all that stands above line a.
Cover(cs, lines, a) ==
    /\ cs \in Seq(ChunkRecords)
    /\ \A i \in 1 .. Len(cs) : IsSection(cs[i], lines) /\ cs[i].to < a
    /\ \A i \in 1 .. Len(cs), j \in 1 .. Len(cs) : i < j => cs[i].to < cs[j].from
    /\ \A l \in 1 .. a - 1 : lines[l] # Empty => \E i \in 1 .. Len(cs) : l \in cs[i].from .. cs[i].to

\* What the loop over the lines has behind it after line n.
Sections(lines, n) ==
    {acc \in [from : Nat, stack : Seq(Nat), chunks : Seq(ChunkRecords)] :
        /\ acc.from \in 1 .. n + 1 /\ \A l \in acc.from + 1 .. n : lines[l] <= 0
        /\ IsPath(acc.stack, lines, n)
        /\ Cover(acc.chunks, lines, acc.from)}

\* The levels of the lines.
LEMMA LineLevels ==
    ASSUME NEW lines \in Seq(LineKinds)
    PROVE  Len(lines) \in Nat /\ \A i \in 1 .. Len(lines) : lines[i] \in Int /\ (lines[i] > 0 => lines[i] \in Nat)
<1>1. LineKinds \subseteq Int
    BY TextAssumption DEF LineKinds, Empty
<1>2. Len(lines) \in Nat /\ \A i \in 1 .. Len(lines) : lines[i] \in LineKinds
    OBVIOUS
<1>3. \A v \in Int : v > 0 => v \in Nat
    OBVIOUS
<1>4. \A i \in 1 .. Len(lines) : lines[i] \in Int
    BY <1>1, <1>2
<1> QED
    BY <1>2, <1>3, <1>4

\* One more chunk covers what stands before the next heading.
LEMMA ChunkCovers ==
    ASSUME NEW lines \in Seq(LineKinds), NEW n \in 0 .. Len(lines), NEW a \in 1 .. n + 1,
           \A l \in a + 1 .. n : lines[l] <= 0,
           NEW stack, IsPath(stack, lines, n), NEW cs, Cover(cs, lines, a)
    PROVE  Cover(cs \o Chunk(lines, a, n, stack), lines, n + 1)
<1> DEFINE full == {i \in a .. n : lines[i] # Empty}
           first == CHOOSE i \in full : \A j \in full : i <= j
           c == [from |-> first, to |-> n, path |-> stack]
<1>1. n \in Nat /\ a \in Nat /\ 1 <= a /\ a <= n + 1 /\ n <= Len(lines) /\ Len(lines) \in Nat
    OBVIOUS
<1>2. /\ cs \in Seq(ChunkRecords) /\ Len(cs) \in Nat
      /\ \A i \in 1 .. Len(cs) : IsSection(cs[i], lines) /\ cs[i].to < a
      /\ \A i \in 1 .. Len(cs), j \in 1 .. Len(cs) : i < j => cs[i].to < cs[j].from
      /\ \A l \in 1 .. a - 1 : lines[l] # Empty => \E i \in 1 .. Len(cs) : l \in cs[i].from .. cs[i].to
    BY DEF Cover
<1>3. \A i \in 1 .. Len(cs) : cs[i].to \in Nat /\ cs[i].from \in Nat
    <2>1. \A i \in 1 .. Len(cs) : cs[i] \in ChunkRecords
        BY <1>2
    <2> QED
        BY <2>1 DEF ChunkRecords
<1>4. CASE full = {}
    <2>1. Chunk(lines, a, n, stack) = <<>>
        BY <1>4 DEF Chunk
    <2>2. cs \o <<>> = cs
        BY <1>2
    <2>3. \A l \in 1 .. n : lines[l] # Empty => l \in 1 .. a - 1
        BY <1>1, <1>4
    <2>4. \A l \in 1 .. (n + 1) - 1 : lines[l] # Empty => \E i \in 1 .. Len(cs) : l \in cs[i].from .. cs[i].to
        BY <1>1, <1>2, <2>3
    <2>5. \A i \in 1 .. Len(cs) : cs[i].to < n + 1
        BY <1>1, <1>2, <1>3
    <2>6. Cover(cs, lines, n + 1)
        BY <1>2, <2>4, <2>5 DEF Cover
    <2> QED
        BY <2>1, <2>2, <2>6
<1>5. CASE full # {}
    <2>1. first \in full /\ \A j \in full : first <= j
        <3>1. \E i \in full : \A j \in full : i <= j
            <4>1. full \in SUBSET Nat
                BY <1>1
            <4> HIDE DEF full
            <4> QED
                BY <1>5, <4>1, LeastNatural
        <3> HIDE DEF full
        <3> QED
            BY <3>1
    <2>2. Chunk(lines, a, n, stack) = <<c>>
        BY <1>5 DEF Chunk
    <2> HIDE DEF first
    <2>3. first \in Nat /\ a <= first /\ first <= n
        BY <1>1, <2>1
    <2>4. c \in ChunkRecords /\ c.from = first /\ c.to = n /\ c.path = stack
        BY <1>1, <2>3 DEF ChunkRecords, IsPath
    <2> HIDE DEF c
    <2>5. IsSection(c, lines)
        <3>1. \A l \in first + 1 .. n : l \in a + 1 .. n
            BY <1>1, <2>3
        <3>2. \A l \in first + 1 .. n : lines[l] <= 0
            BY <3>1
        <3>3. ASSUME NEW k \in 1 .. Len(stack)
              PROVE  lines[stack[k]] >= k /\ \A l \in stack[k] + 1 .. first : lines[l] <= 0 \/ lines[l] > k
            <4>1. stack[k] \in Nat
                BY DEF IsPath
            <4>2. \A l \in stack[k] + 1 .. first : l \in stack[k] + 1 .. n
                BY <1>1, <2>3, <4>1
            <4> QED
                BY <4>2 DEF IsPath
        <3>4. ASSUME NEW h \in 1 .. first, IsOpen(lines, h, first) PROVE \E k \in 1 .. Len(stack) : stack[k] = h
            <4>1. \A l \in h + 1 .. n : l \in h + 1 .. first \/ l \in first + 1 .. n
                BY <1>1, <2>3
            <4>2. IsOpen(lines, h, n)
                BY <3>2, <3>4, <4>1 DEF IsOpen
            <4>3. h \in 1 .. n
                BY <1>1, <2>3
            <4> QED
                BY <4>2, <4>3 DEF IsPath
        <3>5. IsPath(stack, lines, first)
            BY <3>3, <3>4 DEF IsPath
        <3> QED
            BY <2>3, <2>4, <3>2, <3>5 DEF IsSection
    <2> DEFINE r == Append(cs, c)
               k == Len(cs)
    <2>6. cs \o <<c>> = r
        BY <1>2, <2>4, AppendIsConcat
    <2>7. /\ r \in Seq(ChunkRecords) /\ Len(r) = k + 1 /\ r[k + 1] = c
          /\ \A i \in 1 .. k : r[i] = cs[i]
        BY <1>2, <2>4
    <2> HIDE DEF r
    <2>8. k \in Nat /\ \A i \in 1 .. k + 1 : i \in 1 .. k \/ i = k + 1
        BY <1>2
    <2>9. ASSUME NEW i \in 1 .. k + 1 PROVE IsSection(r[i], lines) /\ r[i].to < n + 1
        <3>1. CASE i \in 1 .. k
            BY <1>1, <1>2, <1>3, <2>7, <3>1
        <3>2. CASE i = k + 1
            BY <1>1, <2>4, <2>5, <2>7, <3>2
        <3> QED
            BY <2>8, <3>1, <3>2
    <2>10. ASSUME NEW i \in 1 .. k + 1, NEW j \in 1 .. k + 1, i < j PROVE r[i].to < r[j].from
        <3>1. i \in 1 .. k
            BY <2>8, <2>10
        <3>2. CASE j \in 1 .. k
            BY <1>2, <2>7, <2>10, <3>1, <3>2
        <3>3. CASE j = k + 1
            BY <1>1, <1>2, <1>3, <2>3, <2>4, <2>7, <3>1, <3>3
        <3> QED
            BY <2>8, <3>2, <3>3
    <2>11. ASSUME NEW l \in 1 .. n, lines[l] # Empty PROVE \E i \in 1 .. k + 1 : l \in r[i].from .. r[i].to
        <3>1. CASE l < a
            <4>1. PICK i \in 1 .. k : l \in cs[i].from .. cs[i].to
                BY <1>1, <1>2, <2>11, <3>1
            <4> QED
                BY <2>7, <2>8, <4>1
        <3>2. CASE a <= l
            <4>1. l \in full
                BY <1>1, <2>11, <3>2
            <4>2. l \in c.from .. c.to
                BY <1>1, <2>1, <2>3, <2>4, <4>1
            <4>3. k + 1 \in 1 .. k + 1
                BY <2>8
            <4> QED
                BY <2>7, <4>2, <4>3
        <3> QED
            BY <1>1, <3>1, <3>2
    <2>12. (n + 1) - 1 = n
        BY <1>1
    <2> HIDE DEF k
    <2>13. Cover(r, lines, n + 1)
        BY <2>7, <2>9, <2>10, <2>11, <2>12 DEF Cover
    <2> QED
        BY <2>2, <2>6, <2>13
<1> QED
    BY <1>4, <1>5

\* The headings that a heading leaves open: the first ones, less than its level.
LEMMA OuterFacts ==
    ASSUME NEW stack \in Seq(Nat), NEW v \in Nat, v > 0
    PROVE  /\ Outer(stack, v) \in Seq(Nat)
           /\ Len(Outer(stack, v)) = IF v - 1 < Len(stack) THEN v - 1 ELSE Len(stack)
           /\ \A k \in 1 .. Len(Outer(stack, v)) : Outer(stack, v)[k] = stack[k]
<1> DEFINE m == (IF v > Len(stack) + 1 THEN Len(stack) + 1 ELSE v) - 1
<1>1. m \in 0 .. Len(stack) /\ m = (IF v - 1 < Len(stack) THEN v - 1 ELSE Len(stack)) /\ Len(stack) \in Nat
    OBVIOUS
<1>2. Outer(stack, v) = SubSeq(stack, 1, m)
    BY DEF Outer
<1> HIDE DEF m
<1>3. SubSeq(stack, 1, m) \in Seq(Nat) /\ Len(SubSeq(stack, 1, m)) = m /\ \A k \in 1 .. m : SubSeq(stack, 1, m)[k] = stack[k]
    BY <1>1
<1> QED
    BY <1>1, <1>2, <1>3

\* The path behind one more heading.
LEMMA HeadingPath ==
    ASSUME NEW lines \in Seq(LineKinds), NEW n \in 0 .. Len(lines) - 1, NEW stack, IsPath(stack, lines, n),
           lines[n + 1] > 0
    PROVE  IsPath(Append(Outer(stack, lines[n + 1]), n + 1), lines, n + 1)
<1> DEFINE i == n + 1
           v == lines[i]
           o == Outer(stack, v)
           m == Len(o)
           s == Append(o, i)
<1>1. n \in Nat /\ i \in Nat /\ i \in 1 .. Len(lines) /\ v \in Nat /\ v > 0
    <2>1. n \in Nat /\ i \in Nat /\ i \in 1 .. Len(lines)
        OBVIOUS
    <2> QED
        BY <2>1, LineLevels
<1>2. stack \in Seq(Nat) /\ Len(stack) \in Nat /\ \A k \in 1 .. Len(stack) : stack[k] \in Nat
    BY DEF IsPath
<1> HIDE DEF v
<1>3. /\ o \in Seq(Nat) /\ m = (IF v - 1 < Len(stack) THEN v - 1 ELSE Len(stack))
      /\ \A k \in 1 .. m : o[k] = stack[k]
    BY <1>1, <1>2, OuterFacts
<1> HIDE DEF o
<1>4. m \in Nat /\ m <= Len(stack) /\ m < v
    BY <1>1, <1>2, <1>3
<1>5. s \in Seq(Nat) /\ Len(s) = m + 1 /\ s[m + 1] = i /\ \A k \in 1 .. m : s[k] = o[k]
    BY <1>1, <1>3
<1> HIDE DEF s, m
<1>6. ASSUME NEW k \in 1 .. m + 1
      PROVE  lines[s[k]] >= k /\ \A l \in s[k] + 1 .. i : lines[l] <= 0 \/ lines[l] > k
    <2>1. CASE k \in 1 .. m
        <3>1. s[k] = stack[k] /\ k \in 1 .. Len(stack) /\ k < v /\ stack[k] \in Nat
            BY <1>1, <1>2, <1>3, <1>4, <1>5, <2>1
        <3>2. lines[stack[k]] >= k /\ \A l \in stack[k] + 1 .. n : lines[l] <= 0 \/ lines[l] > k
            BY <3>1 DEF IsPath
        <3>3. \A l \in stack[k] + 1 .. i : l \in stack[k] + 1 .. n \/ l = i
            BY <1>1, <3>1
        <3>4. lines[i] > k
            BY <1>1, <3>1 DEF v
        <3> QED
            BY <3>1, <3>2, <3>3, <3>4
    <2>2. CASE k = m + 1
        <3>1. s[k] = i /\ lines[i] >= k
            BY <1>1, <1>4, <1>5, <2>2 DEF v
        <3>2. \A l \in i + 1 .. i : FALSE
            BY <1>1
        <3> QED
            BY <3>1, <3>2
    <2> QED
        BY <1>4, <2>1, <2>2
<1>7. ASSUME NEW h \in 1 .. i, IsOpen(lines, h, i) PROVE \E k \in 1 .. m + 1 : s[k] = h
    <2>1. CASE h = i
        <3>1. m + 1 \in 1 .. m + 1
            BY <1>4
        <3> QED
            BY <1>5, <2>1, <3>1
    <2>2. CASE h # i
        <3>1. h \in 1 .. n /\ i \in h + 1 .. i /\ \A l \in h + 1 .. n : l \in h + 1 .. i
            BY <1>1, <2>2
        <3>2. IsOpen(lines, h, n)
            BY <1>7, <3>1 DEF IsOpen
        <3>3. PICK k \in 1 .. Len(stack) : stack[k] = h
            BY <3>1, <3>2 DEF IsPath
        <3>4. lines[h] >= k
            BY <3>3 DEF IsPath
        <3>5. v > lines[h] /\ lines[h] \in Int
            <4>1. lines[i] <= 0 \/ lines[i] > lines[h]
                BY <1>7, <3>1 DEF IsOpen
            <4>2. h \in 1 .. Len(lines)
                BY <1>1, <3>1
            <4> QED
                BY <1>1, <4>1, <4>2, LineLevels DEF v
        <3>6. k \in 1 .. m
            BY <1>1, <1>2, <1>3, <3>4, <3>5
        <3>7. k \in 1 .. m + 1
            BY <1>4, <3>6
        <3> QED
            BY <1>3, <1>5, <3>3, <3>6, <3>7
    <2> QED
        BY <2>1, <2>2
<1>8. IsPath(s, lines, i)
    BY <1>5, <1>6, <1>7 DEF IsPath
<1> QED
    BY <1>8 DEF s, o, v

\* One more line.
LEMMA TakeLineFacts ==
    ASSUME NEW lines \in Seq(LineKinds), NEW n \in 0 .. Len(lines) - 1, NEW acc \in Sections(lines, n)
    PROVE  TakeLine(acc, lines, n + 1) \in Sections(lines, n + 1)
<1> DEFINE i == n + 1
           a == acc.from
<1>1. n \in Nat /\ i \in 1 .. Len(lines) /\ i \in Nat /\ i - 1 = n /\ n \in 0 .. Len(lines) /\ lines[i] \in Int
    <2>1. n \in Nat /\ i \in 1 .. Len(lines) /\ i \in Nat /\ i - 1 = n /\ n \in 0 .. Len(lines)
        OBVIOUS
    <2> QED
        BY <2>1, LineLevels
<1>2. /\ acc \in [from : Nat, stack : Seq(Nat), chunks : Seq(ChunkRecords)]
      /\ a \in 1 .. n + 1 /\ \A l \in a + 1 .. n : lines[l] <= 0
      /\ IsPath(acc.stack, lines, n) /\ Cover(acc.chunks, lines, a)
    BY DEF Sections
<1>3. CASE lines[i] <= 0
    <2>1. a \in 1 .. i + 1 /\ \A l \in a + 1 .. i : l \in a + 1 .. n \/ l = i
        BY <1>1, <1>2
    <2>2. \A l \in a + 1 .. i : lines[l] <= 0
        BY <1>2, <1>3, <2>1
    <2>3. IsPath(acc.stack, lines, i)
        <3>1. acc.stack \in Seq(Nat) /\ \A k \in 1 .. Len(acc.stack) : acc.stack[k] \in Nat
            BY <1>2
        <3>2. ASSUME NEW k \in 1 .. Len(acc.stack)
              PROVE  lines[acc.stack[k]] >= k /\ \A l \in acc.stack[k] + 1 .. i : lines[l] <= 0 \/ lines[l] > k
            <4>1. \A l \in acc.stack[k] + 1 .. i : l \in acc.stack[k] + 1 .. n \/ l = i
                BY <1>1, <3>1
            <4>2. lines[acc.stack[k]] >= k /\ \A l \in acc.stack[k] + 1 .. n : lines[l] <= 0 \/ lines[l] > k
                BY <1>2 DEF IsPath
            <4> QED
                BY <1>3, <4>1, <4>2
        <3>3. ASSUME NEW h \in 1 .. i, IsOpen(lines, h, i) PROVE \E k \in 1 .. Len(acc.stack) : acc.stack[k] = h
            <4>1. h # i
                BY <1>1, <1>3, <3>3 DEF IsOpen
            <4>2. h \in 1 .. n /\ \A l \in h + 1 .. n : l \in h + 1 .. i
                BY <1>1, <4>1
            <4>3. IsOpen(lines, h, n)
                BY <3>3, <4>2 DEF IsOpen
            <4> QED
                BY <1>2, <4>2, <4>3 DEF IsPath
        <3> QED
            BY <3>1, <3>2, <3>3 DEF IsPath
    <2>4. TakeLine(acc, lines, i) = acc
        BY <1>3 DEF TakeLine
    <2> HIDE DEF i
    <2>5. acc \in Sections(lines, i)
        BY <1>2, <2>1, <2>2, <2>3 DEF Sections
    <2> QED
        BY <2>4, <2>5 DEF i
<1>4. CASE lines[i] > 0
    <2> DEFINE s == Append(Outer(acc.stack, lines[i]), i)
               cs == acc.chunks \o Chunk(lines, a, n, acc.stack)
    <2>1. IsPath(s, lines, i)
        BY <1>2, <1>4, HeadingPath
    <2>2. Cover(cs, lines, i)
        BY <1>1, <1>2, ChunkCovers
    <2>3. TakeLine(acc, lines, i) = [from |-> i, stack |-> s, chunks |-> cs]
        BY <1>1, <1>4 DEF TakeLine
    <2>4. i \in 1 .. i + 1 /\ \A l \in i + 1 .. i : lines[l] <= 0
        BY <1>1
    <2>5. s \in Seq(Nat) /\ cs \in Seq(ChunkRecords)
        BY <2>1, <2>2 DEF IsPath, Cover
    <2> HIDE DEF s, cs, i
    <2>6. [from |-> i, stack |-> s, chunks |-> cs] \in Sections(lines, i)
        BY <1>1, <2>1, <2>2, <2>4, <2>5 DEF Sections
    <2> QED
        BY <2>3, <2>6 DEF i
<1> QED
    BY <1>1, <1>3, <1>4

\* The values of the loop over the lines.
LineLoop(g, lines) ==
    g = [n \in 0 .. Len(lines) |-> IF n = 0 THEN [from |-> 1, stack |-> <<>>, chunks |-> <<>>]
                                   ELSE TakeLine(g[n - 1], lines, n)]

\* The chunks of any note.
LEMMA ChunksFacts ==
    ASSUME NEW lines \in Seq(LineKinds)
    PROVE  Cover(Chunks(lines), lines, Len(lines) + 1)
<1> DEFINE m == Len(lines)
           b == [from |-> 1, stack |-> <<>>, chunks |-> <<>>]
           I == [n \in 0 .. m |-> Sections(lines, n)]
           f == [n \in 1 .. m |-> [acc \in I[n - 1] |-> TakeLine(acc, lines, n)]]
           ran == CHOOSE g : LineLoop(g, lines)
<1>1. m \in Nat
    OBVIOUS
<1>2. b \in Sections(lines, 0)
    <2> DEFINE e == <<>>
    <2>1. e \in Seq(Nat) /\ e \in Seq(ChunkRecords) /\ Len(e) = 0
        OBVIOUS
    <2> HIDE DEF e
    <2>2. IsPath(e, lines, 0)
        BY <2>1 DEF IsPath
    <2>3. Cover(e, lines, 1)
        BY <2>1 DEF Cover
    <2>4. [from |-> 1, stack |-> e, chunks |-> e] \in Sections(lines, 0)
        BY <2>1, <2>2, <2>3 DEF Sections
    <2> QED
        BY <2>4 DEF e
<1>3. \A n \in 0 .. m : I[n] = Sections(lines, n)
    OBVIOUS
<1>4. \A n \in 1 .. m : n \in 0 .. m /\ n - 1 \in 0 .. m - 1 /\ n - 1 \in 0 .. m /\ (n - 1) + 1 = n
    BY <1>1
<1> HIDE DEF I, b, m
<1>5. \A n \in 1 .. m : \A acc \in I[n - 1] : TakeLine(acc, lines, n) \in I[n] /\ f[n][acc] = TakeLine(acc, lines, n)
    <2> TAKE n \in 1 .. m
    <2> TAKE acc \in I[n - 1]
    <2>1. acc \in Sections(lines, n - 1) /\ n - 1 \in 0 .. Len(lines) - 1
        BY <1>3, <1>4 DEF m
    <2>2. TakeLine(acc, lines, (n - 1) + 1) \in Sections(lines, (n - 1) + 1)
        BY <2>1, TakeLineFacts
    <2> QED
        BY <1>3, <1>4, <2>2
<1> HIDE DEF f
<1>6. b \in I[0]
    BY <1>1, <1>2, <1>3
<1>7. \A n \in 1 .. m : \A acc \in I[n - 1] : f[n][acc] \in I[n]
    BY <1>5
<1>8. \A n \in 0 .. m : n # 0 => n \in 1 .. m
    BY <1>1
<1>9. PICK g : g = [n \in 0 .. m |-> g[n]] /\ HasTurns(g, f, b, m) /\ \A n \in 0 .. m : g[n] \in I[n]
    BY <1>1, <1>6, <1>7, TurnsExist
<1>10. LineLoop(g, lines)
    <2>1. \A n \in 1 .. m : g[n] = TakeLine(g[n - 1], lines, n)
        BY <1>4, <1>5, <1>9 DEF HasTurns
    <2>2. \A n \in 0 .. m : g[n] = IF n = 0 THEN b ELSE TakeLine(g[n - 1], lines, n)
        BY <1>8, <1>9, <2>1 DEF HasTurns
    <2> QED
        BY <1>9, <2>2 DEF LineLoop, m, b
<1>11. LineLoop(ran, lines)
    BY <1>10
<1>12. Chunks(lines) = ran[m].chunks \o Chunk(lines, ran[m].from, m, ran[m].stack)
    BY DEF Chunks, LineLoop, m
<1> HIDE DEF ran
<1>13. ran[m] \in Sections(lines, m)
    <2>1. \A n \in 0 .. m : ran[n] = IF n = 0 THEN b ELSE TakeLine(ran[n - 1], lines, n)
        BY <1>11 DEF LineLoop, m, b
    <2>2. ran[0] \in I[0] /\ \A n \in 1 .. m : ran[n - 1] \in I[n - 1] => ran[n] \in I[n]
        <3>1. ran[0] = b
            BY <1>1, <2>1
        <3>2. \A n \in 1 .. m : ran[n] = TakeLine(ran[n - 1], lines, n)
            BY <1>4, <2>1
        <3> QED
            BY <1>5, <1>6, <3>1, <3>2
    <2>3. \A n \in 0 .. m : ran[n] \in I[n]
        BY <1>1, <2>2, RunInvariant
    <2> QED
        BY <1>1, <1>3, <2>3
<1> DEFINE end == ran[m]
<1> HIDE DEF end
<1>14. /\ end.from \in 1 .. m + 1 /\ \A l \in end.from + 1 .. m : lines[l] <= 0
       /\ IsPath(end.stack, lines, m) /\ Cover(end.chunks, lines, end.from) /\ m \in 0 .. Len(lines)
    BY <1>1, <1>13 DEF Sections, end, m
<1>15. Cover(end.chunks \o Chunk(lines, end.from, m, end.stack), lines, m + 1)
    BY <1>14, ChunkCovers
<1> QED
    BY <1>12, <1>15 DEF end, m

\* The chunks of a note hold its lines, in order, under their headings, for any note.
LEMMA ChunksAreExact == TextInit => ChunksCoverNote
<1> SUFFICES ASSUME TextInit, input.kind = "note" PROVE ChunksCoverNote
    BY DEF ChunksCoverNote
<1> DEFINE lines == input.lines
           cs == Chunks(lines)
<1>1. lines \in Seq(LineKinds)
    BY TextAssumption DEF TextInit, NoteTexts
<1> HIDE DEF lines
<1>2. DOMAIN lines = 1 .. Len(lines) /\ Len(lines) \in Nat /\ (Len(lines) + 1) - 1 = Len(lines)
    BY <1>1
<1>3. Cover(cs, lines, Len(lines) + 1)
    BY <1>1, ChunksFacts
<1> HIDE DEF cs
<1>4. DOMAIN cs = 1 .. Len(cs) /\ ToSet(cs) = {cs[i] : i \in 1 .. Len(cs)}
    BY <1>3 DEF Cover, ToSet
<1>5. /\ \A i \in DOMAIN cs, j \in DOMAIN cs : i < j => cs[i].to < cs[j].from
      /\ \A l \in DOMAIN lines : lines[l] # Empty => \E i \in DOMAIN cs : l \in cs[i].from .. cs[i].to
    BY <1>2, <1>3, <1>4 DEF Cover
<1>6. ASSUME NEW c \in ToSet(cs)
      PROVE  /\ \A l \in c.from + 1 .. c.to : lines[l] <= 0
             /\ \A k \in DOMAIN c.path :
                   /\ lines[c.path[k]] >= k
                   /\ \A l \in c.path[k] + 1 .. c.from : lines[l] <= 0 \/ lines[l] > k
             /\ \A h \in 1 .. c.from :
                   (lines[h] > 0 /\ \A l \in h + 1 .. c.from : lines[l] <= 0 \/ lines[l] > lines[h])
                       => Contains(c.path, h)
    <2>1. IsSection(c, lines)
        BY <1>3, <1>4 DEF Cover
    <2>2. DOMAIN c.path = 1 .. Len(c.path)
        BY <2>1 DEF IsSection, IsPath
    <2> QED
        BY <2>1, <2>2 DEF IsSection, IsPath, IsOpen, Contains
<1> QED
    BY <1>5, <1>6 DEF ChunksCoverNote, cs, lines

-----------------------------------------------------------------------------
\* The excerpts of a body.

\* What is padded, and what is shown: a stretch of the body and a place in it.
Stretches == {w \in [lo : Nat, hi : Nat, m : Nat] : w.lo < w.hi}

Inside(e, w) == w.lo <= e.lo /\ e.hi <= w.hi

\* A window begins with one of the stretches it shows, its offset is the first of theirs, and all
\* it shows is close to one of them.
IsWindow(w, D) ==
    /\ \E e \in D : Inside(e, w) /\ e.lo = w.lo
    /\ \E e \in D : Inside(e, w) /\ e.m = w.m
    /\ \A e \in D : Inside(e, w) => w.m <= e.m
    /\ \A x \in w.lo .. w.hi - 1 : \E e \in D : Inside(e, w) /\ e.lo - Gap <= x /\ x < e.hi + Gap

\* The windows of these stretches, in order and apart.
IsCover(out, D) ==
    /\ \A i \in 1 .. Len(out) : \A j \in 1 .. Len(out) : i < j => out[i].hi + Gap < out[j].lo
    /\ \A e \in D : \E i \in 1 .. Len(out) : Inside(e, out[i])
    /\ \A i \in 1 .. Len(out) : IsWindow(out[i], D)
Covers(D) == {out \in Seq(Stretches) : IsCover(out, D)}

\* A stretch that begins behind a window is not part of it.
LEMMA WindowBefore ==
    ASSUME NEW D \in SUBSET Stretches, NEW w \in Stretches, NEW e \in Stretches, IsWindow(w, D), w.hi < e.lo
    PROVE  IsWindow(w, D \cup {e}) /\ ~ Inside(e, w)
<1>1. /\ w.lo \in Nat /\ w.hi \in Nat /\ w.lo < w.hi
      /\ e.lo \in Nat /\ e.hi \in Nat /\ e.lo < e.hi
    BY DEF Stretches
<1>2. ~ Inside(e, w)
    BY <1>1 DEF Inside
<1>3. \A d \in D \cup {e} : Inside(d, w) => d \in D
    BY <1>2
<1> QED
    BY <1>2, <1>3 DEF IsWindow

\* A stretch behind all windows opens one.
LEMMA OpenFacts ==
    ASSUME NEW D \in SUBSET Stretches, NEW out \in Covers(D), NEW e \in Stretches,
           \A i \in 1 .. Len(out) : out[i].hi + Gap < e.lo
    PROVE  Append(out, e) \in Covers(D \cup {e})
<1> DEFINE new == Append(out, e)
           n == Len(out)
           E == D \cup {e}
<1>1. out \in Seq(Stretches) /\ IsCover(out, D) /\ Gap \in Nat
    BY TextAssumption DEF Covers
<1>2. /\ new \in Seq(Stretches) /\ Len(new) = n + 1 /\ n \in Nat
      /\ \A i \in 1 .. n : new[i] = out[i] /\ out[i] \in Stretches
      /\ new[n + 1] = e
    BY <1>1
<1> HIDE DEF new, n
<1>3. \A i \in 1 .. n + 1 : i \in 1 .. n \/ i = n + 1
    BY <1>2
<1>4. /\ e.lo \in Nat /\ e.hi \in Nat /\ e.m \in Nat /\ e.lo < e.hi
      /\ \A d \in D : d.lo \in Nat /\ d.hi \in Nat /\ d.lo < d.hi
      /\ \A i \in 1 .. n : out[i].lo \in Nat /\ out[i].hi \in Nat /\ out[i].lo < out[i].hi
    BY <1>2 DEF Stretches
<1>5. \A i \in 1 .. n : out[i].hi + Gap < e.lo /\ out[i].hi < e.lo
    BY <1>1, <1>4 DEF n
<1>6. \A i \in 1 .. n : IsWindow(out[i], E)
    BY <1>1, <1>2, <1>5, WindowBefore DEF IsCover, n
<1>7. IsWindow(e, E)
    <2>1. Inside(e, e)
        BY <1>4 DEF Inside
    <2>2. \A d \in D : ~ Inside(d, e)
        <3> TAKE d \in D
        <3>1. PICK i \in 1 .. n : Inside(d, out[i])
            BY <1>1 DEF IsCover, n
        <3>2. d.hi < e.lo
            BY <1>4, <1>5, <3>1 DEF Inside
        <3> QED
            BY <1>4, <3>2 DEF Inside
    <2>3. \A x \in e.lo .. e.hi - 1 : e.lo - Gap <= x /\ x < e.hi + Gap
        BY <1>1, <1>4
    <2>4. \A d \in E : Inside(d, e) => d = e
        BY <2>2
    <2>5. \A d \in E : Inside(d, e) => e.m <= d.m
        BY <1>4, <2>4
    <2> QED
        BY <2>1, <2>3, <2>5 DEF IsWindow
<1>8. ASSUME NEW i \in 1 .. n + 1, NEW j \in 1 .. n + 1, i < j
      PROVE  new[i].hi + Gap < new[j].lo
    <2>1. i \in 1 .. n
        BY <1>2, <1>8
    <2>2. CASE j = n + 1
        BY <1>2, <1>5, <2>1, <2>2
    <2>3. CASE j \in 1 .. n
        BY <1>1, <1>2, <2>1, <2>3, <1>8 DEF IsCover, n
    <2> QED
        BY <1>3, <2>2, <2>3
<1>9. \A d \in E : \E i \in 1 .. n + 1 : Inside(d, new[i])
    <2>1. Inside(e, new[n + 1]) /\ n + 1 \in 1 .. n + 1
        BY <1>2, <1>4 DEF Inside
    <2>2. \A d \in D : \E i \in 1 .. n : Inside(d, new[i])
        BY <1>1, <1>2 DEF IsCover, n
    <2>3. \A i \in 1 .. n : i \in 1 .. n + 1
        BY <1>2
    <2> QED
        BY <2>1, <2>2, <2>3
<1>10. \A i \in 1 .. n + 1 : IsWindow(new[i], E)
    BY <1>2, <1>3, <1>6, <1>7
<1>11. IsCover(new, E)
    BY <1>2, <1>8, <1>9, <1>10 DEF IsCover
<1> QED
    BY <1>2, <1>11 DEF Covers, new

\* The last element replaced.
LEMMA ReplaceLast ==
    ASSUME NEW S, NEW q \in Seq(S), q # <<>>, NEW x \in S
    PROVE  /\ Append(Front(q), x) \in Seq(S) /\ Len(Append(Front(q), x)) = Len(q) /\ Len(q) \in Nat \ {0}
           /\ \A i \in 1 .. Len(q) - 1 : Append(Front(q), x)[i] = q[i]
           /\ Append(Front(q), x)[Len(q)] = x
<1> DEFINE f == Front(q)
           a == Append(f, x)
           n == Len(q)
<1>1. n \in Nat \ {0} /\ n - 1 \in Nat /\ \A i \in 1 .. n - 1 : q[i] \in S
    OBVIOUS
<1>2. f \in Seq(S) /\ Len(f) = n - 1 /\ \A i \in 1 .. n - 1 : f[i] = q[i]
    <2>1. f = SubSeq(q, 1, n - 1)
        BY DEF Front
    <2> HIDE DEF f, n
    <2>2. 1 \in Int /\ n - 1 \in Int /\ (n - 1) - 1 + 1 = n - 1 /\ (\A i \in 1 .. n - 1 : 1 + i - 1 = i)
          /\ (IF 1 <= n - 1 THEN (n - 1) - 1 + 1 ELSE 0) = n - 1
        BY <1>1
    <2> DEFINE p == n - 1
    <2> HIDE DEF p
    <2>3. p \in Int /\ p - 1 + 1 = p /\ (IF 1 <= p THEN p - 1 + 1 ELSE 0) = p /\ \A i \in 1 .. p : q[i] \in S
        BY <1>1, <2>2 DEF p
    <2>4. /\ SubSeq(q, 1, p) \in Seq(S)
          /\ Len(SubSeq(q, 1, p)) = IF 1 <= p THEN p - 1 + 1 ELSE 0
          /\ \A i \in 1 .. p - 1 + 1 : SubSeq(q, 1, p)[i] = q[1 + i - 1]
        BY <2>3, SubSeqProperties
    <2> QED
        BY <2>1, <2>2, <2>3, <2>4 DEF p
<1> HIDE DEF f, n
<1>3. a \in Seq(S) /\ Len(a) = (n - 1) + 1 /\ (\A i \in 1 .. n - 1 : a[i] = f[i]) /\ a[(n - 1) + 1] = x
    BY <1>1, <1>2, AppendProperties
<1> HIDE DEF a
<1>4. (n - 1) + 1 = n
    BY <1>1
<1> QED
    BY <1>1, <1>2, <1>3, <1>4 DEF a, f, n

\* A stretch that joins the last window makes it longer.
LEMMA JoinFacts ==
    ASSUME NEW D \in SUBSET Stretches, NEW out \in Covers(D), out # <<>>, NEW e \in Stretches,
           \A d \in D : d.lo <= e.lo, NEW w, w = out[Len(out)], e.lo <= w.hi + Gap,
           NEW v, v = [lo |-> w.lo, hi |-> IF e.hi > w.hi THEN e.hi ELSE w.hi, m |-> IF e.m < w.m THEN e.m ELSE w.m]
    PROVE  Append(Front(out), v) \in Covers(D \cup {e})
<1> DEFINE new == Append(Front(out), v)
           n == Len(out)
           E == D \cup {e}
<1>1. out \in Seq(Stretches) /\ IsCover(out, D) /\ Gap \in Nat
    BY TextAssumption DEF Covers
<1>2. n \in Nat \ {0} /\ n \in 1 .. n /\ (\A i \in 1 .. n : out[i] \in Stretches) /\ w = out[n] /\ w \in Stretches
    BY <1>1
<1>3. /\ w.lo \in Nat /\ w.hi \in Nat /\ w.m \in Nat /\ w.lo < w.hi
      /\ e.lo \in Nat /\ e.hi \in Nat /\ e.m \in Nat /\ e.lo < e.hi
    BY <1>2 DEF Stretches
<1>4. /\ v.lo = w.lo /\ v.hi = (IF e.hi > w.hi THEN e.hi ELSE w.hi) /\ v.m = (IF e.m < w.m THEN e.m ELSE w.m)
      /\ v.lo \in Nat /\ v.hi \in Nat /\ v.m \in Nat /\ v.lo < v.hi
    BY <1>3
<1>5. v \in Stretches
    <2>1. v = [lo |-> v.lo, hi |-> v.hi, m |-> v.m]
        BY <1>4
    <2> QED
        BY <1>4, <2>1 DEF Stretches
<1>6. /\ new \in Seq(Stretches) /\ Len(new) = n
      /\ (\A i \in 1 .. n - 1 : new[i] = out[i]) /\ new[n] = v
    BY <1>1, <1>5, ReplaceLast
<1> HIDE DEF new, n
<1>7. \A i \in 1 .. n : i = n \/ (i \in 1 .. n - 1 /\ i < n)
    BY <1>2
<1>8. /\ \A d \in D : d.lo \in Nat /\ d.hi \in Nat /\ d.m \in Nat /\ d.lo < d.hi
      /\ \A i \in 1 .. n : out[i].lo \in Nat /\ out[i].hi \in Nat /\ out[i].lo < out[i].hi
    BY <1>2 DEF Stretches
<1>9. IsWindow(w, D) /\ w.lo <= e.lo
    <2>1. IsWindow(w, D)
        BY <1>1, <1>2 DEF IsCover, n
    <2>2. PICK d \in D : d.lo = w.lo
        BY <2>1 DEF IsWindow
    <2> QED
        BY <2>1, <2>2
<1>10. \A i \in 1 .. n - 1 : i \in 1 .. n /\ out[i].hi + Gap < w.lo /\ out[i].hi < w.lo /\ out[i].hi < e.lo
    <2> TAKE i \in 1 .. n - 1
    <2>1. i \in 1 .. n /\ i < n
        BY <1>2
    <2>2. out[i].hi + Gap < w.lo
        BY <1>1, <1>2, <2>1 DEF IsCover, n
    <2> QED
        BY <1>1, <1>3, <1>8, <1>9, <2>1, <2>2
<1>11. \A i \in 1 .. n - 1 : IsWindow(out[i], E)
    BY <1>1, <1>2, <1>10, WindowBefore DEF IsCover, n
<1>12. Inside(e, v) /\ \A d \in D : Inside(d, w) => Inside(d, v)
    BY <1>3, <1>4, <1>8, <1>9 DEF Inside
<1>13. \A d \in D : Inside(d, v) => Inside(d, w)
    <2> TAKE d \in D
    <2> HAVE Inside(d, v)
    <2>1. PICK i \in 1 .. n : Inside(d, out[i])
        BY <1>1 DEF IsCover, n
    <2>2. CASE i \in 1 .. n - 1
        <3>1. d.hi <= out[i].hi /\ w.lo <= d.lo
            BY <1>4, <2>1 DEF Inside
        <3> QED
            BY <1>3, <1>8, <1>10, <2>2, <3>1
    <2> QED
        BY <1>2, <1>7, <2>1, <2>2
<1>14. IsWindow(v, E)
    <2>1. \E d \in E : Inside(d, v) /\ d.lo = v.lo
        BY <1>4, <1>9, <1>12 DEF IsWindow
    <2>2. \E d \in E : Inside(d, v) /\ d.m = v.m
        BY <1>4, <1>9, <1>12 DEF IsWindow
    <2>3. ASSUME NEW d \in E, Inside(d, v) PROVE v.m <= d.m
        <3>1. CASE d = e
            BY <1>3, <1>4, <3>1
        <3>2. CASE d \in D
            <4>1. w.m <= d.m
                BY <1>9, <1>13, <2>3, <3>2 DEF IsWindow
            <4> QED
                BY <1>3, <1>4, <1>8, <3>2, <4>1
        <3> QED
            BY <3>1, <3>2
    <2>4. ASSUME NEW x \in v.lo .. v.hi - 1
          PROVE  \E d \in E : Inside(d, v) /\ d.lo - Gap <= x /\ x < d.hi + Gap
        <3>1. x \in Int /\ w.lo <= x /\ x < v.hi
            BY <1>3, <1>4
        <3>2. CASE x < w.hi
            <4>1. x \in w.lo .. w.hi - 1
                BY <1>3, <3>1, <3>2
            <4> QED
                BY <1>9, <1>12, <4>1 DEF IsWindow
        <3>3. CASE x >= w.hi
            <4>1. x < e.hi /\ e.lo - Gap <= x /\ x < e.hi + Gap
                BY <1>1, <1>3, <1>4, <3>1, <3>3
            <4> QED
                BY <1>12, <4>1
        <3> QED
            BY <1>3, <3>1, <3>2, <3>3
    <2> QED
        BY <2>1, <2>2, <2>3, <2>4 DEF IsWindow
<1>15. \A i \in 1 .. n : IsWindow(new[i], E)
    BY <1>6, <1>7, <1>11, <1>14
<1>16. \A d \in E : \E i \in 1 .. n : Inside(d, new[i])
    <2>1. Inside(e, new[n]) /\ n \in 1 .. n
        BY <1>2, <1>6, <1>12
    <2>2. ASSUME NEW d \in D PROVE \E i \in 1 .. n : Inside(d, new[i])
        <3>1. PICK i \in 1 .. n : Inside(d, out[i])
            BY <1>1 DEF IsCover, n
        <3>2. CASE i = n
            BY <1>2, <1>6, <1>12, <3>1, <3>2
        <3>3. CASE i \in 1 .. n - 1
            BY <1>6, <3>1, <3>3
        <3> QED
            BY <1>7, <3>2, <3>3
    <2> QED
        BY <2>1, <2>2
<1>17. ASSUME NEW i \in 1 .. n, NEW j \in 1 .. n, i < j
       PROVE  new[i].hi + Gap < new[j].lo
    <2>1. i \in 1 .. n - 1
        BY <1>2, <1>17
    <2>2. CASE j = n
        BY <1>4, <1>6, <1>10, <2>1, <2>2
    <2>3. CASE j \in 1 .. n - 1
        BY <1>1, <1>6, <2>1, <2>3, <1>17 DEF IsCover, n
    <2> QED
        BY <1>7, <2>2, <2>3
<1>18. IsCover(new, E)
    BY <1>6, <1>15, <1>16, <1>17 DEF IsCover
<1> QED
    BY <1>6, <1>18 DEF Covers, new

\* One more stretch, none of those before it behind it.
LEMMA MergeFacts ==
    ASSUME NEW D \in SUBSET Stretches, NEW out \in Covers(D), NEW e \in Stretches, \A d \in D : d.lo <= e.lo
    PROVE  JoinOrOpen(out, e) \in Covers(D \cup {e})
<1>1. out \in Seq(Stretches) /\ IsCover(out, D) /\ Gap \in Nat
    BY TextAssumption DEF Covers
<1>2. CASE out = <<>>
    <2>1. \A i \in 1 .. Len(out) : out[i].hi + Gap < e.lo
        BY <1>2
    <2>2. JoinOrOpen(out, e) = Append(out, e)
        BY <1>2 DEF JoinOrOpen
    <2> QED
        BY <2>1, <2>2, OpenFacts
<1>3. CASE out # <<>> /\ ~ Joins(e, Last(out))
    <2> DEFINE n == Len(out)
    <2>1. n \in 1 .. n /\ Last(out) = out[n] /\ (\A i \in 1 .. n : out[i] \in Stretches) /\ n \in Nat
        BY <1>1, <1>3 DEF Last
    <2>2. e.lo \in Nat /\ \A i \in 1 .. n : out[i].lo \in Nat /\ out[i].hi \in Nat /\ out[i].lo < out[i].hi
        BY <2>1 DEF Stretches
    <2>3. out[n].hi + Gap < e.lo
        BY <1>1, <1>3, <2>1, <2>2 DEF Joins
    <2> HIDE DEF n
    <2>4. \A i \in 1 .. n : out[i].hi + Gap < e.lo
        <3> TAKE i \in 1 .. n
        <3>1. CASE i < n
            <4>1. out[i].hi + Gap < out[n].lo
                BY <1>1, <2>1, <3>1 DEF IsCover, n
            <4>2. out[n].lo \in Nat /\ out[n].hi \in Nat /\ out[n].lo < out[n].hi /\ out[i].hi \in Nat
                BY <2>1, <2>2
            <4>3. out[n].lo < e.lo
                BY <1>1, <2>2, <2>3, <4>2
            <4> QED
                BY <1>1, <2>2, <4>1, <4>2, <4>3
        <3> QED
            BY <2>1, <2>3, <3>1
    <2> QED
        BY <1>3, <2>4, OpenFacts DEF JoinOrOpen, n
<1>4. CASE out # <<>> /\ Joins(e, Last(out))
    <2> DEFINE w == Last(out)
               v == [lo |-> w.lo, hi |-> IF e.hi > w.hi THEN e.hi ELSE w.hi, m |-> IF e.m < w.m THEN e.m ELSE w.m]
    <2>1. JoinOrOpen(out, e) = Append(Front(out), v)
        BY <1>4 DEF JoinOrOpen
    <2>2. w = out[Len(out)] /\ e.lo <= w.hi + Gap
        BY <1>4 DEF Last, Joins
    <2>3. Append(Front(out), v) \in Covers(D \cup {e})
        BY <1>4, <2>2, JoinFacts
    <2> QED
        BY <2>1, <2>3
<1> QED
    BY <1>2, <1>3, <1>4

\* The image of a finite set.
LEMMA FiniteImage ==
    ASSUME NEW S, IsFiniteSet(S), NEW f, DOMAIN f = S
    PROVE  IsFiniteSet({f[x] : x \in S})
<1> DEFINE T == {f[x] : x \in S}
           g == [x \in S |-> f[x]]
<1>1. g \in Surjection(S, T)
    BY DEF Surjection
<1> QED
    BY <1>1, FS_Surjection

\* The matches of a body are finitely many, and lie in it.
LEMMA MatchFacts ==
    ASSUME NEW M \in MatchSets
    PROVE  /\ IsFiniteSet(M)
           /\ \A s \in M : s.start \in Nat /\ s.end \in Nat /\ s.start < s.end /\ s.end <= BodyLen
<1>1. M \subseteq Spans /\ BodyLen \in Nat
    BY TextAssumption DEF MatchSets, kSubset
<1>2. IsFiniteSet(M)
    <2> DEFINE A == 0 .. BodyLen - 2
               B == 1 .. 2
               P == A \X B
               f == [p \in P |-> [start |-> p[1], end |-> p[1] + p[2]]]
    <2>1. IsFiniteSet(A) /\ IsFiniteSet(B)
        <3>1. BodyLen - 2 \in Int /\ 0 \in Int /\ 1 \in Int /\ 2 \in Int
            BY <1>1
        <3>2. IsFiniteSet(0 .. BodyLen - 2)
            BY <3>1, FS_Interval
        <3>3. IsFiniteSet(1 .. 2)
            BY <3>1, FS_Interval
        <3> QED
            BY <3>2, <3>3
    <2> HIDE DEF A, B
    <2>2. IsFiniteSet(P)
        BY <2>1, FS_Product
    <2>3. \A x \in A, n \in B : <<x, n>> \in P /\ f[<<x, n>>] = [start |-> x, end |-> x + n]
        OBVIOUS
    <2>4. Spans \subseteq {f[p] : p \in P}
        <3>1. Spans = {[start |-> x, end |-> x + n] : x \in A, n \in B}
            BY DEF Spans, A, B
        <3> SUFFICES ASSUME NEW s \in Spans PROVE \E p \in P : s = f[p]
            OBVIOUS
        <3>2. PICK x \in A, n \in B : s = [start |-> x, end |-> x + n]
            BY <3>1
        <3> QED
            BY <2>3, <3>2
    <2>5. DOMAIN f = P
        OBVIOUS
    <2> HIDE DEF f, P
    <2>6. IsFiniteSet({f[p] : p \in P})
        BY <2>2, <2>5, FiniteImage
    <2> QED
        BY <1>1, <2>4, <2>6, FS_Subset
<1>3. ASSUME NEW s \in M PROVE s.start \in Nat /\ s.end \in Nat /\ s.start < s.end /\ s.end <= BodyLen
    <2>1. PICK x \in 0 .. BodyLen - 2, n \in 1 .. 2 : s = [start |-> x, end |-> x + n]
        BY <1>1 DEF Spans
    <2>2. s.start = x /\ s.end = x + n
        BY <2>1
    <2> QED
        BY <1>1, <2>2
<1> QED
    BY <1>2, <1>3

\* A match with its padding.
LEMMA ExpandFacts ==
    ASSUME NEW s, s.start \in Nat, s.end \in Nat, s.start < s.end, s.end <= BodyLen
    PROVE  /\ Expand(s) \in Stretches /\ Expand(s).m = s.start
           /\ Expand(s).lo <= s.start /\ s.end <= Expand(s).hi
           /\ s.start - Pad <= Expand(s).lo /\ Expand(s).hi <= s.end + Pad
<1> DEFINE l == IF s.start < Pad THEN 0 ELSE s.start - Pad
           h == Capped(s.end + Pad, BodyLen)
<1>1. BodyLen \in Nat /\ Pad \in Nat
    BY TextAssumption
<1>2. /\ l \in Nat /\ h \in Nat /\ l <= s.start /\ s.end <= h /\ l < h
      /\ s.start - Pad <= l /\ h <= s.end + Pad
    BY <1>1 DEF Capped
<1>3. Expand(s) = [lo |-> l, hi |-> h, m |-> s.start]
    BY DEF Expand
<1> HIDE DEF l, h
<1>4. Expand(s).lo = l /\ Expand(s).hi = h /\ Expand(s).m = s.start
    BY <1>3
<1>5. Expand(s) \in Stretches
    BY <1>2, <1>3, <1>4 DEF Stretches
<1> QED
    BY <1>2, <1>4, <1>5

\* One stretch comes before another, number by number.
Sooner(x, y) == \/ x.lo < y.lo
                \/ x.lo = y.lo /\ x.hi < y.hi
                \/ x.lo = y.lo /\ x.hi = y.hi /\ x.m < y.m

\* Stretches stand in one row.
LEMMA StretchOrder ==
    ASSUME NEW E \in SUBSET Stretches
    PROVE  /\ \A x \in E, y \in E : <<x, y>> \in ByStart(E) <=> Sooner(x, y)
           /\ Orders(ByStart(E), E)
<1>1. \A x \in E : /\ x.lo \in Nat /\ x.hi \in Nat /\ x.m \in Nat
                   /\ x = [lo |-> x.lo, hi |-> x.hi, m |-> x.m]
    BY DEF Stretches
<1>2. ASSUME NEW x \in E, NEW y \in E PROVE <<x, y>> \in ByStart(E) <=> Sooner(x, y)
    <2> DEFINE a1 == x.lo
               a2 == x.hi
               a3 == x.m
               b1 == y.lo
               b2 == y.hi
               b3 == y.m
    <2>1. <<x, y>> \in ByStart(E) <=> Lex(<<a1, a2, a3>>, <<b1, b2, b3>>)
        BY DEF ByStart
    <2>2. a1 \in Int /\ a2 \in Int /\ a3 \in Int /\ b1 \in Int /\ b2 \in Int /\ b3 \in Int
        BY <1>1
    <2>3. Sooner(x, y) <=> a1 < b1 \/ (a1 = b1 /\ a2 < b2) \/ (a1 = b1 /\ a2 = b2 /\ a3 < b3)
        BY DEF Sooner
    <2> HIDE DEF a1, a2, a3, b1, b2, b3
    <2>4. Lex(<<a1, a2, a3>>, <<b1, b2, b3>>) <=>
              a1 < b1 \/ (a1 = b1 /\ a2 < b2) \/ (a1 = b1 /\ a2 = b2 /\ a3 < b3)
        BY <2>2, LexOfThree
    <2> QED
        BY <2>1, <2>3, <2>4
<1>3. \A x \in E : ~ Sooner(x, x)
    BY <1>1 DEF Sooner
<1>4. ASSUME NEW x \in E, NEW y \in E, x # y PROVE Sooner(x, y) \/ Sooner(y, x)
    <2>1. ~ (x.lo = y.lo /\ x.hi = y.hi /\ x.m = y.m)
        BY <1>1, <1>4
    <2> QED
        BY <1>1, <2>1 DEF Sooner
<1>5. \A x \in E, y \in E, z \in E : Sooner(x, y) /\ Sooner(y, z) => Sooner(x, z)
    BY <1>1 DEF Sooner
<1> QED
    BY <1>2, <1>3, <1>4, <1>5 DEF Orders

\* The values of the loop over the padded matches.
WindowLoop(g, q) == g = [n \in 0 .. Len(q) |-> IF n = 0 THEN <<>> ELSE JoinOrOpen(g[n - 1], q[n])]

\* The stretches of the first n turns.
FirstOf(q, n) == {q[k] : k \in 1 .. n}

\* The windows of stretches in order.
LEMMA WindowLoopFacts ==
    ASSUME NEW q \in Seq(Stretches), \A i \in 1 .. Len(q) : \A j \in 1 .. Len(q) : i < j => q[i].lo <= q[j].lo,
           NEW ran, ran = CHOOSE g : WindowLoop(g, q)
    PROVE  ran[Len(q)] \in Covers(Elems(q))
<1> DEFINE m == Len(q)
           b == <<>>
           I == [n \in 0 .. m |-> Covers(FirstOf(q, n))]
           f == [n \in 1 .. m |-> [out \in I[n - 1] |-> JoinOrOpen(out, q[n])]]
<1>1. m \in Nat
    OBVIOUS
<1>2. b \in Covers(FirstOf(q, 0))
    <2>1. FirstOf(q, 0) = {}
        BY DEF FirstOf
    <2>2. b \in Seq(Stretches) /\ Len(b) = 0
        OBVIOUS
    <2> HIDE DEF b
    <2> QED
        BY <2>1, <2>2 DEF Covers, IsCover
<1>3. \A n \in 0 .. m : I[n] = Covers(FirstOf(q, n))
    OBVIOUS
<1>4. \A n \in 1 .. m : n \in 0 .. m /\ n - 1 \in 0 .. m /\ n - 1 \in Nat /\ n \in Nat
    BY <1>1
<1> HIDE DEF I, b
<1>5. \A n \in 1 .. m : \A out \in I[n - 1] : JoinOrOpen(out, q[n]) \in I[n] /\ f[n][out] = JoinOrOpen(out, q[n])
    <2> TAKE n \in 1 .. m
    <2> TAKE out \in I[n - 1]
    <2> DEFINE D == FirstOf(q, n - 1)
    <2>1. out \in Covers(D)
        BY <1>3, <1>4
    <2>2. D \subseteq Stretches /\ q[n] \in Stretches
        BY <1>1, <1>4 DEF FirstOf
    <2>3. \A d \in D : d.lo <= q[n].lo
        <3> TAKE d \in D
        <3>1. PICK k \in 1 .. n - 1 : d = q[k]
            BY DEF FirstOf
        <3>2. k \in 1 .. m /\ k < n
            BY <1>1, <1>4
        <3> QED
            BY <3>1, <3>2
    <2>4. FirstOf(q, n) = D \cup {q[n]}
        <3>1. \A k \in 1 .. n : k \in 1 .. n - 1 \/ k = n
            BY <1>4
        <3>2. n \in 1 .. n /\ \A k \in 1 .. n - 1 : k \in 1 .. n
            BY <1>4
        <3> QED
            BY <3>1, <3>2 DEF FirstOf
    <2> HIDE DEF D
    <2>5. JoinOrOpen(out, q[n]) \in Covers(D \cup {q[n]})
        BY <2>1, <2>2, <2>3, MergeFacts
    <2> QED
        BY <1>3, <1>4, <2>4, <2>5
<1> HIDE DEF f, m
<1>6. b \in I[0]
    BY <1>1, <1>2, <1>3
<1>7. \A n \in 1 .. m : \A out \in I[n - 1] : f[n][out] \in I[n]
    BY <1>5
<1>8. \A n \in 0 .. m : n # 0 => n \in 1 .. m
    BY <1>1
<1>9. PICK g : g = [n \in 0 .. m |-> g[n]] /\ HasTurns(g, f, b, m) /\ \A n \in 0 .. m : g[n] \in I[n]
    BY <1>1, <1>6, <1>7, TurnsExist
<1>10. WindowLoop(g, q)
    <2>1. \A n \in 1 .. m : g[n] = JoinOrOpen(g[n - 1], q[n])
        BY <1>4, <1>5, <1>9 DEF HasTurns
    <2>2. \A n \in 0 .. m : g[n] = IF n = 0 THEN b ELSE JoinOrOpen(g[n - 1], q[n])
        BY <1>8, <1>9, <2>1 DEF HasTurns
    <2> QED
        BY <1>9, <2>2 DEF WindowLoop, m, b
<1>11. WindowLoop(ran, q)
    BY <1>10
<1>12. \A n \in 0 .. m : ran[n] = IF n = 0 THEN b ELSE JoinOrOpen(ran[n - 1], q[n])
    BY <1>11 DEF WindowLoop, m, b
<1>13. ran[0] \in I[0] /\ \A n \in 1 .. m : ran[n - 1] \in I[n - 1] => ran[n] \in I[n]
    <2>1. ran[0] = b
        <3>1. 0 \in 0 .. m
            BY <1>1
        <3> QED
            BY <1>12, <3>1
    <2>2. \A n \in 1 .. m : ran[n] = JoinOrOpen(ran[n - 1], q[n])
        BY <1>4, <1>12
    <2> QED
        BY <1>5, <1>6, <2>1, <2>2
<1>14. \A n \in 0 .. m : ran[n] \in I[n]
    BY <1>1, <1>13, RunInvariant
<1>15. FirstOf(q, m) = Elems(q)
    BY DEF FirstOf, Elems, m
<1> QED
    BY <1>1, <1>3, <1>14, <1>15 DEF m

\* The windows of the matches of a body.
LEMMA MergeWindowsFacts ==
    ASSUME NEW M \in MatchSets
    PROVE  MergeWindows(M) \in Covers({Expand(s) : s \in M})
<1> DEFINE E == {Expand(s) : s \in M}
           q == Sorted(E, ByStart(E))
           ran == CHOOSE g : WindowLoop(g, q)
<1>1. IsFiniteSet(M) /\ \A s \in M : Expand(s) \in Stretches
    BY MatchFacts, ExpandFacts
<1>2. E \subseteq Stretches
    BY <1>1
<1>3. IsFiniteSet(E)
    <2> DEFINE f == [s \in M |-> Expand(s)]
    <2>1. DOMAIN f = M /\ E = {f[s] : s \in M}
        OBVIOUS
    <2> HIDE DEF f, E
    <2> QED
        BY <1>1, <2>1, FiniteImage
<1>4. MergeWindows(M) = ran[Len(q)]
    BY DEF MergeWindows, WindowLoop
<1> HIDE DEF E
<1>5. q \in Seq(E) /\ Elems(q) = E /\ Rises(q, ByStart(E))
    BY <1>2, <1>3, StretchOrder, SortedFacts
<1> HIDE DEF q, ran
<1>6. q \in Seq(Stretches) /\ \A i \in 1 .. Len(q) : q[i] \in E /\ q[i].lo \in Nat
    BY <1>2, <1>5 DEF Stretches
<1>7. ASSUME NEW i \in 1 .. Len(q), NEW j \in 1 .. Len(q), i < j PROVE q[i].lo <= q[j].lo
    <2>1. <<q[i], q[j]>> \in ByStart(E)
        BY <1>5, <1>7 DEF Rises
    <2>2. Sooner(q[i], q[j])
        BY <1>2, <1>6, <2>1, StretchOrder
    <2> QED
        BY <1>6, <2>2 DEF Sooner
<1>8. ran[Len(q)] \in Covers(Elems(q))
    BY <1>6, <1>7, WindowLoopFacts DEF ran
<1> QED
    BY <1>4, <1>5, <1>8 DEF E

\* The excerpts of a body show its matches, for any of them.
LEMMA WindowsAreExact == TextInit => WindowsCoverMatches
<1> SUFFICES ASSUME TextInit, input.kind = "body" PROVE WindowsCoverMatches
    BY DEF WindowsCoverMatches
<1> DEFINE M == input.matches
           E == {Expand(s) : s \in M}
           ws == MergeWindows(M)
           es == Excerpts(M)
           In(w) == {s \in M : w.lo <= s.start /\ s.end <= w.hi}
<1>1. M \in MatchSets
    BY DEF TextInit
<1>2. Gap \in Nat /\ Pad \in Nat
    BY TextAssumption
<1> HIDE DEF M
<1>3. ws \in Covers(E)
    BY <1>1, MergeWindowsFacts
<1>4. /\ \A s \in M : s.start \in Nat /\ s.end \in Nat /\ s.start < s.end
      /\ \A s \in M : Expand(s) \in Stretches /\ Expand(s).m = s.start
      /\ \A s \in M : Expand(s).lo <= s.start /\ s.end <= Expand(s).hi
      /\ \A s \in M : s.start - Pad <= Expand(s).lo /\ Expand(s).hi <= s.end + Pad
    BY <1>1, MatchFacts, ExpandFacts
<1> HIDE DEF ws, es
<1>5. /\ DOMAIN ws = 1 .. Len(ws) /\ Len(ws) \in Nat /\ IsCover(ws, E)
      /\ \A i \in 1 .. Len(ws) : ws[i] \in Stretches
    BY <1>3 DEF Covers
<1>6. \A i \in 1 .. Len(ws) : ws[i].lo \in Nat /\ ws[i].hi \in Nat /\ ws[i].m \in Nat
    BY <1>5 DEF Stretches
<1>7. \A s \in M : Expand(s).lo \in Nat /\ Expand(s).hi \in Nat
    BY <1>4 DEF Stretches
<1>8. \A s \in M : \A i \in 1 .. Len(ws) : Inside(Expand(s), ws[i]) => ws[i].lo <= s.start /\ s.end <= ws[i].hi
    BY <1>4, <1>6, <1>7 DEF Inside
<1>9. \A s \in M : \E i \in 1 .. Len(ws) : Inside(Expand(s), ws[i])
    BY <1>5 DEF IsCover
<1>10. ASSUME NEW i \in 1 .. Len(ws), NEW s \in In(ws[i]) PROVE Inside(Expand(s), ws[i])
    <2>1. PICK j \in 1 .. Len(ws) : Inside(Expand(s), ws[j])
        BY <1>9
    <2>2. ws[j].lo <= s.start /\ s.end <= ws[j].hi /\ ws[i].lo <= s.start /\ s.end <= ws[i].hi
        BY <1>8, <2>1
    <2>3. s.start \in Nat /\ s.end \in Nat /\ s.start < s.end
        BY <1>4
    <2>4. ~ (ws[i].hi + Gap < ws[j].lo) /\ ~ (ws[j].hi + Gap < ws[i].lo)
        BY <1>2, <1>6, <2>2, <2>3
    <2>5. ~ (i < j) /\ ~ (j < i)
        BY <1>5, <2>4 DEF IsCover
    <2>6. i = j
        BY <1>5, <2>5
    <2> QED
        BY <2>1, <2>6
<1>11. \A i \in DOMAIN ws, j \in DOMAIN ws : i < j => ws[i].hi + Gap < ws[j].lo
    BY <1>5 DEF IsCover
<1>12. ToSet(ws) = {ws[i] : i \in 1 .. Len(ws)}
    BY <1>5 DEF ToSet
<1>13. M = UNION {In(w) : w \in ToSet(ws)}
    BY <1>8, <1>9, <1>12
<1>14. ASSUME NEW i \in 1 .. Len(ws) PROVE ws[i].m = Min({s.start : s \in In(ws[i])})
    <2> DEFINE w == ws[i]
               S == {s.start : s \in In(w)}
    <2>1. IsWindow(w, E)
        BY <1>5 DEF IsCover
    <2>2. PICK s \in M : Inside(Expand(s), w) /\ Expand(s).m = w.m
        BY <2>1 DEF IsWindow
    <2>3. w.m \in S
        <3>1. s \in In(w) /\ s.start = w.m
            BY <1>4, <1>8, <2>2
        <3> QED
            BY <3>1
    <2>4. \A x \in S : w.m <= x
        <3> TAKE x \in S
        <3>1. PICK t \in In(w) : x = t.start
            OBVIOUS
        <3>2. Inside(Expand(t), w) /\ Expand(t) \in E /\ Expand(t).m = x
            BY <1>4, <1>10, <3>1
        <3> QED
            BY <2>1, <3>2 DEF IsWindow
    <2>5. S \subseteq Nat
        BY <1>4
    <2> HIDE DEF S
    <2>6. \A x \in S : (\A y \in S : x <= y) => x = w.m
        <3> TAKE x \in S
        <3> HAVE \A y \in S : x <= y
        <3>1. x <= w.m /\ w.m <= x /\ x \in Nat /\ w.m \in Nat
            BY <2>3, <2>4, <2>5
        <3> QED
            BY <3>1
    <2>7. Min(S) = w.m
        BY <2>3, <2>4, <2>6 DEF Min
    <2> QED
        BY <2>7 DEF S
<1>15. ASSUME NEW i \in 1 .. Len(ws), NEW x \in ws[i].lo .. ws[i].hi - 1
       PROVE  \E s \in In(ws[i]) : s.start - Pad - Gap <= x /\ x < s.end + Pad + Gap
    <2>1. IsWindow(ws[i], E)
        BY <1>5 DEF IsCover
    <2>2. PICK s \in M : Inside(Expand(s), ws[i]) /\ Expand(s).lo - Gap <= x /\ x < Expand(s).hi + Gap
        BY <2>1 DEF IsWindow
    <2>3. s \in In(ws[i])
        BY <1>8, <2>2
    <2>4. x \in Int
        BY <1>6
    <2> DEFINE e == Expand(s)
    <2>5. /\ s.start \in Nat /\ s.end \in Nat /\ e.lo \in Nat /\ e.hi \in Nat
          /\ s.start - Pad <= e.lo /\ e.hi <= s.end + Pad
          /\ e.lo - Gap <= x /\ x < e.hi + Gap
        BY <1>4, <1>7, <2>2
    <2> HIDE DEF e
    <2>6. s.start - Pad - Gap <= x /\ x < s.end + Pad + Gap
        <3> DEFINE a == s.start
                   z == s.end
                   l == e.lo
                   h == e.hi
        <3>1. /\ a \in Nat /\ z \in Nat /\ l \in Nat /\ h \in Nat /\ x \in Int /\ Gap \in Nat /\ Pad \in Nat
              /\ a - Pad <= l /\ h <= z + Pad /\ l - Gap <= x /\ x < h + Gap
            BY <1>2, <2>4, <2>5
        <3> HIDE DEF a, z, l, h
        <3>2. a - Pad - Gap <= x
            BY <3>1
        <3>3. x < z + Pad + Gap
            BY <3>1
        <3> QED
            BY <3>2, <3>3 DEF a, z
    <2> QED
        BY <2>3, <2>6
<1>16. ASSUME NEW i \in 1 .. Len(ws), i <= MaxSnippets
       PROVE  es[i] = [from |-> ws[i].lo, to |-> Capped(ws[i].hi, ws[i].lo + MaxShown), at |-> ws[i].m]
    <2>1. i \in 1 .. Capped(Len(ws), MaxSnippets)
        BY <1>5, <1>16, TextAssumption DEF Capped
    <2> QED
        BY <2>1 DEF Excerpts, ws, es
<1>17. ASSUME NEW i \in 1 .. Len(ws), i <= MaxSnippets
       PROVE  /\ es[i].at = Min({s.start : s \in In(ws[i])}) /\ es[i].from <= es[i].at /\ es[i].at < es[i].to
              /\ \A s \in In(ws[i]) : s.end <= ws[i].lo + MaxShown => es[i].from <= s.start /\ s.end <= es[i].to
    <2> DEFINE w == ws[i]
               to == Capped(w.hi, w.lo + MaxShown)
    <2> HIDE DEF to
    <2>1. es[i].from = w.lo /\ es[i].to = to /\ es[i].at = w.m
        <3>1. es[i] = [from |-> w.lo, to |-> to, at |-> w.m]
            BY <1>16, <1>17 DEF to
        <3> QED
            BY <3>1
    <2>2. w.lo \in Nat /\ w.hi \in Nat /\ w.m \in Nat /\ MaxShown \in Nat /\ Pad + Gap < MaxShown /\ w.lo < w.hi
        BY <1>5, <1>6, TextAssumption DEF Stretches
    <2>3. IsWindow(w, E)
        BY <1>5 DEF IsCover
    <2>4. PICK s \in M : Inside(Expand(s), w) /\ Expand(s).m = w.m
        BY <2>3 DEF IsWindow
    <2>5. w.lo <= w.m /\ w.m < w.hi
        <3>1. w.lo <= s.start /\ s.end <= w.hi /\ s.start = w.m /\ s.start < s.end /\ s.end \in Nat /\ s.start \in Nat
            BY <1>4, <1>8, <2>4
        <3> QED
            BY <2>2, <3>1
    <2>6. w.m <= w.lo + Pad + Gap
        <3>1. w.lo \in w.lo .. w.hi - 1
            BY <2>2
        <3>2. PICK t \in In(w) : t.start - Pad - Gap <= w.lo
            BY <1>15, <3>1
        <3>3. Expand(t) \in E /\ Inside(Expand(t), w) /\ Expand(t).m = t.start
            BY <1>4, <1>10, <3>2
        <3>4. w.m <= t.start /\ t.start \in Nat
            BY <1>4, <2>3, <3>2, <3>3 DEF IsWindow
        <3> QED
            BY <1>2, <2>2, <3>2, <3>4
    <2>7. w.m < w.lo + MaxShown
        BY <1>2, <2>2, <2>6
    <2>8. w.m < to
        BY <2>2, <2>5, <2>7 DEF Capped, to
    <2>9. \A t \in In(w) : t.end <= w.lo + MaxShown => w.lo <= t.start /\ t.end <= to
        <3> TAKE t \in In(w)
        <3>1. t.end <= w.hi /\ w.lo <= t.start
            OBVIOUS
        <3> QED
            BY <3>1 DEF Capped, to
    <2> QED
        BY <1>14, <2>1, <2>5, <2>8, <2>9
<1>18. /\ \A w \in ToSet(ws) : \A x \in w.lo .. w.hi - 1 :
             \E s \in In(w) : s.start - Pad - Gap <= x /\ x < s.end + Pad + Gap
       /\ \A i \in DOMAIN ws : i <= MaxSnippets =>
             /\ es[i].at = Min({s.start : s \in In(ws[i])}) /\ es[i].from <= es[i].at /\ es[i].at < es[i].to
             /\ \A s \in In(ws[i]) : s.end <= ws[i].lo + MaxShown => es[i].from <= s.start /\ s.end <= es[i].to
    <2> HIDE DEF In
    <2> QED
        BY <1>5, <1>12, <1>15, <1>17
<1> QED
    BY <1>11, <1>13, <1>18 DEF WindowsCoverMatches, M, ws, es

\* Recall looks for the words and pairs that were asked, cuts a note into its sections and shows
\* every match with what surrounds it (RecallTextIsExact), for any query, note and matches.
THEOREM RecallIsExact == TextInit => RecallTextIsExact
BY TermsAreExact, ChunksAreExact, WindowsAreExact DEF RecallTextIsExact

=============================================================================
