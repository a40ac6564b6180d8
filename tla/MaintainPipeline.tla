-------------------------- MODULE MaintainPipeline --------------------------
(***************************************************************************)
(* The maintenance of one day's digest file.  Every turn that ends appends *)
(* a line to the daily log and starts a pass of its own (post-turn); the   *)
(* maintenance loop starts one pass after the other (scheduled).  A pass   *)
(* takes maintainPipelineMu, reads the digest, asks the model, perhaps for *)
(* minutes, merges the answer into what it has read and rewrites the file. *)
(* The tools of turns write the same files without that mutex.             *)
(*                                                                         *)
(* Time stands for the stamps of log lines and of the loop's mark; it      *)
(* stops at Horizon.  The deadline of a pass, which runs from before it    *)
(* waits for the mutex, is one of the ways its model gives no answer.      *)
(***************************************************************************)
EXTENDS Digest, Integers, FiniteSets

CONSTANTS
    Turns,          \* the turns that end, one post-turn pass each
    Loop,           \* the passes of maintainloop
    Keys,           \* the facts bullets may state
    ToolKeys,       \* those that tools write
    Today, Elsewhere,   \* the headers: today's, and any other
    Sections,       \* what the model may answer, all with today's header somewhere
    MainModel, MaintModel, ScheduledModel,   \* configured models; None for unset
    MaxLines,       \* the size cap of today's section
    MinLines,       \* log lines a scheduled pass must find (min_log_bytes)
    High,           \* what an older version left as high_water_log_utc; 0 for none
    Interval, Overlap, MaxSpan,
    Start, Horizon, \* the clock's first and last value
    MaxUpsets,      \* bound on writes by tools, failed writes and crashes together
    None

Lines == [kind : {"header", "bullet", "other"}, of : Keys \cup {NoDurable, Garbled, Today, Elsewhere}]

ASSUME MaintainAssumption ==
    /\ Loop \notin Turns /\ None \notin Turns \cup {Loop}
    /\ {NoDurable, Garbled} \cap Keys = {} /\ NoDurable # Garbled /\ ToolKeys \subseteq Keys
    /\ Today # Elsewhere
    /\ \A section \in Sections : section \in Seq(Lines) /\ section # <<>>
    /\ MaxLines \in Nat \ {0, 1} /\ MinLines \in Nat \ {0}
    /\ {High, Interval, Overlap, MaxSpan, Start, Horizon, MaxUpsets} \subseteq Nat

Passes == Turns \cup {Loop}

VARIABLES
    now,        \* the clock
    logAt,      \* the stamp of each turn's line in the daily log; 0 for no line
    mark,       \* last_success_wall_utc; 0 for none, or an unreadable state file
    high,       \* high_water_log_utc, the same way
    digest,     \* the lines of today's file
    rules,      \* the bullets of MEMORY.md
    mu,         \* the holder of maintainPipelineMu
    pc,         \* where each pass stands
    local,      \* what a pass has read and got
    due,        \* when the loop's timer fires
    upsets,     \* bounded by MaxUpsets
    kept,       \* history: bullets that must not get lost
    stale,      \* history: passes since whose read a tool has written the digest
    taken,      \* history: facts that tools took out of a file since the last pass's reads
    covered,    \* history: turns whose line was in the window of a successful scheduled pass
    excused     \* history: lines no later window has to reach

textVars == <<digest, rules>>
markVars == <<mark, high>>
logVars  == <<logAt, markVars>>
histVars == <<kept, stale, taken, covered, excused>>
mpVars   == <<now, logAt, markVars, digest, rules, mu, pc, local, due,
              upsets, histVars>>

Nothing == [snap |-> <<>>, rules |-> {}, tries |-> <<>>, lines |-> {}, out |-> <<>>,
            given |-> {}, cut |-> {}]

-----------------------------------------------------------------------------
(* Pure parts.                                                             *)

\* ResolveMaintenanceModel, and the main model once more behind an override.
Resolved(p) ==
    IF p = Loop /\ ScheduledModel # None THEN ScheduledModel
    ELSE IF MaintModel # None THEN MaintModel ELSE MainModel
Overridden(p) == MaintModel # None \/ (p = Loop /\ ScheduledModel # None)
Tries(p) ==
    IF Overridden(p) /\ MainModel \notin {None, Resolved(p)}
    THEN <<Resolved(p), MainModel>> ELSE <<Resolved(p)>>

\* Variants for the mutation runs stand before what they replace.
WindowWithoutOverlap(t) == IF high # 0 THEN high ELSE IF mark # 0 THEN mark ELSE t - Interval

\* incrementalLineMinExclusive: the older version's cursor wins over the mark.
WindowStart(t) ==
    LET base == IF high # 0 THEN high - Overlap
                ELSE IF mark # 0 THEN mark - Overlap ELSE t - Interval
    IN IF base < t - MaxSpan THEN t - MaxSpan ELSE base

Logged == {t \in Turns : logAt[t] # 0}
InWindow(t) == {u \in Logged : logAt[u] > WindowStart(t) /\ logAt[u] <= t}

\* Lines a window cannot reach by its definition: older than the span, or than the first
\* look-back.
OutOfReach(t) == {u \in Logged : logAt[u] <= t - MaxSpan \/ (mark = 0 /\ high = 0 /\ logAt[u] <= t - Interval)}

\* What a pass does with a section that has today's header in it.
MergedAway(l, section) == Dedupe(section, l.rules)
Older(l) == l.rules \cup KeysOf(Without(l.snap, Span(l.snap, Today)))
Merged(l, section) ==
    Merge(Block(l.snap, Span(l.snap, Today)), Dedupe(section, Older(l)), Today, Older(l))
NewSection(l, section) == Trim(Merged(l, section), Today, MaxLines)

NothingNew(l, section) ==
    \/ OnlyNoDurable(Dedupe(section, Older(l)))
    \/ OnlyNoDurable(NewSection(l, section))
    \/ /\ Span(l.snap, Today).found
       /\ NewSection(l, section) = Block(l.snap, Span(l.snap, Today))

\* What stands behind today's block in the pass's copy; nothing if there is no block.
Behind(l) == After(l.snap, Span(l.snap, Today))

\* The text a pass writes: its own copy with the block replaced, or the file as it is now
\* with the section behind it.
NewText(l) ==
    LET s == Span(l.snap, Today)
    IN IF s.found THEN Before(l.snap, s) \o Joined(l.out, After(l.snap, s)) ELSE digest \o l.out

\* The last fact of a section, when the next header runs into it.
RunTogether(l, out) ==
    IF Span(l.snap, Today).found /\ Behind(l) # <<>> THEN {Last(out).of} ELSE {}

\* The facts that do not outlive the write: those the size cap drops, and that one.
Dropped(l, section) ==
    (KeysOf(Merged(l, section)) \ KeysOf(NewSection(l, section))) \cup RunTogether(l, NewSection(l, section))

\* The facts of a well-formed answer.  One that starts with another line, or has the bullet
\* for nothing among its facts, is not, and none is on a file that has got that bullet: the
\* code drops everything when, the known keys left out, that bullet comes first.
Given(l, section) ==
    IF Head(section) = Header(Today) /\ NoDurable \notin KeysOf(section) \cup KeysOf(l.snap)
    THEN KeysOf(section) ELSE {}

-----------------------------------------------------------------------------
AlwaysFree(x)            == TRUE
UnlockedOnSuccessOnly(p) == IF pc[p] = "ask" THEN mu ELSE None

Free(x)     == x = None
Released(p) == None     \* the deferred Unlock
Open        == {p \in Passes : pc[p] \in {"ask", "write"}}

MaintInit ==
    /\ now = Start
    /\ logAt = [t \in Turns |-> 0] /\ mark = 0
    /\ high = High
    /\ digest = <<>> /\ rules = {}
    /\ mu = None
    /\ pc = [p \in Passes |-> "idle"] /\ local = [p \in Passes |-> Nothing]
    /\ due = Start
    /\ upsets = 0
    /\ kept = {} /\ stale = {} /\ taken = {} /\ covered = {} /\ excused = {}

\* PostTurn appends the turn's line (or fails to), then the turn's pass is started.  A line
\* behind the probe of a pass that runs is not in its window.
EndTurn(t) ==
    /\ pc[t] = "idle"
    /\ \/ logAt' = [logAt EXCEPT ![t] = now] /\ upsets' = upsets
       \/ upsets < MaxUpsets /\ upsets' = upsets + 1 /\ logAt' = logAt
    /\ pc' = [pc EXCEPT ![t] = "wait"]
    /\ excused' = IF pc[Loop] \in {"ask", "write", "persist"} THEN excused \cup {t} ELSE excused
    /\ UNCHANGED <<now, markVars, textVars, mu, local, due, kept, stale, taken, covered>>

\* maintainloop.run: at once, then whenever the timer fires, until the root context ends.
LoopWakes ==
    /\ pc[Loop] = "idle"
    /\ \/ now >= due /\ pc' = [pc EXCEPT ![Loop] = "wait"]
       \/ pc' = [pc EXCEPT ![Loop] = "done"]
    /\ UNCHANGED <<now, logVars, textVars, mu, local, due, upsets, histVars>>

\* The pass is over; the loop sets its timer.
Over(p) ==
    /\ pc' = [pc EXCEPT ![p] = IF p = Loop THEN "idle" ELSE "done"]
    /\ local' = [local EXCEPT ![p] = Nothing]
    /\ due' = IF p = Loop THEN now + Interval ELSE due

\* The mutex, then the reads under it.  Too short a turn, or too little in the log, ends the
\* pass at once.
Enter(p) ==
    /\ pc[p] = "wait" /\ Free(mu)
    /\ \/ /\ p = Loop => Cardinality(InWindow(now)) >= MinLines
          /\ mu' = p
          /\ pc' = [pc EXCEPT ![p] = "ask"]
          /\ local' = [local EXCEPT ![p] =
                 [Nothing EXCEPT !.snap = digest, !.rules = rules, !.tries = Tries(p),
                                 !.lines = IF p = Loop THEN InWindow(now) ELSE {}]]
          /\ excused' = IF p = Loop THEN excused \cup OutOfReach(now) ELSE excused
          /\ stale' = stale \ {p}
          /\ taken' = {}
          /\ due' = due
       \/ /\ p = Loop => Cardinality(InWindow(now)) < MinLines
          /\ Over(p)
          /\ UNCHANGED <<mu, excused, stale, taken>>
    /\ UNCHANGED <<now, logVars, textVars, upsets, kept, covered>>

\* Leaving runDistill, on every path.
Leave(p) == mu' = Released(p) /\ Over(p)

\* No answer before the deadline (or the end of the loop's root context), an empty one, or one
\* without today's header: the next model, if there is one.
NoAnswer(p) ==
    /\ pc[p] = "ask"
    /\ IF Len(local[p].tries) > 1
       THEN /\ local' = [local EXCEPT ![p].tries = Tail(@)]
            /\ UNCHANGED <<mu, pc, due>>
       ELSE Leave(p)
    /\ UNCHANGED <<now, logVars, textVars, upsets, histVars>>

Answer(p, section) ==
    /\ pc[p] = "ask"
    /\ LET l == local[p] IN
       IF NothingNew(l, section)
       THEN /\ pc' = [pc EXCEPT ![p] = "persist"]
            /\ local' = [local EXCEPT ![p].given = Given(l, section)]
       ELSE /\ pc' = [pc EXCEPT ![p] = "write"]
            /\ local' = [local EXCEPT ![p].out = NewSection(l, section),
                                      ![p].cut = Dropped(l, section),
                                      ![p].given = Given(l, section)]
    /\ UNCHANGED <<now, logVars, textVars, mu, due, upsets, histVars>>

\* os.WriteFile, the mark in the recall index, the audit line.
Write(p) ==
    /\ pc[p] = "write"
    /\ digest' = NewText(local[p])
    /\ kept' = kept \ local[p].cut
    /\ local' = [local EXCEPT ![p].given = @ \ local[p].cut]
    /\ pc' = [pc EXCEPT ![p] = "persist"]
    /\ UNCHANGED <<now, logVars, rules, mu, due, upsets,
                   stale, taken, covered, excused>>

\* A file that was being written is cut short; what is gone with it is gone.
Torn(p) ==
    /\ \E n \in 0 .. Len(NewText(local[p])) : digest' = SubSeq(NewText(local[p]), 1, n)
    /\ kept' = kept \cap (KeysOf(digest') \cup rules)

\* A write that fails ends the pass, and the loop's mark stays.
WriteFails(p) ==
    /\ pc[p] = "write" /\ upsets < MaxUpsets
    /\ upsets' = upsets + 1
    /\ Torn(p) \/ UNCHANGED <<digest, kept>>
    /\ Leave(p)
    /\ UNCHANGED <<now, logVars, rules, stale, taken, covered, excused>>

\* persistScheduledMaintainSuccess stamps the end of the pass and copies the older version's
\* cursor.  Its own write may fail, and may leave a file that no longer reads: both are gone.
Persist(p) ==
    /\ pc[p] = "persist"
    /\ \/ /\ mark' = IF p = Loop THEN now ELSE mark
          /\ UNCHANGED <<high, upsets>>
       \/ /\ p = Loop /\ upsets < MaxUpsets
          /\ upsets' = upsets + 1
          /\ \/ UNCHANGED markVars
             \/ mark' = 0 /\ high' = 0
    /\ covered' = covered \cup local[p].lines
    /\ kept' = kept \cup (local[p].given \ taken)
    /\ Leave(p)
    /\ UNCHANGED <<now, logAt, textVars, stale, taken, excused>>

\* A tool of some turn puts a bullet behind the digest, with or without a section of its own,
\* or writes the digest anew; or it adds to MEMORY.md, or replaces it (write_behavior_policy
\* with target memory).
ToolWrites(k) ==
    /\ upsets < MaxUpsets
    /\ upsets' = upsets + 1
    /\ \/ /\ digest' \in {Append(digest, Bullet(k)), <<Bullet(k)>>,
                          digest \o <<Header(Elsewhere), Bullet(k)>>}
          /\ stale' = stale \cup Open
          /\ rules' = rules
       \/ /\ rules' \in {rules \cup {k}, {k}}
          /\ UNCHANGED <<digest, stale>>
    /\ LET gone == (KeysOf(digest) \ KeysOf(digest')) \cup (rules \ rules')
       IN /\ taken' = taken \cup gone
          /\ kept' = (kept \ gone) \cup (IF Open = {} THEN {k} ELSE {})
    /\ UNCHANGED <<now, logVars, mu, pc, local, due, covered, excused>>

\* The process dies and starts again: the passes are gone, the loop begins at once.
Crash ==
    /\ upsets < MaxUpsets /\ upsets' = upsets + 1
    /\ pc' = [p \in Passes |-> IF p = Loop \/ pc[p] = "idle" THEN "idle" ELSE "done"]
    /\ mu' = None
    /\ local' = [p \in Passes |-> Nothing]
    /\ due' = now
    /\ \/ UNCHANGED <<digest, kept>>
       \/ \E p \in Passes : pc[p] = "write" /\ Torn(p)
    /\ UNCHANGED <<now, logVars, rules, stale, taken, covered, excused>>

Tick ==
    /\ now < Horizon /\ now' = now + 1
    /\ UNCHANGED <<logVars, textVars, mu, pc, local, due, upsets, histVars>>

Pass(p) ==
    \/ Enter(p) \/ NoAnswer(p) \/ (\E s \in Sections : Answer(p, s))
    \/ Write(p) \/ WriteFails(p) \/ Persist(p)

MaintNext ==
    \/ \E t \in Turns : EndTurn(t)
    \/ LoopWakes \/ Tick \/ Crash
    \/ \E p \in Passes : Pass(p)
    \/ \E k \in ToolKeys : ToolWrites(k)

\* A goroutine that waits for a Go mutex gets it; a call of the model returns at the latest
\* when the pass's deadline ends its context; writes return.
MaintFairness ==
    /\ \A p \in Passes : SF_mpVars(Enter(p))
    /\ WF_mpVars(\E p \in Passes : NoAnswer(p) \/ Write(p) \/ Persist(p))

MaintSpec == MaintInit /\ [][MaintNext]_mpVars /\ MaintFairness

-----------------------------------------------------------------------------
(* Properties.                                                             *)

\* While a pass waits for the model and until it rewrites the digest, its copy is what is
\* in the file, unless a tool wrote the file meanwhile: the passes exclude each other from
\* the read to the write, deadlines, failures and crashes included.
SnapshotIsCurrent ==
    \A p \in Open : mu = p /\ (p \notin stale => local[p].snap = digest)

\* A fact a pass was given in a well-formed answer and has finished with, or a tool wrote
\* while no pass was between its read and its write, stays in the digest or is one of the
\* rules, until the size cap cuts it, a write is cut short, a tool takes it out of one of the
\* two files, or a pass rewrites a block with another section behind it, where the block's
\* last bullet and that section's header become one line.
FactsAreKept == kept \subseteq KeysOf(digest) \cup rules

\* A line of the daily log that the next window will not reach was in the window of a pass
\* that succeeded, or is older than the windows go, or came while a pass was running: only
\* those are ever skipped.  Failed passes and crashes skip none; a state file that no longer
\* reads takes the windows back to the first look-back.
OnlyLateLinesAreSkipped ==
    \A t \in Logged \ covered :
        logAt[t] <= WindowStart(now) => t \in excused \cup OutOfReach(now)

\* Every pass ends, whatever the model does and however long others hold the mutex: none waits
\* or runs for ever.
PassesEnd ==
    \A p \in Passes : []<>(pc[p] \in {"idle", "done"})

=============================================================================
