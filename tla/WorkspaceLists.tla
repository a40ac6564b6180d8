--------------------------- MODULE WorkspaceLists ---------------------------
(***************************************************************************)
(* Two files the turns of all sessions of one workspace rewrite as a       *)
(* whole: tasks.json, under a mutex of the process, and                    *)
(* skills-recent.json, without one.  Each rewrite is a read, a change and  *)
(* a rename; a reader never sees half a file, and one that stops before    *)
(* the rename leaves the old one.                                          *)
(***************************************************************************)
EXTENDS Naturals, Sequences, SequencesExt, FiniteSets, Subsequences

CONSTANTS
    Editors,        \* the turns
    TaskIds, SkillNames,
    Statuses,       \* with "completed" among them
    MaxRecent,      \* MaxRecentEntries
    MaxChanges,     \* bound on the changes turns begin
    Nobody

ASSUME ListsAssumption ==
    /\ Nobody \notin Editors /\ "completed" \in Statuses /\ IsFiniteSet(SkillNames)
    /\ MaxRecent \in Nat \ {0} /\ MaxChanges \in Nat

VARIABLES
    tasks,      \* the list: [its ids -> status]
    fileMu,
    recent,     \* names, the last one used first
    doing, copy, change,    \* what each turn is at, the copy it has read, what it changes
    changes,    \* bounded by MaxChanges
    said,       \* history: the list as the answers of the tools tell it
    uses,       \* history: names used, newest first
    crossed     \* history: two uses have been between their read and their rename at once

wlVars == <<tasks, fileMu, recent, doing, copy, change, changes, said, uses, crossed>>

NoList == [i \in {} |-> 0]
NoCopy == [tasks |-> NoList, recent |-> <<>>]
NoChange == [op |-> "none"]

-----------------------------------------------------------------------------
(* What a change makes of a list.                                          *)

Creates == {[op |-> "create", replace |-> r, ids |-> ids, status |-> s] :
              r \in BOOLEAN, ids \in SUBSET TaskIds \ {{}}, s \in Statuses}
Updates == {[op |-> "update", id |-> i, status |-> s, evidence |-> e] :
              i \in TaskIds, s \in Statuses, e \in BOOLEAN}

\* An id that is taken, an id that is not there, and a task completed without a word of
\* evidence are refused.
Accepts(list, c) ==
    IF c.op = "create" THEN c.replace \/ c.ids \cap DOMAIN list = {}
    ELSE /\ c.id \in DOMAIN list
         /\ c.status = "completed" /\ list[c.id] # "completed" => c.evidence

Created(list, c) ==
    LET old == IF c.replace THEN {} ELSE DOMAIN list
    IN [i \in old \cup c.ids |->
          IF i \in c.ids THEN c.status ELSE list[i]]

Applied(list, c) ==
    IF ~ Accepts(list, c) THEN list
    ELSE IF c.op = "create" THEN Created(list, c)
    ELSE [list EXCEPT ![c.id] = c.status]

\* A variant for the mutation runs.
NoMutex(x) == TRUE

MutexFree(x) == x = Nobody

\* RecordUse: to the front, and the list trimmed.
UsedFirst(names, n) ==
    LET merged == <<n>> \o Kept(names, ToSet(names) \ {n})
    IN IF Len(merged) > MaxRecent THEN SubSeq(merged, 1, MaxRecent) ELSE merged

\* OrderSkills: those used lately first, those that are left behind them.
Listed(names, catalog) ==
    LET known == Kept(names, catalog)
    IN known \o SetToSeq(catalog \ ToSet(known))

-----------------------------------------------------------------------------
ListsInit ==
    /\ tasks = NoList /\ said = NoList
    /\ fileMu = Nobody
    /\ recent = <<>> /\ uses = <<>> /\ crossed = FALSE
    /\ doing = [e \in Editors |-> "idle"]
    /\ copy = [e \in Editors |-> NoCopy] /\ change = [e \in Editors |-> NoChange]
    /\ changes = 0

\* CreateWithInstruction and UpdateWithInstruction: the mutex, the file, the change.
ReadTasks(e, c) ==
    /\ doing[e] = "idle" /\ MutexFree(fileMu) /\ changes < MaxChanges
    /\ changes' = changes + 1
    /\ fileMu' = e
    /\ doing' = [doing EXCEPT ![e] = "tasks"]
    /\ copy' = [copy EXCEPT ![e].tasks = tasks]
    /\ change' = [change EXCEPT ![e] = c]
    /\ UNCHANGED <<tasks, recent, said, uses, crossed>>

Rest(e) ==
    /\ doing' = [doing EXCEPT ![e] = "idle"]
    /\ copy' = [copy EXCEPT ![e] = NoCopy] /\ change' = [change EXCEPT ![e] = NoChange]

\* The rename, or an answer without one: the change is refused, or a write on the way fails.
AnswerTasks(e) ==
    /\ doing[e] = "tasks"
    /\ \/ /\ tasks' = Applied(copy[e].tasks, change[e])
          /\ said' = Applied(said, change[e])
       \/ UNCHANGED <<tasks, said>>
    /\ fileMu' = Nobody
    /\ Rest(e)
    /\ UNCHANGED <<recent, changes, uses, crossed>>

\* invoke_skill, which goes on to RecordUse
ReadRecent(e, n) ==
    /\ doing[e] = "idle" /\ changes < MaxChanges
    /\ changes' = changes + 1
    /\ doing' = [doing EXCEPT ![e] = "recent"]
    /\ copy' = [copy EXCEPT ![e].recent = recent]
    /\ change' = [change EXCEPT ![e] = [op |-> "use", name |-> n]]
    /\ crossed' = (crossed \/ \E f \in Editors : doing[f] = "recent")
    /\ UNCHANGED <<tasks, fileMu, recent, said, uses>>

SaveRecent(e) ==
    /\ doing[e] = "recent"
    /\ \/ recent' = UsedFirst(copy[e].recent, change[e].name) /\ uses' = <<change[e].name>> \o uses
       \/ UNCHANGED <<recent, uses>>
    /\ Rest(e)
    /\ UNCHANGED <<tasks, fileMu, changes, said, crossed>>

ListsNext ==
    \E e \in Editors :
        \/ \E c \in Creates \cup Updates : ReadTasks(e, c)
        \/ \E n \in SkillNames : ReadRecent(e, n)
        \/ AnswerTasks(e) \/ SaveRecent(e)

ListsSpec == ListsInit /\ [][ListsNext]_wlVars

-----------------------------------------------------------------------------
(* Properties.                                                             *)

\* The list holds what the answers of the tools say, one after the other: no turn undoes
\* what another one was told is done.
TaskAnswersHold == tasks = said

\* While no two uses overlap, the skills listed first are those used last, in that order and
\* none twice.
NewestSkillsFirst ==
    ~ crossed =>
        LET shown == Listed(recent, SkillNames)
            newest(n) == SelectInSeq(uses, LAMBDA m : m = n)
        IN /\ Len(shown) = Cardinality(SkillNames)
           /\ \A i, j \in DOMAIN recent :
                i < j => newest(shown[i]) # 0 /\ newest(shown[i]) < newest(shown[j])
           /\ \A n \in SkillNames \ ToSet(recent) : Len(recent) < MaxRecent => newest(n) = 0

\* Both files hold what the tools have told the turns.
ListsHoldWhatWasSaid == TaskAnswersHold /\ NewestSkillsFirst

=============================================================================
