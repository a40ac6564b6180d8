---------------------------- MODULE ScheduleProofs ----------------------------
(***************************************************************************)
(* The schedule package, for any jobs, clients and turns, any limit on the *)
(* jobs and any number of crashes and of failed reads and writes.          *)
(***************************************************************************)
EXTENDS Schedule, FiniteSetTheorems, WellFoundedInduction, TLAPS

Rows == [id : Ids, enabled : BOOLEAN, next : Nat]

\* Whoever is between the read and the write of the file has fileMu, and its copy is the file.
HolderHasTheFile ==
    /\ \A t \in Tools : tpc[t] = "locked" => mu = t /\ snap = file
    /\ \A s \in Sources : ppc[s] = "collect" => mu = s /\ snap = file

\* The jobs that were added have enabled rows, one each; an id is added by one request only.
RowsWereAdded ==
    /\ IsFiniteSet(Compact(file))
    /\ added \subseteq Ids \ Legacy
    /\ \A j \in file : IF j.enabled THEN j.id \in added ELSE j.id \in Legacy
    /\ \A j, k \in file : j.id = k.id => j = k
    /\ \A t \in Tools : tpc[t] = "locked" =>
          req[t] \in Requests /\ (req[t].op = "add" => req[t].id \notin added)

\* A one-shot job is in one place at a time: still to be added, in the file, in the batch of
\* one poller, or submitted.
OneShotInOnePlace ==
    \A i \in OneShots :
        /\ i \notin added \/ i \in IdsOf(file) => turns[i] = 0 /\ \A s \in Sources : i \notin batch[s]
        /\ \A s \in Sources : i \in batch[s] => turns[i] = 0 /\ \A r \in Sources \ {s} : i \notin batch[r]

\* A poller in its loop is subscribed, has deliveries only while it submits them, and goes to
\* sleep with a run ahead of its scan or none; asleep it has a timer.
PollerIsInOrder ==
    \A s \in Sources :
        /\ ppc[s] \notin {"start", "exited"} => s \in subscribed
        /\ ppc[s] \notin {"deliver", "await"} => batch[s] = {}
        /\ ppc[s] = "arm" => target[s] = 0 \/ target[s] > at[s]
        /\ ppc[s] = "sleep" => timer[s] # 0

\* From a scan that read the file on, a poller knows the earliest run, or has a token, or
\* gets one; after one that did not, it knows of none.
ScanIsCurrent ==
    \A s \in Sources :
        (ppc[s] \in {"arm", "sleep"} /\ ~ token[s] /\ \A t \in Tools : tpc[t] # "written") =>
            target[s] = IF s \in blind THEN 0 ELSE EarliestRun(file, s)

ScheduleInv ==
    /\ TypeOK /\ HolderHasTheFile /\ RowsWereAdded /\ NoJobLost
    /\ OneShotInOnePlace /\ OneShotOnce /\ PollerIsInOrder /\ ScanIsCurrent

-----------------------------------------------------------------------------
(* The numbers of the package.                                             *)

\* Every set of naturals has a least element: the sets below its elements are finite, and
\* inclusion is well founded on finite sets.
LEMMA LeastNatural ==
    ASSUME NEW T \in SUBSET Nat, T # {}
    PROVE  \E n \in T : \A m \in T : n <= m
<1> DEFINE Below(n) == 0 .. (n - 1)
           R == StrictSubsetOrdering(Nat)
           W == {Below(n) : n \in T}
<1>1. W # {}
    OBVIOUS
<1>2. W \subseteq FiniteSubsetsOf(Nat)
    <2>1. \A n \in Nat : IsFiniteSet(Below(n)) /\ Below(n) \subseteq Nat
        BY FS_Interval
    <2> QED
        BY <2>1 DEF FiniteSubsetsOf
<1>3. \E x \in W : \A y \in W : <<y, x>> \notin R
    <2>1. IsWellFoundedOn(R, FiniteSubsetsOf(Nat))
        BY FS_StrictSubsetOrderingWellFounded
    <2> HIDE DEF W, R
    <2> QED
        BY <1>1, <1>2, <2>1, WFMin
<1>4. PICK n \in T : \A m \in T : <<Below(m), Below(n)>> \notin R
    BY <1>3
<1>5. ASSUME NEW m \in T, m < n PROVE FALSE
    <2>1. Below(m) \subseteq Below(n) /\ m \in Below(n) /\ m \notin Below(m)
        BY <1>5
    <2>2. Below(m) \in SUBSET Nat /\ Below(n) \in SUBSET Nat
        OBVIOUS
    <2>3. <<Below(m), Below(n)>> \in R
        <3> HIDE DEF Below
        <3> QED
            BY <2>1, <2>2 DEF StrictSubsetOrdering
    <2> QED
        BY <1>4, <2>3
<1>6. \A m \in T : n \in Nat /\ m \in Nat
    OBVIOUS
<1> QED
    BY <1>5, <1>6

\* A set of numbers that is not empty has its minimum in it.
LEMMA MinIsThere ==
    ASSUME NEW T \in SUBSET Nat, T # {}
    PROVE  Min(T) \in T /\ \A m \in T : Min(T) <= m
BY LeastNatural DEF Min

\* Run times are numbers.
LEMMA RunsAreNumbers ==
    /\ \A F \in SUBSET Rows, s \in Sources : EarliestRun(F, s) \in Nat
    /\ \A i \in Ids, t \in Nat : RunAfter(i, t) \in Nat
<1>1. ASSUME NEW F \in SUBSET Rows, NEW s \in Sources PROVE EarliestRun(F, s) \in Nat
    <2> DEFINE T == {j.next : j \in {k \in F : k.enabled /\ SourceOf[k.id] = s /\ k.next # 0}}
    <2>1. T \in SUBSET Nat
        BY DEF Rows
    <2>2. T # {} => Min(T) \in Nat
        <3> HIDE DEF T
        <3> QED
            BY <2>1, MinIsThere
    <2> QED
        BY <2>2 DEF EarliestRun
<1>2. ASSUME NEW i \in Ids, NEW t \in Nat PROVE RunAfter(i, t) \in Nat
    <2>1. CASE KindOf[i] = "cron"
        <3> DEFINE T == {u \in ArgOf[i] : u > t}
        <3>1. T \in SUBSET Nat
            BY <2>1, ScheduleAssumption
        <3>2. T # {} => Min(T) \in Nat
            <4> HIDE DEF T
            <4> QED
                BY <3>1, MinIsThere
        <3> QED
            BY <2>1, <3>2 DEF RunAfter, CronNext
    <2>2. CASE KindOf[i] # "cron"
        <3>1. ArgOf[i] \in Nat
            BY <2>2, ScheduleAssumption
        <3> QED
            BY <2>2, <3>1, ScheduleAssumption DEF RunAfter
    <2> QED
        BY <2>1, <2>2
<1> QED
    BY <1>1, <1>2

\* Arm: the timer fires at the latest at the horizon.
LEMMA TimerIsInReach ==
    ASSUME NEW n \in Nat
    PROVE  /\ Min({n, Horizon}) \in 0 .. Horizon
           /\ n # 0 => Min({n, Horizon}) # 0
<1>1. {n, Horizon} \in SUBSET Nat /\ {n, Horizon} # {}
    BY ScheduleAssumption
<1>2. Min({n, Horizon}) \in {n, Horizon} /\ Min({n, Horizon}) <= Horizon
    BY <1>1, MinIsThere
<1> QED
    BY <1>2, ScheduleAssumption

-----------------------------------------------------------------------------
(* What a write does to the rows.                                          *)

\* Fewer rows are within the limit too.
LEMMA RemovingKeepsTheLimit ==
    ASSUME NEW F, IsFiniteSet(F), Cardinality(F) <= MaxJobs, NEW G \in SUBSET F
    PROVE  IsFiniteSet(G) /\ Cardinality(G) <= MaxJobs
BY FS_Subset, FS_CardinalityType, ScheduleAssumption

\* The three requests, one at a time.
LEMMA RequestsDo ==
    ASSUME NEW r \in Requests, NEW F
    PROVE  /\ r.op = "add" =>
                 /\ r.id \in Ids \ Legacy
                 /\ Edited(r, F) = F \cup {[id |-> r.id, enabled |-> TRUE, next |-> RunAfter(r.id, now)]}
                 /\ Refused(r, F) = (Full(Compact(F)) \/ ~ Addable(r.id, now))
           /\ r.op = "remove" => Edited(r, F) = {j \in F : j.id # r.id}
           /\ r.op \notin {"add", "remove"} => Edited(r, F) = F
<1>1. r.op = "add" => r.id \in Ids \ Legacy
    BY DEF Requests
<1>2. /\ r.op = "add" =>
            /\ Edited(r, F) = F \cup {[id |-> r.id, enabled |-> TRUE, next |-> RunAfter(r.id, now)]}
            /\ Refused(r, F) = (Full(Compact(F)) \/ ~ Addable(r.id, now))
      /\ r.op = "remove" => Edited(r, F) = {j \in F : j.id # r.id}
      /\ r.op \notin {"add", "remove"} => Edited(r, F) = F
    BY Zenon DEF Edited, Refused
<1> QED
    BY <1>1, <1>2

\* Add, Remove and ListText: a row more only if there is room for it.
LEMMA EditKeepsTheLimit ==
    ASSUME NEW F \in SUBSET Rows, IsFiniteSet(Compact(F)), Cardinality(Compact(F)) <= MaxJobs,
           NEW r \in Requests, ~ Refused(r, F), now \in Nat
    PROVE  LET G == Edited(r, Compact(F))
           IN  /\ G \subseteq Rows /\ Compact(G) = G
               /\ IsFiniteSet(G) /\ Cardinality(G) <= MaxJobs
<1> DEFINE G == Edited(r, Compact(F))
<1>1. CASE r.op = "add"
    <2> DEFINE row == [id |-> r.id, enabled |-> TRUE, next |-> RunAfter(r.id, now)]
    <2>1. G = Compact(F) \cup {row} /\ row \in Rows
        BY <1>1, RequestsDo, RunsAreNumbers DEF Rows
    <2>2. Cardinality(Compact(F)) < MaxJobs
        <3>1. ~ Full(Compact(F))
            BY <1>1, RequestsDo
        <3> QED
            BY <3>1, FS_CardinalityType, ScheduleAssumption DEF Full
    <2>3. IsFiniteSet(G) /\ Cardinality(G) <= MaxJobs
        <3> HIDE DEF row, G
        <3>1. IsFiniteSet(G) /\ (Cardinality(G) = Cardinality(Compact(F)) \/ Cardinality(G) = Cardinality(Compact(F)) + 1)
            BY <2>1, FS_AddElement
        <3>2. Cardinality(Compact(F)) \in Nat
            BY FS_CardinalityType
        <3> QED
            BY <2>2, <3>1, <3>2, ScheduleAssumption
    <2>4. G \subseteq Rows /\ Compact(G) = G
        <3> row.enabled
            OBVIOUS
        <3> HIDE DEF row, G
        <3> QED
            BY <2>1 DEF Compact
    <2> QED
        BY <2>3, <2>4
<1>2. CASE r.op # "add"
    <2>1. G \subseteq Compact(F)
        BY <1>2, RequestsDo
    <2>2. G \subseteq Rows /\ Compact(G) = G
        BY <2>1 DEF Compact
    <2>3. IsFiniteSet(G) /\ Cardinality(G) <= MaxJobs
        <3> HIDE DEF G
        <3> QED
            BY <2>1, RemovingKeepsTheLimit
    <2> QED
        BY <2>2, <2>3
<1> QED
    BY <1>1, <1>2

\* CollectDue: each row stays, moves to its next run, or goes.
LEMMA FiringKeepsTheLimit ==
    ASSUME NEW F \in SUBSET Rows, IsFiniteSet(Compact(F)), Cardinality(Compact(F)) <= MaxJobs,
           NEW s \in Sources, NEW t \in Nat
    PROVE  LET G == AfterFiring(F, s, t)
           IN  /\ G \subseteq Rows /\ Compact(G) = G
               /\ IsFiniteSet(G) /\ Cardinality(G) <= MaxJobs
<1> DEFINE G == AfterFiring(F, s, t)
           Moved(j) == [j EXCEPT !.next = RunAfter(j.id, t)]
           Left == {j \in Compact(F) : ~ Due(j, s, t) \/ KindOf[j.id] # "at"}
           f == [j \in Left |-> IF Due(j, s, t) THEN Moved(j) ELSE j]
<1>1. G \subseteq Rows /\ Compact(G) = G
    <2>1. \A j \in Compact(F) : j \in Rows /\ j.enabled /\ RunAfter(j.id, t) \in Nat
        BY RunsAreNumbers DEF Compact, Rows
    <2>2. \A j \in Compact(F) : Moved(j) \in Rows /\ Moved(j).enabled
        BY <2>1 DEF Rows
    <2>3. \A g \in G : g \in Compact(F) \/ \E j \in Compact(F) : g = Moved(j)
        BY Zenon DEF AfterFiring
    <2> HIDE DEF Moved, G
    <2> QED
        BY <2>1, <2>2, <2>3 DEF Compact
<1>2. f \in Surjection(Left, G)
    <2>1. G = {j \in Compact(F) : ~ Due(j, s, t)} \cup
              {Moved(j) : j \in {k \in Compact(F) : Due(k, s, t) /\ KindOf[k.id] # "at"}}
        BY Zenon DEF AfterFiring
    <2> HIDE DEF Moved, G
    <2> QED
        BY <2>1 DEF Surjection
<1>3. IsFiniteSet(Left) /\ Cardinality(Left) <= MaxJobs
    <2>1. Left \in SUBSET Compact(F)
        OBVIOUS
    <2> HIDE DEF Left
    <2> QED
        BY <2>1, RemovingKeepsTheLimit
<1>4. IsFiniteSet(G) /\ Cardinality(G) <= MaxJobs
    <2> HIDE DEF Left, f, G
    <2> QED
        BY <1>2, <1>3, FS_Surjection, FS_CardinalityType, ScheduleAssumption
<1> QED
    BY <1>1, <1>4

\* What fires is a row of the client whose time has come; of the enabled rows only the
\* one-shot ones among them go, and what is left has the ids it had.
LEMMA FiringMovesRows ==
    ASSUME NEW F \in SUBSET Rows, \A j, k \in F : j.id = k.id => j = k,
           NEW s \in Sources, NEW t \in Nat
    PROVE  LET G == AfterFiring(F, s, t)
           IN  /\ \A g \in G : g.enabled /\ \E j \in Compact(F) : g.id = j.id
               /\ \A g, h \in G : g.id = h.id => g = h
               /\ \A g \in G : KindOf[g.id] = "at" => g.id \notin DueIds(F, s, t)
               /\ \A j \in Compact(F) :
                     j.id \in IdsOf(G) \/ (KindOf[j.id] = "at" /\ j.id \in DueIds(F, s, t))
<1> DEFINE G == AfterFiring(F, s, t)
           Moved(j) == [j EXCEPT !.next = RunAfter(j.id, t)]
<1>1. \A j \in Compact(F) : j \in F /\ j \in Rows /\ j.enabled /\ Moved(j).id = j.id /\ Moved(j).enabled
    BY DEF Compact, Rows
<1>2. \A g : g \in G <=> \E j \in Compact(F) :
                \/ ~ Due(j, s, t) /\ g = j
                \/ Due(j, s, t) /\ KindOf[j.id] # "at" /\ g = Moved(j)
    BY Zenon DEF AfterFiring
<1>3. \A i : i \in DueIds(F, s, t) <=> \E j \in Compact(F) : Due(j, s, t) /\ j.id = i
    BY DEF DueIds
<1> HIDE DEF G, Moved
<1>4. /\ \A g \in G : g.enabled /\ \E j \in Compact(F) : g.id = j.id
      /\ \A g, h \in G : g.id = h.id => g = h
      /\ \A g \in G : KindOf[g.id] = "at" => g.id \notin DueIds(F, s, t)
    BY <1>1, <1>2, <1>3
<1>5. \A j \in Compact(F) : j.id \in IdsOf(G) \/ (KindOf[j.id] = "at" /\ j.id \in DueIds(F, s, t))
    BY <1>1, <1>2, <1>3 DEF IdsOf
<1> QED
    BY <1>4, <1>5 DEF G

-----------------------------------------------------------------------------
(* Types.                                                                  *)

\* The files of the earlier program are within the limit.
LEMMA InitTypes == Init => TypeOK
<1> SUFFICES ASSUME Init PROVE TypeOK
    OBVIOUS
<1>1. Compact(file) = {}
    BY DEF Init, Compact
<1>2. Cardinality(Compact(file)) <= MaxJobs
    BY <1>1, FS_EmptySet, ScheduleAssumption
<1>3. file \subseteq Rows
    <2>1. \A i \in Legacy : [id |-> i, enabled |-> FALSE, next |-> 1] \in Rows
        BY ScheduleAssumption DEF Rows
    <2> QED
        BY <2>1 DEF Init
<1>4. /\ ppc \in [Sources -> {"start", "loop", "scan", "arm", "sleep", "due", "collect",
                            "deliver", "await", "exited"}]
      /\ tpc \in [Tools -> {"idle", "locked", "written"}]
      /\ req \in [Tools -> Requests \cup {NoRequest}]
      /\ batch \in [Sources -> SUBSET Ids] /\ token \in [Sources -> BOOLEAN]
    BY DEF Init
<1>5. /\ at \in [Sources -> 0 .. Horizon] /\ timer \in [Sources -> 0 .. Horizon]
      /\ target \in [Sources -> Nat]
      /\ turns \in [Ids \ Legacy -> Nat]
    BY ScheduleAssumption DEF Init
<1>6. /\ now \in 1 .. Horizon /\ crashes \in 0 .. MaxCrashes /\ faults \in 0 .. MaxFaults
      /\ mu = None /\ snap = {} /\ stopping = FALSE /\ subscribed = {} /\ blind = {} /\ added = {} /\ ended = {} /\ waived = {}
    BY ScheduleAssumption DEF Init
<1> QED
    BY <1>2, <1>3, <1>4, <1>6, <1>5 DEF TypeOK, Rows

\* The tool saves rows, and no more than the limit allows.
LEMMA ToolKeepsTypes ==
    ASSUME TypeOK, HolderHasTheFile, RowsWereAdded, NEW t \in Tools, ToolLock(t) \/ ToolStep(t)
    PROVE  TypeOK'
<1> USE DEF TypeOK, fileVars, pollVars, wakeVars, histVars, boundVars
<1>1. CASE ToolLock(t)
    BY <1>1 DEF ToolLock
<1>2. CASE ToolRefused(t)
    BY <1>2 DEF ToolRefused, Unlock, NoRequest
<1>3. CASE ToolWriteFails(t)
    BY <1>3, ScheduleAssumption DEF ToolWriteFails, Unlock, NoRequest
<1>4. CASE ToolWrite(t)
    <2>1. snap = file /\ req[t] \in Requests
        BY <1>4 DEF ToolWrite, HolderHasTheFile, RowsWereAdded
    <2>2. file' \subseteq Rows /\ Cardinality(Compact(file')) <= MaxJobs
        BY <1>4, <2>1, EditKeepsTheLimit DEF ToolWrite, Rows, RowsWereAdded
    <2>3. req[t].op \in {"add", "remove"} => req[t].id \in Ids
        BY <2>1 DEF Requests
    <2> QED
        BY <1>4, <2>2, <2>3 DEF ToolWrite, Unlock, Rows
<1>5. CASE ToolNotify(t)
    BY <1>5 DEF ToolNotify, Notify, NoRequest
<1> QED
    BY <1>1, <1>2, <1>3, <1>4, <1>5 DEF ToolStep

\* A poller saves rows, and never more than it has loaded.
LEMMA PollerKeepsTypes ==
    ASSUME TypeOK, HolderHasTheFile, RowsWereAdded, PollerIsInOrder, NEW s \in Sources, PollerStep(s)
    PROVE  TypeOK'
<1> USE DEF TypeOK, fileVars, toolVars, wakeVars, histVars, boundVars, Goto
<1>1. CASE Subscribe(s)
    BY <1>1 DEF Subscribe
<1>2. CASE LoopHead(s)
    BY <1>2 DEF LoopHead
<1>3. CASE Scan(s)
    <2>1. EarliestRun(file, s) \in Nat
        BY RunsAreNumbers DEF Rows
    <2> QED
        BY <1>3, <2>1 DEF Scan
<1>4. CASE Arm(s)
    <2>1. target[s] # 0 => now + (target[s] - at[s]) \in Nat
        BY <1>4 DEF Arm, PollerIsInOrder
    <2>2. target[s] # 0 => Min({now + (target[s] - at[s]), Horizon}) \in 0 .. Horizon
        BY <2>1, TimerIsInReach
    <2>3. timer' \in [Sources -> 0 .. Horizon]
        BY <1>4, <2>2, ScheduleAssumption DEF Arm, IdleTimer
    <2> QED
        BY <1>4, <2>3, ScheduleAssumption DEF Arm
<1>5. CASE Woken(s)
    BY <1>5, ScheduleAssumption DEF Woken, Awake
<1>6. CASE TimerFires(s)
    BY <1>6, ScheduleAssumption DEF TimerFires, Awake
<1>7. CASE StoppedAsleep(s)
    BY <1>7, ScheduleAssumption DEF StoppedAsleep, Awake
<1>8. CASE CollectLock(s)
    BY <1>8 DEF CollectLock
<1>9. CASE CollectNothing(s)
    BY <1>9, ScheduleAssumption DEF CollectNothing, Collected, NextDelivery, Unlock
<1>10. CASE CollectWrite(s)
    <2>1. snap = file
        BY <1>10 DEF CollectWrite, HolderHasTheFile
    <2>2. file' \subseteq Rows /\ Cardinality(Compact(file')) <= MaxJobs
        BY <1>10, <2>1, FiringKeepsTheLimit DEF CollectWrite, Rows, RowsWereAdded
    <2>3. DueIds(snap, s, at[s]) \subseteq Ids
        BY DEF DueIds, Compact
    <2> HIDE DEF TypeOK
    <2>4. TypeOK => TypeOK'
        BY <1>10, <2>2, <2>3, ScheduleAssumption
        DEF TypeOK, CollectWrite, Collected, NextDelivery, Unlock, Notify, Rows
    <2> QED
        BY <2>4
<1>11. CASE CollectFails(s)
    BY <1>11, ScheduleAssumption DEF CollectFails, Collected, NextDelivery, OnWriteError, Unlock
<1>12. CASE Deliver(s)
    <2>1. PICK i \in batch[s] :
              /\ turns' = [turns EXCEPT ![i] = @ + 1]
              /\ batch' = [batch EXCEPT ![s] = @ \ {i}]
        BY <1>12 DEF Deliver
    <2>2. turns' \in [Ids \ Legacy -> Nat]
        <3>1. \A j \in Ids \ Legacy : turns[j] \in Nat /\ turns[j] + 1 \in Nat
            OBVIOUS
        <3>2. turns' = [j \in Ids \ Legacy |-> IF j = i THEN turns[j] + 1 ELSE turns[j]]
            BY <2>1
        <3> QED
            BY <3>1, <3>2
    <2>3. batch' \in [Sources -> SUBSET Ids]
        BY <2>1
    <2> QED
        BY <1>12, <2>2, <2>3 DEF Deliver
<1>13. CASE TurnEnds(s) \/ StoppedWaiting(s)
    BY <1>13 DEF TurnEnds, StoppedWaiting, NextDelivery, Rest
<1>14. CASE ScanFails(s)
    BY <1>14, ScheduleAssumption DEF ScanFails
<1> QED
    BY <1>14, <1>1, <1>2, <1>3, <1>4, <1>5, <1>8, <1>9, <1>10, <1>11, <1>12, <1>13, <1>6, <1>7
    DEF PollerStep

\* Time, the end of the process and a crash save nothing.
LEMMA EnvironmentKeepsTypes == TypeOK /\ (Tick \/ Stop \/ Crash \/ UNCHANGED vars) => TypeOK'
<1> SUFFICES ASSUME TypeOK, Tick \/ Stop \/ Crash \/ UNCHANGED vars PROVE TypeOK'
    OBVIOUS
<1> USE DEF TypeOK, fileVars, pollVars, toolVars, wakeVars, histVars, boundVars
<1>1. CASE Tick
    BY <1>1, ScheduleAssumption DEF Tick
<1>2. CASE Stop
    BY <1>2 DEF Stop
<1>3. CASE Crash
    <2> USE DEF Crash
    <2>1. /\ mu' = None /\ snap' = {} /\ stopping' = FALSE /\ subscribed' = {} /\ blind' = {}
          /\ UNCHANGED <<now, file, added, ended, turns, faults>> /\ crashes' \in 0 .. MaxCrashes
          /\ waived' \in SUBSET Ids
        BY <1>3, ScheduleAssumption
    <2>2. /\ ppc' \in [Sources -> {"start", "loop", "scan", "arm", "sleep", "due", "collect",
                                "deliver", "await", "exited"}]
          /\ tpc' \in [Tools -> {"idle", "locked", "written"}]
          /\ req' \in [Tools -> Requests \cup {NoRequest}]
          /\ batch' \in [Sources -> SUBSET Ids] /\ token' \in [Sources -> BOOLEAN]
        BY <1>3
    <2>3. /\ at' \in [Sources -> 0 .. Horizon] /\ timer' \in [Sources -> 0 .. Horizon]
          /\ target' \in [Sources -> Nat]
        BY <1>3, ScheduleAssumption
    <2> QED
        BY <2>1, <2>2, <2>3, ScheduleAssumption
<1>4. CASE UNCHANGED vars
    BY <1>4 DEF vars
<1> QED
    BY <1>1, <1>2, <1>3, <1>4

\* Every step keeps the types.
LEMMA NextKeepsTypes == ScheduleInv /\ [Next]_vars => TypeOK'
BY ToolKeepsTypes, PollerKeepsTypes, EnvironmentKeepsTypes DEF ScheduleInv, Next, Idle

-----------------------------------------------------------------------------
(* The mutex, the rows, the one-shot jobs and the sleeping pollers.        *)

Ledger == HolderHasTheFile /\ RowsWereAdded /\ NoJobLost /\ OneShotInOnePlace /\ OneShotOnce
Polls  == PollerIsInOrder /\ ScanIsCurrent

\* Nobody has asked for anything at the start.
LEMMA InitInv == Init => ScheduleInv
<1> SUFFICES ASSUME Init PROVE ScheduleInv
    OBVIOUS
<1>1. Compact(file) = {} /\ IsFiniteSet(Compact(file))
    BY FS_EmptySet DEF Init, Compact
<1>2. RowsWereAdded /\ NoJobLost
    <2>1. \A j \in file : \E i \in Legacy : j = [id |-> i, enabled |-> FALSE, next |-> 1]
        BY DEF Init
    <2>2. /\ \A j \in file : j.id \in Legacy /\ ~ j.enabled
          /\ \A j, k \in file : j.id = k.id => j = k
        <3>1. \A j \in file : j.id \in Legacy /\ ~ j.enabled /\ j = [id |-> j.id, enabled |-> FALSE, next |-> 1]
            BY <2>1
        <3>2. \A j, k \in file : j.id = k.id => j = k
            BY <3>1, Zenon
        <3> QED
            BY <3>1, <3>2
    <2>3. added = {} /\ \A t \in Tools : tpc[t] = "idle"
        BY DEF Init
    <2> QED
        BY <1>1, <2>2, <2>3 DEF RowsWereAdded, NoJobLost
<1>3. HolderHasTheFile /\ PollerIsInOrder /\ ScanIsCurrent
    BY DEF Init, HolderHasTheFile, PollerIsInOrder, ScanIsCurrent
<1>4. OneShotInOnePlace /\ OneShotOnce
    BY DEF Init, OneShotInOnePlace, OneShotOnce, OneShots
<1> QED
    BY InitTypes, <1>2, <1>3, <1>4 DEF ScheduleInv

\* The tool: its rows are the ones that were added, its saves wake the pollers.
LEMMA ToolKeepsInv ==
    ASSUME ScheduleInv, NEW t \in Tools, ToolLock(t) \/ ToolStep(t)
    PROVE  Ledger' /\ Polls'
<1> USE DEF ScheduleInv, TypeOK, fileVars, pollVars, wakeVars, histVars, boundVars,
            Ledger, HolderHasTheFile, RowsWereAdded, NoJobLost, OneShotInOnePlace, OneShotOnce,
            Polls, PollerIsInOrder, ScanIsCurrent
<1>1. CASE ToolLock(t)
    BY <1>1, ScheduleAssumption DEF ToolLock, Free
<1>2. CASE ToolRefused(t) \/ ToolWriteFails(t)
    <2>1. /\ tpc[t] = "locked" /\ tpc' = [tpc EXCEPT ![t] = "idle"] /\ req' = [req EXCEPT ![t] = NoRequest]
          /\ UNCHANGED <<file, added, ended, turns, ppc, at, target, timer, blind, batch, token, subscribed>>
        BY <1>2 DEF ToolRefused, ToolWriteFails
    <2>2. (\A u \in Tools \ {t} : tpc[u] # "locked") /\ \A s \in Sources : ppc[s] # "collect"
        BY <2>1, ScheduleAssumption
    <2> QED
        BY <2>1, <2>2
<1>3. CASE ToolWrite(t)
    <2> DEFINE r == req[t]
    <2>1. /\ tpc[t] = "locked" /\ tpc' = [tpc EXCEPT ![t] = "written"] /\ req' = req
          /\ UNCHANGED <<turns, ppc, at, target, timer, blind, batch, token, subscribed>>
          /\ file' = Edited(r, Compact(file)) /\ ~ Refused(r, file) /\ r \in Requests
          /\ added' = IF r.op = "add" THEN added \cup {r.id} ELSE added
          /\ ended' = IF r.op = "remove" THEN ended \cup {r.id} ELSE ended
          /\ r.op = "add" => r.id \notin added
        BY <1>3 DEF ToolWrite
    <2>2. (\A u \in Tools \ {t} : tpc[u] # "locked") /\ \A s \in Sources : ppc[s] # "collect"
        BY <2>1, ScheduleAssumption
    <2>3. IsFiniteSet(Compact(file'))
        BY <2>1, EditKeepsTheLimit DEF Rows
    <2>4. /\ \A j \in file' : j.enabled /\ (j \in file \/ (r.op = "add" /\ j.id = r.id))
          /\ \A j, k \in file' : j.id = k.id => j = k
          /\ \A j \in file : j.enabled /\ j.id \notin ended' => j \in file'
          /\ r.op = "add" => r.id \in IdsOf(file')
        <3>1. \A j, k \in file : j.id = k.id => j = k
            OBVIOUS
        <3>2. r.op = "add" => \A j \in file : j.enabled => j.id # r.id
            BY <2>1
        <3> HIDE DEF ScheduleInv, TypeOK, HolderHasTheFile, RowsWereAdded, NoJobLost, ScanIsCurrent,
                     OneShotInOnePlace, OneShotOnce, PollerIsInOrder
        <3>3. CASE r.op = "add"
            <4> DEFINE row == [id |-> r.id, enabled |-> TRUE, next |-> RunAfter(r.id, now)]
            <4>1. file' = Compact(file) \cup {row}
                BY <2>1, <3>3, RequestsDo
            <4>2. row.id = r.id /\ row.enabled /\ \A j \in Compact(file) : j \in file /\ j.enabled /\ j.id # r.id
                BY <3>3, <3>2 DEF Compact
            <4> HIDE DEF row
            <4> QED
                BY <4>1, <4>2, <3>3, <3>1 DEF Compact, IdsOf
        <3>4. CASE r.op = "remove"
            <4>1. file' = {j \in Compact(file) : j.id # r.id} /\ ended' = ended \cup {r.id}
                BY <2>1, <3>4, RequestsDo
            <4> QED
                BY <4>1, <3>4, <3>1 DEF Compact
        <3>5. CASE r.op \notin {"add", "remove"}
            <4>1. file' = Compact(file)
                BY <2>1, <3>5, RequestsDo
            <4> QED
                BY <4>1, <3>5, <3>1 DEF Compact
        <3> QED
            BY <3>3, <3>4, <3>5
    <2>5. HolderHasTheFile' /\ RowsWereAdded' /\ NoJobLost'
        <3>1. r.op = "add" => r.id \in Ids \ Legacy
            BY <2>1, RequestsDo
        <3> QED
            BY <2>1, <2>2, <2>3, <2>4, <3>1 DEF IdsOf
    <2>6. OneShotInOnePlace' /\ OneShotOnce'
        <3>1. IdsOf(file') \subseteq IdsOf(file) \cup (added' \ added) /\ added \subseteq added'
            BY <2>1, <2>4 DEF IdsOf
        <3> QED
            BY <2>1, <3>1
    <2>7. Polls'
        BY <2>1
    <2> QED
        BY <2>5, <2>6, <2>7
<1>4. CASE ToolNotify(t)
    BY <1>4 DEF ToolNotify, Notify
<1> QED
    BY <1>1, <1>2, <1>3, <1>4 DEF ToolStep

\* The poller: a one-shot job leaves the file as it enters the batch, and the batch as it is submitted.
LEMMA PollerKeepsInv ==
    ASSUME ScheduleInv, NEW s \in Sources, PollerStep(s)
    PROVE  Ledger' /\ Polls'
<1> USE DEF ScheduleInv, TypeOK, fileVars, toolVars, wakeVars, histVars, boundVars, Goto,
            Ledger, HolderHasTheFile, RowsWereAdded, NoJobLost, OneShotInOnePlace, OneShotOnce,
            Polls, PollerIsInOrder, ScanIsCurrent
<1>1. CASE Subscribe(s)
    BY <1>1 DEF Subscribe
<1>2. CASE LoopHead(s)
    BY <1>2 DEF LoopHead
<1>3. CASE Scan(s)
    <2>1. EarliestRun(file, s) \in Nat
        BY RunsAreNumbers DEF Rows
    <2> QED
        BY <1>3, <2>1 DEF Scan
<1>4. CASE Arm(s)
    <2>1. timer'[s] # 0
        <3>1. target[s] # 0 => now + (target[s] - at[s]) \in Nat \ {0}
            BY <1>4 DEF Arm
        <3>2. timer'[s] = IF target[s] = 0 THEN Horizon
                                           ELSE Min({now + (target[s] - at[s]), Horizon})
            BY <1>4 DEF Arm, IdleTimer
        <3> QED
            BY <3>1, <3>2, TimerIsInReach, ScheduleAssumption
    <2> QED
        BY <1>4, <2>1 DEF Arm
<1>5. CASE Woken(s)
    BY <1>5 DEF Woken, Awake
<1>6. CASE TimerFires(s)
    BY <1>6 DEF TimerFires, Awake
<1>7. CASE StoppedAsleep(s)
    BY <1>7 DEF StoppedAsleep, Awake
<1>8. CASE CollectLock(s)
    BY <1>8, ScheduleAssumption DEF CollectLock, Free
<1>9. CASE CollectNothing(s)
    <2>1. (\A u \in Tools : tpc[u] # "locked") /\ \A r \in Sources \ {s} : ppc[r] # "collect"
        BY <1>9, ScheduleAssumption DEF CollectNothing
    <2> QED
        BY <1>9, <2>1 DEF CollectNothing, Collected, NextDelivery
<1>10. CASE CollectWrite(s)
    <2> DEFINE ids == DueIds(file, s, at[s])
    <2>1. /\ ppc[s] = "collect" /\ snap = file /\ file' = AfterFiring(file, s, at[s])
          /\ token' = [r \in Sources |-> token[r] \/ r \in subscribed]
          /\ batch' = [batch EXCEPT ![s] = ids] /\ ppc' = [ppc EXCEPT ![s] = IF ids = {} THEN "loop" ELSE "deliver"]
          /\ ended' = ended \cup {i \in ids : KindOf[i] = "at"}
          /\ UNCHANGED <<target, timer, blind, subscribed, added, turns, tpc, req>>
          /\ \A r \in Sources \ {s} : at'[r] = at[r]
        BY <1>10 DEF CollectWrite, Collected, NextDelivery, Notify
    <2>2. (\A u \in Tools : tpc[u] # "locked") /\ \A r \in Sources \ {s} : ppc[r] # "collect"
        BY <2>1, ScheduleAssumption
    <2>3. /\ \A g \in file' : g.enabled /\ \E j \in Compact(file) : g.id = j.id
          /\ \A g, h \in file' : g.id = h.id => g = h
          /\ \A g \in file' : KindOf[g.id] = "at" => g.id \notin ids
          /\ \A j \in Compact(file) : j.id \in IdsOf(file') \/ (KindOf[j.id] = "at" /\ j.id \in ids)
          /\ IsFiniteSet(Compact(file'))
        <3>1. /\ file \in SUBSET Rows /\ \A j, k \in file : j.id = k.id => j = k
              /\ IsFiniteSet(Compact(file)) /\ Cardinality(Compact(file)) <= MaxJobs
              /\ at[s] \in Nat
            BY DEF Rows
        <3>2. LET G == AfterFiring(file, s, at[s])
              IN  /\ \A g \in G : g.enabled /\ \E j \in Compact(file) : g.id = j.id
                  /\ \A g, h \in G : g.id = h.id => g = h
                  /\ \A g \in G : KindOf[g.id] = "at" => g.id \notin DueIds(file, s, at[s])
                  /\ \A j \in Compact(file) :
                        \/ j.id \in IdsOf(G)
                        \/ KindOf[j.id] = "at" /\ j.id \in DueIds(file, s, at[s])
                  /\ IsFiniteSet(Compact(G))
            <4> HIDE DEF ScheduleInv
            <4> QED
                BY <3>1, FiringMovesRows, FiringKeepsTheLimit
        <3> QED
            BY <2>1, <3>2
    <2>4. \A i \in ids : \E j \in Compact(file) : j.id = i
        BY DEF DueIds
    <2>5. HolderHasTheFile' /\ RowsWereAdded' /\ NoJobLost'
        <3>1. HolderHasTheFile' /\ RowsWereAdded'
            BY <2>1, <2>2, <2>3 DEF Compact
        <3>2. NoJobLost'
            <4>1. \A i \in added \ ended : \E j \in Compact(file) : j.id = i
                BY DEF Compact, IdsOf
            <4> QED
                BY <2>1, <2>3, <4>1
        <3> QED
            BY <3>1, <3>2
    <2>6. OneShotInOnePlace' /\ OneShotOnce'
        <3>1. IdsOf(file') \subseteq IdsOf(file) /\ ids \subseteq IdsOf(file)
            BY <2>3, <2>4 DEF IdsOf, Compact
        <3>2. \A i \in OneShots : i \in IdsOf(file') => i \notin ids
            BY <2>3 DEF IdsOf, OneShots
        <3>3. IdsOf(file) \cap OneShots \subseteq added
            BY DEF IdsOf, OneShots
        <3> QED
            BY <2>1, <3>1, <3>2, <3>3
    <2>7. Polls'
        BY <2>1
    <2> QED
        BY <2>5, <2>6, <2>7
<1>11. CASE CollectFails(s)
    <2>1. (\A u \in Tools : tpc[u] # "locked") /\ \A r \in Sources \ {s} : ppc[r] # "collect"
        BY <1>11, ScheduleAssumption DEF CollectFails
    <2> QED
        BY <1>11, <2>1 DEF CollectFails, Collected, NextDelivery, OnWriteError
<1>12. CASE Deliver(s)
    BY <1>12 DEF Deliver
<1>13. CASE TurnEnds(s)
    BY <1>13 DEF TurnEnds, NextDelivery, Rest
<1>14. CASE StoppedWaiting(s)
    BY <1>14 DEF StoppedWaiting, NextDelivery
<1>15. CASE ScanFails(s)
    BY <1>15 DEF ScanFails
<1> QED
    BY <1>15, <1>1, <1>2, <1>3, <1>4, <1>5, <1>8, <1>9, <1>10, <1>11, <1>12, <1>13, <1>6, <1>7, <1>14
    DEF PollerStep

\* Time, the end of the process and a crash: what was in memory is gone, the file stays.
LEMMA EnvironmentKeepsInv ==
    ScheduleInv /\ (Tick \/ Stop \/ Crash \/ UNCHANGED vars) => Ledger' /\ Polls'
<1> SUFFICES ASSUME ScheduleInv, Tick \/ Stop \/ Crash \/ UNCHANGED vars PROVE Ledger' /\ Polls'
    OBVIOUS
<1> USE DEF ScheduleInv, TypeOK, fileVars, pollVars, toolVars, wakeVars, histVars, boundVars,
            Ledger, HolderHasTheFile, RowsWereAdded, NoJobLost, OneShotInOnePlace, OneShotOnce,
            Polls, PollerIsInOrder, ScanIsCurrent
<1>1. CASE Tick
    BY <1>1 DEF Tick
<1>2. CASE Stop
    BY <1>2 DEF Stop
<1>3. CASE Crash
    BY <1>3 DEF Crash
<1>4. CASE UNCHANGED vars
    BY <1>4 DEF vars
<1> QED
    BY <1>1, <1>2, <1>3, <1>4

\* Every step keeps the invariant.
LEMMA NextKeepsInv == ScheduleInv /\ [Next]_vars => ScheduleInv'
<1> SUFFICES ASSUME ScheduleInv, [Next]_vars PROVE ScheduleInv'
    OBVIOUS
<1>1. TypeOK'
    BY NextKeepsTypes
<1>2. Ledger' /\ Polls'
    BY ToolKeepsInv, PollerKeepsInv, EnvironmentKeepsInv DEF Next, Idle
<1> QED
    BY <1>1, <1>2 DEF ScheduleInv, Ledger, Polls

\* The invariant holds in every reachable state.
LEMMA InvHolds == Spec => []ScheduleInv
BY InitInv, NextKeepsInv, PTL DEF Spec

\* Of a batch only a submission, the end of the process or a crash takes anything away.
LEMMA BatchesOnlyShrinkByDelivery ==
    ASSUME ScheduleInv, [Next]_vars, NEW s \in Sources, NEW i \in batch[s] \ batch'[s]
    PROVE  \/ ppc'[s] = "await" /\ batch[s] = batch'[s] \cup {i}
           \/ stopping
           \/ crashes' > crashes
<1>1. TypeOK /\ PollerIsInOrder
    BY DEF ScheduleInv
<1>2. CASE UNCHANGED batch
    BY <1>2
<1>3. CASE Crash
    BY <1>1, <1>3 DEF Crash, TypeOK
<1>4. ASSUME NEW r \in Sources, NEW ids, batch' = [batch EXCEPT ![r] = ids], ppc[r] = "collect" PROVE FALSE
    <2>1. r = s /\ batch[s] = {}
        BY <1>1, <1>4 DEF TypeOK, PollerIsInOrder
    <2> QED
        BY <2>1
<1>5. ASSUME NEW r \in Sources, PollerStep(r), batch' # batch
      PROVE  Deliver(r) \/ TurnEnds(r) \/ StoppedWaiting(r)
    BY <1>4, <1>5 DEF PollerStep, Subscribe, LoopHead, Scan, ScanFails, Arm, Woken, TimerFires,
        StoppedAsleep, CollectLock, CollectNothing, CollectWrite, CollectFails, Collected, NextDelivery
<1>6. ASSUME NEW r \in Sources, Deliver(r)
      PROVE  ppc'[s] = "await" /\ batch[s] = batch'[s] \cup {i}
    BY <1>1, <1>6 DEF Deliver, Goto, TypeOK
<1>7. ASSUME NEW r \in Sources, TurnEnds(r) PROVE FALSE
    BY <1>1, <1>7 DEF TurnEnds, NextDelivery, Rest, TypeOK
<1>8. ASSUME NEW r \in Sources, StoppedWaiting(r) PROVE stopping
    BY <1>8 DEF StoppedWaiting
<1>9. ASSUME NEW t \in Tools, ToolLock(t) \/ ToolStep(t) PROVE UNCHANGED batch
    BY <1>9 DEF ToolLock, ToolStep, ToolRefused, ToolWriteFails, ToolWrite, ToolNotify, pollVars
<1>10. CASE Tick \/ Stop \/ UNCHANGED vars
    BY <1>10, <1>2 DEF Tick, Stop, pollVars, vars
<1> QED
    BY <1>2, <1>3, <1>5, <1>6, <1>7, <1>8, <1>9, <1>10 DEF Next, Idle

-----------------------------------------------------------------------------
\* Every variable keeps its type, and the file its limit of rows (schedule.go: Add refuses at
\* the limit, and no other write adds a row).
THEOREM ScheduleTypes == Spec => []TypeOK
<1>1. ScheduleInv => TypeOK
    BY DEF ScheduleInv
<1> QED
    BY InvHolds, <1>1, PTL

\* No job that was added is lost by what turns and pollers write, or by a crash: fileMu is
\* held from each read of the file to its write (Add, Remove, CollectDue).
THEOREM JobsAreKept == Spec => []NoJobLost
<1>1. ScheduleInv => NoJobLost
    BY DEF ScheduleInv
<1> QED
    BY InvHolds, <1>1, PTL

\* A one-shot job becomes one turn at most: CollectDue has taken it out of the file before any
\* delivery is submitted.
THEOREM OneShotsFireOnce == Spec => []OneShotOnce
<1>1. ScheduleInv => OneShotOnce
    BY DEF ScheduleInv
<1> QED
    BY InvHolds, <1>1, PTL

\* No edit of the file passes a sleeping poller by: it has subscribed before its first scan,
\* and every write is followed by notifyScheduleWake.  A poller whose scan could not read the
\* file (timer.go: err # nil) sleeps with the idle timer.
THEOREM WakeupsAreKept == Spec => []NoLostWakeup
<1>1. ScheduleInv => NoLostWakeup
    BY DEF ScheduleInv, PollerIsInOrder, ScanIsCurrent, NoLostWakeup
<1> QED
    BY InvHolds, <1>1, PTL

\* submitScheduleDeliveries submits what CollectDue returned, one turn at a time and all of it,
\* unless the process is told to stop or dies.
THEOREM DeliveriesAreSubmitted == Spec => CollectedIsSubmitted
<1>1. ScheduleInv /\ [Next]_vars =>
          [\A s \in Sources : \A i \in batch[s] \ batch'[s] :
              \/ ppc'[s] = "await" /\ batch[s] = batch'[s] \cup {i}
              \/ stopping
              \/ crashes' > crashes]_vars
    BY BatchesOnlyShrinkByDelivery
<1> QED
    BY InvHolds, <1>1, PTL DEF Spec, CollectedIsSubmitted

=============================================================================
