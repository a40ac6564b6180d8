------------------------------ MODULE Schedule ------------------------------
(***************************************************************************)
(* The schedule package: jobs in scheduled_jobs.json, edited by the cron   *)
(* tool of any turn and by one poller per IM client, all under fileMu; a   *)
(* poller sleeps until the earliest run of its client's jobs or until it   *)
(* is woken by an edit, collects the due jobs, and submits them one by one *)
(* as inbound turns.                                                       *)
(*                                                                         *)
(* This is the default layout, one jobs file for all sessions              *)
(* (sessions.isolate_workspace off).  Time is counted in the code's        *)
(* seconds from 1 to Horizon; 0 is the zero time.  The clock stops at      *)
(* Horizon, which stands for every later instant: a timer set beyond it,   *)
(* the idle timer's hour among them, fires there.                          *)
(***************************************************************************)
EXTENDS Naturals, FiniteSets, FiniteSetsExt

CONSTANTS
    Ids,        \* job ids; each is added at most once (ids are random)
    Legacy,     \* ids of rows with enabled: false that an old file holds
    KindOf,     \* [Ids -> {"at", "every", "cron"}]
    ArgOf,      \* the instant, the period, or the set of instants of the cron expression
    SourceOf,   \* [Ids -> Sources], the target client
    Sources,    \* the clients, one poller each
    Tools,      \* the concurrent turns that may call the cron tool
    MaxJobs,    \* 64 in the code
    Horizon,
    MaxCrashes, \* bound on crashes of the process
    MaxFaults,  \* bound on failed reads and writes
    None

ASSUME ScheduleAssumption ==
    /\ Legacy \subseteq Ids
    /\ KindOf \in [Ids -> {"at", "every", "cron"}]
    /\ SourceOf \in [Ids -> Sources]
    /\ Sources \cap Tools = {}
    /\ None \notin Sources \cup Tools \cup Ids
    /\ MaxJobs \in Nat \ {0} /\ Horizon \in Nat \ {0}
    /\ MaxCrashes \in Nat /\ MaxFaults \in Nat
    /\ \A i \in Ids : IF KindOf[i] = "cron" THEN ArgOf[i] \subseteq Nat \ {0}
                                         ELSE ArgOf[i] \in Nat \ {0}

VARIABLES
    now,        \* the clock
    file,       \* the rows of scheduled_jobs.json
    mu,         \* the holder of fileMu
    snap,       \* the rows the holder has read
    stopping,   \* the root context is cancelled
    ppc,        \* where each poller stands
    at,         \* the time.Now() a poller took for its next scan or collection
    target,     \* the run a poller's last scan found and will sleep until; 0 for none
    timer,      \* the instant a sleeping poller's timer fires; 0 for never
    blind,      \* the pollers whose last scan could not read the file
    token,      \* the wake channel of each poller, of capacity one, is full
    subscribed, \* the pollers whose wake channel is registered
    batch,      \* the deliveries a poller has collected and not yet submitted
    tpc,        \* where each tool call stands
    req,        \* the request of each tool call: add or remove an id, or list
    added,      \* history: the ids whose Add succeeded
    ended,      \* history: the ids removed on request or fired for good
    turns,      \* history: how many turns were submitted for each job
    waived,     \* history: the ids removed on request, or collected and not submitted at a crash
    crashes,    \* bounded by MaxCrashes
    faults      \* bounded by MaxFaults

fileVars   == <<file, mu, snap>>
pollVars   == <<ppc, at, target, timer, blind, batch>>
toolVars   == <<tpc, req>>
wakeVars   == <<token, subscribed>>
histVars   == <<added, ended, turns, waived>>
boundVars  == <<crashes, faults>>
vars == <<now, file, mu, snap, stopping, ppc, at, target, timer, blind, token,
          subscribed, batch, tpc, req, added, ended, turns, waived, crashes, faults>>

OneShots == {i \in Ids \ Legacy : KindOf[i] = "at"}

Requests == [op : {"add", "remove"}, id : Ids \ Legacy] \cup [op : {"list"}, id : {None}]
NoRequest == [op |-> "none", id |-> None]

-----------------------------------------------------------------------------
(* Pure parts of the package.                                              *)

IdsOf(F) == {j.id : j \in F}

\* compactDisabledJobs
Compact(F) == {j \in F : j.enabled}

\* NextWakeDuration: the earliest run of the client's enabled jobs, 0 if there is none.
EarliestRun(F, s) ==
    LET T == {j.next : j \in {k \in F : k.enabled /\ SourceOf[k.id] = s /\ k.next # 0}} IN
    IF T = {} THEN 0 ELSE Min(T)

CronNext(i, t) ==
    LET T == {u \in ArgOf[i] : u > t} IN IF T = {} THEN 0 ELSE Min(T)

\* NextRunAfter, and initialNextRun (which has the same value wherever it accepts the job)
RunAfter(i, t) ==
    CASE KindOf[i] = "at"    -> ArgOf[i]
      [] KindOf[i] = "every" -> t + ArgOf[i]
      [] OTHER               -> CronNext(i, t)

\* initialNextRun refuses an instant in the past and a cron expression without a next run.
Addable(i, t) ==
    /\ KindOf[i] = "at" => ArgOf[i] > t - 1
    /\ KindOf[i] = "cron" => CronNext(i, t) # 0

Due(j, s, t) == SourceOf[j.id] = s /\ j.next # 0 /\ j.next <= t

\* CollectDue: a fired one-shot job leaves the file, the others get their next run after
\* the firing time (runs missed meanwhile are not made up for).
DueIds(F, s, t) == {j.id : j \in {k \in Compact(F) : Due(k, s, t)}}
AfterFiring(F, s, t) ==
    {j \in Compact(F) : ~ Due(j, s, t)} \cup
    {[j EXCEPT !.next = RunAfter(j.id, t)] :
        j \in {k \in Compact(F) : Due(k, s, t) /\ KindOf[k.id] # "at"}}

\* Variants of the operators below.
AlwaysFree(x)       == TRUE
FullBeyondLimit(F)  == Cardinality(F) > MaxJobs
KeptOnError(ids)    == ids
RestDropped(B)      == {}
NoTimer             == 0
WakeNobody          == UNCHANGED token

\* fileMu can be taken.
Free(x) == mu = None

\* Add refuses when the file holds MaxJobs rows.
Full(F) == Cardinality(F) >= MaxJobs

\* CollectDue returns no deliveries when its write fails.
OnWriteError(ids) == {}

\* submitScheduleDeliveries goes on with the rest of its deliveries.
Rest(B) == B

\* The timer of a poller that found no run: the idle sleep, one hour.
IdleTimer == Horizon

\* notifyScheduleWake: every registered channel has its one token.
Notify == token' = [s \in Sources |-> token[s] \/ s \in subscribed]

-----------------------------------------------------------------------------
Init ==
    /\ now = 1
    /\ file = {[id |-> i, enabled |-> FALSE, next |-> 1] : i \in Legacy}
    /\ mu = None /\ snap = {}
    /\ stopping = FALSE
    /\ ppc = [s \in Sources |-> "start"]
    /\ at = [s \in Sources |-> 0]
    /\ target = [s \in Sources |-> 0]
    /\ timer = [s \in Sources |-> 0]
    /\ blind = {}
    /\ token = [s \in Sources |-> FALSE]
    /\ subscribed = {}
    /\ batch = [s \in Sources |-> {}]
    /\ tpc = [t \in Tools |-> "idle"]
    /\ req = [t \in Tools |-> NoRequest]
    /\ added = {} /\ ended = {} /\ waived = {}
    /\ turns = [i \in Ids \ Legacy |-> 0]
    /\ crashes = 0 /\ faults = 0

-----------------------------------------------------------------------------
(* The cron tool: Add, Remove, ListText.                                   *)

\* A turn calls the tool; the call takes fileMu and reads the file.  (A call that cannot
\* read it returns the error and changes nothing.)
ToolLock(t) ==
    /\ tpc[t] = "idle"
    /\ ~ stopping
    /\ Free(t)
    /\ mu' = t
    /\ snap' = file
    /\ \E r \in Requests :
          /\ r.op = "add" => r.id \notin added
          /\ r.op = "remove" => r.id \in added
          /\ req' = [req EXCEPT ![t] = r]
    /\ tpc' = [tpc EXCEPT ![t] = "locked"]
    /\ UNCHANGED <<now, file, stopping>>
    /\ UNCHANGED pollVars /\ UNCHANGED wakeVars /\ UNCHANGED histVars /\ UNCHANGED boundVars

\* What the call writes, if its checks pass.
Edited(r, F) ==
    CASE r.op = "add"    -> F \cup {[id |-> r.id, enabled |-> TRUE, next |-> RunAfter(r.id, now)]}
      [] r.op = "remove" -> {j \in F : j.id # r.id}
      [] OTHER           -> F

Refused(r, F) ==
    CASE r.op = "add"    -> Full(Compact(F)) \/ ~ Addable(r.id, now)
      [] r.op = "remove" -> r.id \notin IdsOf(F)
      [] OTHER           -> Compact(F) = F      \* a list: nothing to compact, nothing to write

Unlock == mu' = None /\ snap' = {}

ToolRefused(t) ==
    /\ tpc[t] = "locked"
    /\ Refused(req[t], snap)
    /\ Unlock
    /\ tpc' = [tpc EXCEPT ![t] = "idle"]
    /\ req' = [req EXCEPT ![t] = NoRequest]
    /\ UNCHANGED <<now, file, stopping>>
    /\ UNCHANGED pollVars /\ UNCHANGED wakeVars /\ UNCHANGED histVars /\ UNCHANGED boundVars

ToolWriteFails(t) ==
    /\ tpc[t] = "locked"
    /\ ~ Refused(req[t], snap)
    /\ faults < MaxFaults
    /\ faults' = faults + 1
    /\ Unlock
    /\ tpc' = [tpc EXCEPT ![t] = "idle"]
    /\ req' = [req EXCEPT ![t] = NoRequest]
    /\ UNCHANGED <<now, file, stopping, crashes>>
    /\ UNCHANGED pollVars /\ UNCHANGED wakeVars /\ UNCHANGED histVars

\* The temporary file is renamed over the jobs file; the mutex is released.
ToolWrite(t) ==
    /\ tpc[t] = "locked"
    /\ ~ Refused(req[t], snap)
    /\ file' = Edited(req[t], Compact(snap))
    /\ Unlock
    /\ tpc' = [tpc EXCEPT ![t] = "written"]
    /\ added' = IF req[t].op = "add" THEN added \cup {req[t].id} ELSE added
    /\ ended' = IF req[t].op = "remove" THEN ended \cup {req[t].id} ELSE ended
    /\ waived' = IF req[t].op = "remove" THEN waived \cup {req[t].id} ELSE waived
    /\ UNCHANGED <<now, stopping, req, turns>>
    /\ UNCHANGED pollVars /\ UNCHANGED wakeVars /\ UNCHANGED boundVars

\* Add and Remove notify after the unlock.  (ListText does so just before it; no one can
\* tell the difference, as fileMu orders nothing that reads the tokens.)
ToolNotify(t) ==
    /\ tpc[t] = "written"
    /\ Notify
    /\ tpc' = [tpc EXCEPT ![t] = "idle"]
    /\ req' = [req EXCEPT ![t] = NoRequest]
    /\ UNCHANGED <<now, stopping, subscribed>>
    /\ UNCHANGED fileVars /\ UNCHANGED pollVars /\ UNCHANGED histVars /\ UNCHANGED boundVars

-----------------------------------------------------------------------------
(* The poller of client s: runHostSchedulePoller.                          *)

Goto(s, l) == ppc' = [ppc EXCEPT ![s] = l]

\* SubscribeWake comes before the first scan.
Subscribe(s) ==
    /\ ppc[s] = "start"
    /\ subscribed' = subscribed \cup {s}
    /\ Goto(s, "loop")
    /\ UNCHANGED <<now, stopping, at, target, timer, blind, batch, token>>
    /\ UNCHANGED fileVars /\ UNCHANGED toolVars /\ UNCHANGED histVars /\ UNCHANGED boundVars

\* The head of the loop: leave if the context is done, else take the time.
LoopHead(s) ==
    /\ ppc[s] = "loop"
    /\ IF stopping
       THEN Goto(s, "exited") /\ subscribed' = subscribed \ {s} /\ UNCHANGED at
       ELSE Goto(s, "scan") /\ at' = [at EXCEPT ![s] = now] /\ UNCHANGED subscribed
    /\ UNCHANGED <<now, stopping, target, timer, blind, batch, token>>
    /\ UNCHANGED fileVars /\ UNCHANGED toolVars /\ UNCHANGED histVars /\ UNCHANGED boundVars

\* NextWakeDuration under fileMu: collect now, or sleep until the earliest run (at least
\* the minimal sleep, one second), or idle.
Scan(s) ==
    LET run == EarliestRun(file, s) IN
    /\ ppc[s] = "scan"
    /\ Free(s)
    /\ IF run # 0 /\ run <= at[s]
       THEN Goto(s, "due") /\ at' = [at EXCEPT ![s] = now] /\ UNCHANGED target
       ELSE Goto(s, "arm") /\ target' = [target EXCEPT ![s] = run] /\ UNCHANGED at
    /\ blind' = blind \ {s}
    /\ UNCHANGED <<now, stopping, timer, batch>>
    /\ UNCHANGED fileVars /\ UNCHANGED toolVars /\ UNCHANGED wakeVars
    /\ UNCHANGED histVars /\ UNCHANGED boundVars

\* A file that cannot be read counts as one without a run: the poller idles.
ScanFails(s) ==
    /\ ppc[s] = "scan"
    /\ Free(s)
    /\ faults < MaxFaults
    /\ faults' = faults + 1
    /\ blind' = blind \cup {s}
    /\ target' = [target EXCEPT ![s] = 0]
    /\ Goto(s, "arm")
    /\ UNCHANGED <<now, stopping, at, timer, batch, crashes>>
    /\ UNCHANGED fileVars /\ UNCHANGED toolVars /\ UNCHANGED wakeVars /\ UNCHANGED histVars

\* time.NewTimer(wait), where wait is the target's distance from the scan's time.
Arm(s) ==
    /\ ppc[s] = "arm"
    /\ timer' = [timer EXCEPT ![s] =
          IF target[s] = 0 THEN IdleTimer ELSE Min({now + (target[s] - at[s]), Horizon})]
    /\ at' = [at EXCEPT ![s] = 0]
    /\ Goto(s, "sleep")
    /\ UNCHANGED <<now, stopping, target, blind, batch>>
    /\ UNCHANGED fileVars /\ UNCHANGED toolVars /\ UNCHANGED wakeVars
    /\ UNCHANGED histVars /\ UNCHANGED boundVars

Awake(s) ==
    /\ timer' = [timer EXCEPT ![s] = 0]
    /\ target' = [target EXCEPT ![s] = 0]

\* The select of the loop, one branch each: a wake-up, the timer, the end.
Woken(s) ==
    /\ ppc[s] = "sleep"
    /\ token[s]
    /\ token' = [token EXCEPT ![s] = FALSE]
    /\ Awake(s)
    /\ Goto(s, "loop")
    /\ UNCHANGED <<now, stopping, at, blind, batch, subscribed>>
    /\ UNCHANGED fileVars /\ UNCHANGED toolVars /\ UNCHANGED histVars /\ UNCHANGED boundVars

TimerFires(s) ==
    /\ ppc[s] = "sleep"
    /\ timer[s] # 0 /\ timer[s] <= now
    /\ Awake(s)
    /\ at' = [at EXCEPT ![s] = now]
    /\ Goto(s, "due")
    /\ UNCHANGED <<now, stopping, blind, batch>>
    /\ UNCHANGED fileVars /\ UNCHANGED toolVars /\ UNCHANGED wakeVars
    /\ UNCHANGED histVars /\ UNCHANGED boundVars

StoppedAsleep(s) ==
    /\ ppc[s] = "sleep"
    /\ stopping
    /\ subscribed' = subscribed \ {s}
    /\ Awake(s)
    /\ Goto(s, "exited")
    /\ UNCHANGED <<now, stopping, at, blind, batch, token>>
    /\ UNCHANGED fileVars /\ UNCHANGED toolVars /\ UNCHANGED histVars /\ UNCHANGED boundVars

\* CollectDue takes fileMu and reads; its `now` was taken before the lock.
CollectLock(s) ==
    /\ ppc[s] = "due"
    /\ Free(s)
    /\ mu' = s
    /\ snap' = file
    /\ Goto(s, "collect")
    /\ UNCHANGED <<now, file, stopping, at, target, timer, blind, batch>>
    /\ UNCHANGED toolVars /\ UNCHANGED wakeVars /\ UNCHANGED histVars /\ UNCHANGED boundVars

\* CollectDue returns; the poller submits the deliveries, if there are any.
NextDelivery(s, ids) ==
    /\ batch' = [batch EXCEPT ![s] = ids]
    /\ Goto(s, IF ids = {} THEN "loop" ELSE "deliver")

Collected(s, ids) ==
    /\ at' = [at EXCEPT ![s] = 0]
    /\ NextDelivery(s, ids)

\* Nothing to fire and nothing to compact: no write, no deliveries.
CollectNothing(s) ==
    /\ ppc[s] = "collect"
    /\ DueIds(snap, s, at[s]) = {} /\ Compact(snap) = snap
    /\ Unlock
    /\ Collected(s, {})
    /\ UNCHANGED <<now, file, stopping, target, timer, blind>>
    /\ UNCHANGED toolVars /\ UNCHANGED wakeVars /\ UNCHANGED histVars /\ UNCHANGED boundVars

\* The file is written before any delivery is submitted.
CollectWrite(s) ==
    LET ids == DueIds(snap, s, at[s]) IN
    /\ ppc[s] = "collect"
    /\ ids # {} \/ Compact(snap) # snap
    /\ file' = AfterFiring(snap, s, at[s])
    /\ Unlock
    /\ Notify
    /\ Collected(s, ids)
    /\ ended' = ended \cup {i \in ids : KindOf[i] = "at"}
    /\ UNCHANGED <<now, stopping, target, timer, blind, subscribed, added, turns, waived>>
    /\ UNCHANGED toolVars /\ UNCHANGED boundVars

\* The read or the write of CollectDue fails.
CollectFails(s) ==
    /\ ppc[s] = "collect"
    /\ faults < MaxFaults
    /\ faults' = faults + 1
    /\ Unlock
    /\ Collected(s, OnWriteError(DueIds(snap, s, at[s])))
    /\ UNCHANGED <<now, file, stopping, target, timer, blind, crashes>>
    /\ UNCHANGED toolVars /\ UNCHANGED wakeVars /\ UNCHANGED histVars

\* submitScheduleDeliveries: a goroutine submits the next delivery's turn ...
Deliver(s) ==
    /\ ppc[s] = "deliver"
    /\ \E i \in batch[s] :
          /\ turns' = [turns EXCEPT ![i] = @ + 1]
          /\ batch' = [batch EXCEPT ![s] = @ \ {i}]
    /\ Goto(s, "await")
    /\ UNCHANGED <<now, stopping, at, target, timer, blind, added, ended, waived>>
    /\ UNCHANGED fileVars /\ UNCHANGED toolVars /\ UNCHANGED wakeVars /\ UNCHANGED boundVars

\* ... and the poller waits for its end, whether it succeeded or not ...
TurnEnds(s) ==
    /\ ppc[s] = "await"
    /\ NextDelivery(s, Rest(batch[s]))
    /\ UNCHANGED <<now, stopping, at, target, timer, blind>>
    /\ UNCHANGED fileVars /\ UNCHANGED toolVars /\ UNCHANGED wakeVars
    /\ UNCHANGED histVars /\ UNCHANGED boundVars

\* ... or for the end of the root context, which drops the other deliveries.
StoppedWaiting(s) ==
    /\ ppc[s] = "await"
    /\ stopping
    /\ NextDelivery(s, {})
    /\ UNCHANGED <<now, stopping, at, target, timer, blind>>
    /\ UNCHANGED fileVars /\ UNCHANGED toolVars /\ UNCHANGED wakeVars
    /\ UNCHANGED histVars /\ UNCHANGED boundVars

-----------------------------------------------------------------------------
(* Environment.                                                            *)

Tick ==
    /\ now < Horizon
    /\ now' = now + 1
    /\ UNCHANGED stopping
    /\ UNCHANGED fileVars /\ UNCHANGED pollVars /\ UNCHANGED toolVars
    /\ UNCHANGED wakeVars /\ UNCHANGED histVars /\ UNCHANGED boundVars

Stop ==
    /\ ~ stopping
    /\ stopping' = TRUE
    /\ UNCHANGED now
    /\ UNCHANGED fileVars /\ UNCHANGED pollVars /\ UNCHANGED toolVars
    /\ UNCHANGED wakeVars /\ UNCHANGED histVars /\ UNCHANGED boundVars

\* The process dies and is started again: only the file survives.
Crash ==
    /\ crashes < MaxCrashes
    /\ crashes' = crashes + 1
    /\ mu' = None /\ snap' = {}
    /\ stopping' = FALSE
    /\ ppc' = [s \in Sources |-> "start"]
    /\ at' = [s \in Sources |-> 0]
    /\ target' = [s \in Sources |-> 0]
    /\ timer' = [s \in Sources |-> 0]
    /\ blind' = {}
    /\ token' = [s \in Sources |-> FALSE]
    /\ subscribed' = {}
    /\ batch' = [s \in Sources |-> {}]
    /\ tpc' = [t \in Tools |-> "idle"]
    /\ req' = [t \in Tools |-> NoRequest]
    /\ waived' = waived \cup UNION {batch[s] : s \in Sources}
    /\ UNCHANGED <<now, file, added, ended, turns, faults>>

ToolStep(t) == ToolRefused(t) \/ ToolWriteFails(t) \/ ToolWrite(t) \/ ToolNotify(t)

PollerStep(s) ==
    \/ Subscribe(s) \/ LoopHead(s) \/ Scan(s) \/ ScanFails(s) \/ Arm(s)
    \/ Woken(s) \/ TimerFires(s) \/ StoppedAsleep(s)
    \/ CollectLock(s) \/ CollectNothing(s) \/ CollectWrite(s) \/ CollectFails(s)
    \/ Deliver(s) \/ TurnEnds(s) \/ StoppedWaiting(s)

\* Everything due has been handled, the clock stands and the process may idle for ever.
Idle ==
    /\ now = Horizon
    /\ UNCHANGED vars

Next ==
    \/ \E t \in Tools : ToolLock(t) \/ ToolStep(t)
    \/ \E s \in Sources : PollerStep(s)
    \/ Tick \/ Stop \/ Crash \/ Idle

\* Goroutines are scheduled, fileMu is granted to a goroutine that waits for it (a Go
\* mutex starves nobody), a submitted turn ends, and time passes.
Fairness ==
    /\ WF_vars(Tick)
    /\ \A t \in Tools : WF_vars(ToolStep(t))
    /\ \A s \in Sources : WF_vars(PollerStep(s)) /\ SF_vars(Scan(s)) /\ SF_vars(CollectLock(s))

Spec == Init /\ [][Next]_vars /\ Fairness

-----------------------------------------------------------------------------
(* Properties.                                                             *)

\* Every variable has its type, and the file never holds more than MaxJobs enabled rows.
TypeOK ==
    /\ now \in 1..Horizon
    /\ file \subseteq [id : Ids, enabled : BOOLEAN, next : Nat]
    /\ Cardinality(Compact(file)) <= MaxJobs
    /\ mu \in Sources \cup Tools \cup {None}
    /\ snap \subseteq [id : Ids, enabled : BOOLEAN, next : Nat]
    /\ stopping \in BOOLEAN
    /\ ppc \in [Sources -> {"start", "loop", "scan", "arm", "sleep", "due", "collect",
                            "deliver", "await", "exited"}]
    /\ at \in [Sources -> 0..Horizon]
    /\ target \in [Sources -> Nat]
    /\ timer \in [Sources -> 0..Horizon]
    /\ blind \in SUBSET Sources
    /\ token \in [Sources -> BOOLEAN]
    /\ subscribed \in SUBSET Sources
    /\ batch \in [Sources -> SUBSET Ids]
    /\ tpc \in [Tools -> {"idle", "locked", "written"}]
    /\ req \in [Tools -> Requests \cup {NoRequest}]
    /\ added \in SUBSET Ids /\ ended \in SUBSET Ids /\ waived \in SUBSET Ids
    /\ turns \in [Ids \ Legacy -> Nat]
    /\ crashes \in 0..MaxCrashes /\ faults \in 0..MaxFaults

\* A job whose Add succeeded stays in the file until it is removed on request or, if it is
\* a one-shot, fires, whatever the pollers of other clients and other turns write between
\* and wherever the process dies.
NoJobLost == added \ ended \subseteq IdsOf(file)

\* A one-shot job never becomes two turns: not by a failed write, not by a crash between
\* collecting and submitting, not by two pollers.
OneShotOnce == \A i \in OneShots : turns[i] <= 1

\* A poller that sleeps with an empty wake channel, while no writer is about to fill it, has
\* a timer; the timer is that of the earliest run the file now has for its client, so no edit
\* was missed, unless its last scan could not read the file: then it is the idle timer.
NoLostWakeup ==
    \A s \in Sources :
        (ppc[s] = "sleep" /\ ~ token[s] /\ \A t \in Tools : tpc[t] # "written") =>
            /\ timer[s] # 0
            /\ target[s] = IF s \in blind THEN 0 ELSE EarliestRun(file, s)

Overdue(i) == \E j \in file : j.id = i /\ j.next # 0 /\ j.next <= now

\* A job that is due becomes one more turn, after failed reads and writes too, and after a
\* crash, unless the process is told to stop, the job is removed on request, or the crash
\* comes between the write that takes the job from the file and its submission.
DueFires ==
    \A i \in Ids \ Legacy : \A n \in 0..Horizon :
        (Overdue(i) /\ turns[i] = n) ~> (stopping \/ i \in waived \/ turns[i] > n)

\* What was collected is submitted, one turn at a time, unless the process is told to stop
\* or dies: a failed turn does not cost the deliveries behind it.
CollectedIsSubmitted ==
    [][\A s \in Sources : \A i \in batch[s] \ batch'[s] :
          \/ ppc'[s] = "await" /\ batch[s] = batch'[s] \cup {i}
          \/ stopping
          \/ crashes' > crashes]_vars

=============================================================================
