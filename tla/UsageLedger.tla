---------------------------- MODULE UsageLedger ----------------------------
(***************************************************************************)
(* The usage ledger: after every model completion a line in                *)
(* interactions.jsonl, then the rollup of the day, then that of the user,  *)
(* each read, added to and renamed over.  recordMu covers all three; a     *)
(* write that fails, or the end of the process, leaves the rest undone.    *)
(***************************************************************************)
EXTENDS Naturals, FiniteSets, Functions

CONSTANTS
    Recorders,      \* goroutines with completions to record
    Users,
    LastDay,
    MaxRecords,     \* bound on completions
    MaxSlips,       \* bound on reads and writes that fail, and on ends of the process
    NoRecorder

ASSUME LedgerAssumption ==
    /\ NoRecorder \notin Recorders /\ IsFiniteSet(Users)
    /\ LastDay \in Nat \ {0} /\ {MaxRecords, MaxSlips} \subseteq Nat

Days == 1 .. LastDay

VARIABLES
    today,
    lines,      \* [Users -> lines in the ledger]
    daily,      \* [Days -> the day's total]
    perUser,    \* [Users -> the user's total]
    recordMu,
    rec,        \* each recorder: where it is, its user, the day it adds to, the total it has read
    records,    \* bounded by MaxRecords
    slips,      \* bounded by MaxSlips
    wiped       \* history: a rollup that could not be read has started again from zero

ledgerVars == <<lines, daily, perUser>>
ulVars     == <<today, lines, daily, perUser, recordMu, rec, records, slips, wiped>>

AtRest == [at |-> "idle", user |-> NoRecorder, day |-> 0, total |-> 0]

\* A variant for the mutation runs.
NotExcluded(r) == TRUE

MayRecord(r) == recordMu = NoRecorder

LedgerInit ==
    /\ today = 1
    /\ lines = [u \in Users |-> 0] /\ perUser = [u \in Users |-> 0] /\ daily = [d \in Days |-> 0]
    /\ recordMu = NoRecorder /\ rec = [r \in Recorders |-> AtRest]
    /\ records = 0 /\ slips = 0 /\ wiped = FALSE

-----------------------------------------------------------------------------
Slip == slips < MaxSlips /\ slips' = slips + 1
To(r, where) == rec' = [rec EXCEPT ![r].at = where]

\* A completion that has tokens to record; it waits for the mutex.
Complete(r, u) ==
    /\ rec[r].at = "idle" /\ records < MaxRecords /\ records' = records + 1
    /\ rec' = [rec EXCEPT ![r] = [AtRest EXCEPT !.at = "wait", !.user = u]]
    /\ UNCHANGED <<today, ledgerVars, recordMu, slips, wiped>>

\* The line.  A directory or a file that cannot be opened ends it; a write that fails does not.
AppendLine(r) ==
    /\ rec[r].at = "wait" /\ MayRecord(r)
    /\ \/ /\ recordMu' = r /\ To(r, "day")
          /\ \/ lines' = [lines EXCEPT ![rec[r].user] = @ + 1] /\ slips' = slips
             \/ lines' = lines /\ Slip
       \/ Slip /\ rec' = [rec EXCEPT ![r] = AtRest] /\ UNCHANGED <<lines, recordMu>>
    /\ UNCHANGED <<today, daily, perUser, records, wiped>>

\* mergeRollupFile: what cannot be read counts as zero.
ReadRollup(r) ==
    /\ rec[r].at \in {"day", "user"}
    /\ LET read(total) == [rec[r] EXCEPT !.at = IF @ = "day" THEN "dayRead" ELSE "userRead",
                                         !.day = today, !.total = total]
           total == IF rec[r].at = "day" THEN daily[today] ELSE perUser[rec[r].user]
       IN \/ rec' = [rec EXCEPT ![r] = read(total)] /\ UNCHANGED <<slips, wiped>>
          \/ total # 0 /\ Slip /\ rec' = [rec EXCEPT ![r] = read(0)] /\ wiped' = TRUE
    /\ UNCHANGED <<today, ledgerVars, recordMu, records>>

AddToDay(r) ==
    /\ rec[r].at = "dayRead"
    /\ \/ daily' = [daily EXCEPT ![rec[r].day] = rec[r].total + 1] /\ slips' = slips
       \/ daily' = daily /\ Slip
    /\ To(r, "user")
    /\ UNCHANGED <<today, lines, perUser, recordMu, records, wiped>>

AddToUser(r) ==
    /\ rec[r].at = "userRead"
    /\ \/ perUser' = [perUser EXCEPT ![rec[r].user] = rec[r].total + 1] /\ slips' = slips
       \/ perUser' = perUser /\ Slip
    /\ recordMu' = NoRecorder
    /\ rec' = [rec EXCEPT ![r] = AtRest]
    /\ UNCHANGED <<today, lines, daily, records, wiped>>

\* The process ends and starts again.
LedgerCrash ==
    /\ Slip
    /\ recordMu' = NoRecorder /\ rec' = [r \in Recorders |-> AtRest]
    /\ UNCHANGED <<today, ledgerVars, records, wiped>>

Midnight ==
    /\ today < LastDay /\ today' = today + 1
    /\ UNCHANGED <<ledgerVars, recordMu, rec, records, slips, wiped>>

LedgerNext ==
    \/ \E r \in Recorders :
          AppendLine(r) \/ ReadRollup(r) \/ AddToDay(r) \/ AddToUser(r) \/ \E u \in Users : Complete(r, u)
    \/ LedgerCrash \/ Midnight

LedgerSpec == LedgerInit /\ [][LedgerNext]_ulVars

-----------------------------------------------------------------------------
(* Properties.                                                             *)

Apart(m, n, by) == m <= n + by /\ n <= m + by

\* Unless a rollup could not be read, the ledger, the days and the users never disagree by
\* more than the writes that failed and the one record that is being written; with neither,
\* they agree exactly.
RollupsAgree ==
    LET open == IF recordMu = NoRecorder THEN 0 ELSE 1
        by   == slips + open
    IN ~ wiped =>
         /\ \A u \in Users : Apart(lines[u], perUser[u], by)
         /\ Apart(SumFunction(daily), SumFunction(lines), by)
         /\ Apart(SumFunction(daily), SumFunction(perUser), by)

=============================================================================
