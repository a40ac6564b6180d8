------------------------------ MODULE ExecRuns ------------------------------
(***************************************************************************)
(* The exec tool.  A run gets exec_log/<seconds>/ under the root of its    *)
(* session, which all sessions share unless each has a workspace of its    *)
(* own: run.log, and for a background run the file its shell leaves the    *)
(* job's pid in.  A foreground run truncates the log, waits for the        *)
(* command and answers with the log; a command that takes too long goes on *)
(* by itself.                                                              *)
(***************************************************************************)
EXTENDS Naturals, Sequences, SequencesExt, FiniteSets

CONSTANTS
    Runs,           \* runs of the tool, of all turns that share the root
    LastSecond,
    MaxOutput,      \* bound on the lines a command prints
    Hole            \* what a line that nobody wrote reads as

ASSUME ExecAssumption == Hole \notin Runs /\ LastSecond \in Nat \ {0} /\ MaxOutput \in Nat

VARIABLES
    sec,        \* the clock
    run,        \* where each run stands
    dir,        \* its directory
    log,        \* each directory's run.log: by whom its lines are
    pidFile,    \* each directory's pid file; Hole for none
    printed,    \* lines each command has printed
    answer,     \* what the tool answered: the log, or the pid
    began,      \* history: the second each run began in
    whole       \* history: lines a foreground command had printed when its shell ended

exVars == <<sec, run, dir, log, pidFile, printed, answer, began, whole>>

\* A variant for the mutation runs.
ByPairOfSeconds(t) == (t + 1) \div 2

\* execSessionDir names the directory.
Stamp(t) == t

ExecInit ==
    /\ sec = 1
    /\ run = [r \in Runs |-> "new"] /\ dir = [r \in Runs |-> 0]
    /\ log = [t \in 1 .. LastSecond |-> <<>>] /\ pidFile = [t \in 1 .. LastSecond |-> Hole]
    /\ printed = [r \in Runs |-> 0] /\ answer = [r \in Runs |-> <<>>]
    /\ began = [r \in Runs |-> 0] /\ whole = [r \in Runs |-> 0]

Begin(r, where) ==
    /\ run[r] = "new"
    /\ run' = [run EXCEPT ![r] = where]
    /\ dir' = [dir EXCEPT ![r] = Stamp(sec)]
    /\ began' = [began EXCEPT ![r] = sec]
    /\ UNCHANGED <<sec, pidFile, printed, answer, whole>>

\* O_TRUNC, then the command starts.
BeginForeground(r) == Begin(r, "runs") /\ log' = [log EXCEPT ![Stamp(sec)] = <<>>]

\* The shell starts the job, which appends to the log, and writes its pid.
BeginBackground(r) == Begin(r, "starts") /\ UNCHANGED log

WritePid(r) ==
    /\ run[r] = "starts"
    /\ pidFile' = [pidFile EXCEPT ![dir[r]] = r]
    /\ run' = [run EXCEPT ![r] = "started"]
    /\ UNCHANGED <<sec, dir, log, printed, answer, began, whole>>

\* The tool reads the pid and removes the file; a shell that did not come back in time, or
\* was killed with the turn, may have left none.
AnswerBackground(r) ==
    /\ run[r] \in {"starts", "started"}
    /\ answer' = [answer EXCEPT ![r] = <<pidFile[dir[r]]>>]
    /\ pidFile' = [pidFile EXCEPT ![dir[r]] = Hole]
    /\ run' = [run EXCEPT ![r] = IF @ = "started" THEN "job" ELSE "orphan"]
    /\ UNCHANGED <<sec, dir, log, printed, began, whole>>

Appending == {"starts", "started", "job", "orphan"}

\* A foreground command writes at its own offset, whatever has become of the file.
At(lines, n, r) == [i \in 1 .. IF n > Len(lines) THEN n ELSE Len(lines) |->
                       IF i = n THEN r ELSE IF i <= Len(lines) THEN lines[i] ELSE Hole]

\* The command prints, or what it has left running: the tool waits for its shell, and kills
\* no more than that.
Output(r) ==
    /\ run[r] # "new" /\ printed[r] < MaxOutput
    /\ printed' = [printed EXCEPT ![r] = @ + 1]
    /\ log' = [log EXCEPT ![dir[r]] = IF run[r] \in Appending THEN Append(@, r)
                                      ELSE At(@, printed[r] + 1, r)]
    /\ UNCHANGED <<sec, run, dir, pidFile, answer, began, whole>>

\* The shell ends in time; what it started in the background keeps the log open.
Exit(r) ==
    /\ run[r] = "runs"
    /\ run' = [run EXCEPT ![r] = "exited"]
    /\ whole' = [whole EXCEPT ![r] = printed[r]]
    /\ UNCHANGED <<sec, dir, log, pidFile, printed, answer, began>>

AnswerForeground(r) ==
    /\ run[r] = "exited"
    /\ answer' = [answer EXCEPT ![r] = log[dir[r]]]
    /\ run' = [run EXCEPT ![r] = "answered"]
    /\ UNCHANGED <<sec, dir, log, pidFile, printed, began, whole>>

\* The tool has waited long enough and leaves the command alone, or the turn is cancelled
\* and the shell killed.
GiveUp(r) ==
    /\ run[r] = "runs"
    /\ \E where \in {"detached", "over"} : run' = [run EXCEPT ![r] = where]
    /\ UNCHANGED <<sec, dir, log, pidFile, printed, answer, began, whole>>

Second ==
    /\ sec < LastSecond /\ sec' = sec + 1
    /\ UNCHANGED <<run, dir, log, pidFile, printed, answer, began, whole>>

ExecNext ==
    \/ Second
    \/ \E r \in Runs : \/ BeginForeground(r) \/ BeginBackground(r) \/ WritePid(r) \/ AnswerBackground(r)
                       \/ Output(r) \/ Exit(r) \/ AnswerForeground(r) \/ GiveUp(r)

ExecSpec == ExecInit /\ [][ExecNext]_exVars

-----------------------------------------------------------------------------
(* Properties.                                                             *)

Alone(r) == \A s \in Runs \ {r} : began[s] # began[r]

\* What a run answers with comes from the runs of its own second.  A run that shares it with no
\* other answers with its own output, all of it that was there when its shell ended, or with
\* the pid of its own job.
OutputIsOwn ==
    \A r \in Runs :
        /\ ToSet(answer[r]) \subseteq {s \in Runs : began[s] = began[r]} \cup {Hole}
        /\ Alone(r) =>
              /\ run[r] = "answered" =>
                    ToSet(answer[r]) \subseteq {r} /\ whole[r] <= Len(answer[r]) /\ Len(answer[r]) <= printed[r]
              /\ run[r] = "job" => answer[r] = <<r>>

=============================================================================
