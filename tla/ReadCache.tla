----------------------------- MODULE ReadCache -----------------------------
(***************************************************************************)
(* The files of a workspace and the read caches of the tool contexts that  *)
(* use it: one for every turn, one for every sub-agent, which starts empty *)
(* or, for a fork, with a copy of its parent's.  read_file answers from    *)
(* the cache, several calls of one answer at once; write_file fills it;    *)
(* exec, write_behavior_policy and the other contexts change files behind  *)
(* its back.  A file's contents are a version number.                      *)
(***************************************************************************)
EXTENDS Naturals, FiniteSets

CONSTANTS
    Ctxs, Files,
    MaxVersion,     \* bound on the writes
    Large           \* versions above the read limit: answered in part, not cached

ASSUME CacheAssumption == MaxVersion \in Nat /\ Large \subseteq 1 .. MaxVersion

VARIABLES
    file,       \* each file's version; 0 for none
    version,    \* the last version written
    cached,     \* [Ctxs -> [Files -> version]]; 0 for no entry
    reading,    \* the reads each context is at: the file and the version they have
    parent,     \* the context a sub-agent works for; itself for a turn
    foreign,    \* history: the last version of a file that was not of the context's write_file
    atStart     \* history: a file's version when the turn began that the context works for

rcHist == <<foreign, atStart>>
rcVars == <<file, version, cached, reading, parent, rcHist>>

\* A variant for the mutation runs.
KeepsEntry(c, f, v) == cached[c][f]

\* SetCachedRead, after write_file
EntryAfter(c, f, v) == v

CacheInit ==
    /\ file = [f \in Files |-> 0] /\ version = 0
    /\ cached = [c \in Ctxs |-> [f \in Files |-> 0]]
    /\ reading = [c \in Ctxs |-> {}]
    /\ parent = [c \in Ctxs |-> c]
    /\ foreign = [c \in Ctxs |-> [f \in Files |-> 0]]
    /\ atStart = [c \in Ctxs |-> [f \in Files |-> 0]]

\* A turn waits for its sub-agent; its tools that write run one at a time, and only the reads
\* of one answer run together.
Active(c) == \A d \in Ctxs \ {c} : parent[d] # c
Idle(c)   == Active(c) /\ reading[c] = {}

NewVersion(f) ==
    /\ version < MaxVersion /\ version' = version + 1
    /\ file' = [file EXCEPT ![f] = version']
ForeignTo(ctxs, f) ==
    foreign' = [d \in Ctxs |-> [g \in Files |-> IF d \in ctxs /\ g = f THEN version' ELSE foreign[d][g]]]

WriteFile(c, f) ==
    /\ Idle(c) /\ NewVersion(f)
    /\ cached' = [cached EXCEPT ![c][f] = EntryAfter(c, f, version')]
    /\ ForeignTo(Ctxs \ {c}, f)
    /\ UNCHANGED <<reading, parent, atStart>>

\* exec, write_behavior_policy, or a write_file that fails half-way
ChangeFile(c, f) ==
    /\ Idle(c) /\ NewVersion(f)
    /\ ForeignTo(Ctxs, f)
    /\ UNCHANGED <<cached, reading, parent, atStart>>

RemoveFile(c, f) ==
    /\ Idle(c) /\ file[f] # 0
    /\ file' = [file EXCEPT ![f] = 0]
    /\ UNCHANGED <<version, cached, reading, parent, rcHist>>

\* read_file of a file that is there and not in the cache; a call may follow the end of
\* another of its batch
StartRead(c, f) ==
    /\ Active(c) /\ file[f] # 0 /\ cached[c][f] = 0
    /\ reading' = [reading EXCEPT ![c] = @ \cup {[of |-> f, ver |-> file[f]]}]
    /\ UNCHANGED <<file, version, cached, parent, rcHist>>

\* SetCachedRead, in whatever order the reads come to it
EndRead(c, r) ==
    /\ r \in reading[c]
    /\ cached' = IF r.ver \in Large THEN cached ELSE [cached EXCEPT ![c][r.of] = r.ver]
    /\ reading' = [reading EXCEPT ![c] = @ \ {r}]
    /\ UNCHANGED <<file, version, parent, rcHist>>

\* run_agent, or fork_context, which imports the parent's cache
StartAgent(c, d) ==
    /\ c # d /\ Idle(c) /\ parent[d] = d /\ Idle(d)
    /\ parent' = [parent EXCEPT ![d] = c]
    /\ atStart' = [atStart EXCEPT ![d] = atStart[c]]
    /\ \/ /\ cached' = [cached EXCEPT ![d] = [f \in Files |-> 0]]
          /\ UNCHANGED foreign
       \/ /\ cached' = [cached EXCEPT ![d] = cached[c]]
          /\ foreign' = [foreign EXCEPT ![d] = foreign[c]]
    /\ UNCHANGED <<file, version, reading>>

\* The sub-agent, or the turn, is over; the next one of its context starts with an empty cache.
EndContext(c) ==
    /\ Idle(c)
    /\ parent' = [parent EXCEPT ![c] = c]
    /\ cached' = [cached EXCEPT ![c] = [f \in Files |-> 0]]
    /\ atStart' = [atStart EXCEPT ![c] = file]
    /\ UNCHANGED <<file, version, reading, foreign>>

CacheNext ==
    \E c \in Ctxs :
        \/ \E f \in Files : WriteFile(c, f) \/ ChangeFile(c, f) \/ RemoveFile(c, f) \/ StartRead(c, f)
        \/ \E r \in reading[c] : EndRead(c, r)
        \/ EndContext(c) \/ \E d \in Ctxs : StartAgent(c, d)

CacheSpec == CacheInit /\ [][CacheNext]_rcVars

-----------------------------------------------------------------------------
(* Properties.                                                             *)

\* What read_file would answer from a cache is something the file held since the turn began,
\* and it is what the file holds, unless something other than the context's own write_file has
\* written a later version: the entries a fork imports, those of reads that ran together
\* or raced with a write, and those of large files included.
CacheIsCurrent ==
    \A c \in Ctxs, f \in Files : cached[c][f] # 0 =>
        /\ cached[c][f] >= atStart[c][f]
        /\ file[f] # 0 /\ cached[c][f] >= foreign[c][f] => cached[c][f] = file[f]

=============================================================================
