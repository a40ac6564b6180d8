---------------------------- MODULE SessionTurns ----------------------------
(***************************************************************************)
(* What oneclaw promises about the turns of a chat (docs/config.md,        *)
(* "sessions.worker_count"; docs/im-channel-technical-design.md): messages *)
(* of one session are handled one at a time, in the order they were        *)
(* accepted, each at most once; sessions are independent of each other.    *)
(* Nothing here speaks of workers, shards, channels or cancellation.       *)
(***************************************************************************)
EXTENDS Sequences

CONSTANTS
    Jobs,       \* the inbound messages; each one is one turn
    Sessions,   \* the session handles
    SessionOf,  \* the session each message belongs to
    None        \* no turn

VARIABLES
    pending,    \* per session, the accepted turns that have not started
    running,    \* per session, the turn in progress
    done        \* the turns that ended, with a result or an error

vars == <<pending, running, done>>

Pending(j) == \E i \in DOMAIN pending[SessionOf[j]] : pending[SessionOf[j]][i] = j

Init ==
    /\ pending = [k \in Sessions |-> <<>>]
    /\ running = [k \in Sessions |-> None]
    /\ done = {}

\* A message is accepted once, behind the earlier messages of its session.
Accept(j) ==
    /\ ~ Pending(j)
    /\ running[SessionOf[j]] # j
    /\ j \notin done
    /\ pending' = [pending EXCEPT ![SessionOf[j]] = Append(@, j)]
    /\ UNCHANGED <<running, done>>

\* The oldest accepted turn of an idle session starts.
Start(k) ==
    /\ running[k] = None
    /\ pending[k] # <<>>
    /\ running' = [running EXCEPT ![k] = Head(pending[k])]
    /\ pending' = [pending EXCEPT ![k] = Tail(@)]
    /\ UNCHANGED done

Finish(k) ==
    /\ running[k] # None
    /\ done' = done \cup {running[k]}
    /\ running' = [running EXCEPT ![k] = None]
    /\ UNCHANGED pending

Next ==
    \/ \E j \in Jobs : Accept(j)
    \/ \E k \in Sessions : Start(k) \/ Finish(k)

Spec == Init /\ [][Next]_vars

=============================================================================
