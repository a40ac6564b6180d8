----------------------------- MODULE McpManager -----------------------------
(***************************************************************************)
(* The MCP clients of the process.  At startup the enabled servers are     *)
(* connected in parallel and their tools registered, one server after the  *)
(* other in the order of a map; then the turns of all sessions call them.  *)
(* Close may come while calls run: it refuses new ones, waits for those    *)
(* that are counted and closes the sessions.                               *)
(***************************************************************************)
EXTENDS Naturals, FiniteSets

CONSTANTS
    Servers,        \* the enabled servers
    Local,          \* those that run as a child process of this one
    NameOf,         \* [Servers -> ...]: the name of each one's tool, after sanitizing
    Callers,        \* tool calls of turns
    NoServer

ASSUME McpAssumption == Local \subseteq Servers /\ NoServer \notin Servers

VARIABLES
    link,       \* each server: "dialing", "failed", "open", "dead", "closed"
    servers,    \* the servers in the manager's map
    registry,   \* the server behind each tool name
    toName,     \* servers whose tools are still to be registered
    phase,      \* "load", "register", "serve" or "off"
    shut,       \* the closed flag
    closer,     \* where Close stands
    counted,    \* the calls the WaitGroup counts
    at, target, \* where each call stands, and its server
    late,       \* history: calls counted after Close had seen none
    stopped     \* the root context is cancelled

mcpVars == <<link, servers, registry, toName, phase, shut, closer, counted, at, target, late, stopped>>
callVars == <<counted, at, target, late>>
openVars == <<link, servers, registry, toName, phase, stopped>>

Names == {NameOf[s] : s \in Servers}

\* A variant for the mutation runs.
NotAwaited == TRUE

\* m.wg.Wait returns
NoneCounted == counted = {}

McpInit ==
    /\ link = [s \in Servers |-> "dialing"] /\ servers = {}
    /\ registry = [n \in Names |-> NoServer] /\ toName = {}
    /\ phase = "load" /\ shut = FALSE /\ closer = "none"
    /\ counted = {} /\ late = {}
    /\ at = [c \in Callers |-> "idle"] /\ target = [c \in Callers |-> NoServer]
    /\ stopped = FALSE

-----------------------------------------------------------------------------
(* Load and RegisterIfEnabled.                                             *)

\* ConnectServer, on a goroutine for each server: a bad configuration, no connection, or a
\* session.  Tools that cannot be listed are left out.
Dial(s) ==
    /\ link[s] = "dialing"
    /\ \/ link' = [link EXCEPT ![s] = "failed"] /\ servers' = servers
       \/ link' = [link EXCEPT ![s] = "open"] /\ servers' = servers \cup {s}
    /\ UNCHANGED <<registry, toName, phase, shut, closer, callVars, stopped>>

\* All dialled: without a connection Load fails, the manager is closed and the program exits.
Loaded ==
    /\ phase = "load" /\ \A s \in Servers : link[s] # "dialing"
    /\ IF servers = {} THEN phase' = "off" /\ shut' = TRUE /\ toName' = {}
       ELSE phase' = "register" /\ shut' = shut /\ toName' = servers
    /\ UNCHANGED <<link, servers, registry, closer, callVars, stopped>>

\* A name that is taken is skipped.
RegisterTools(s) ==
    /\ phase = "register" /\ s \in toName
    /\ toName' = toName \ {s}
    /\ registry' = IF registry[NameOf[s]] = NoServer THEN [registry EXCEPT ![NameOf[s]] = s] ELSE registry
    /\ phase' = IF toName' = {} THEN "serve" ELSE phase
    /\ UNCHANGED <<link, servers, shut, closer, callVars, stopped>>

\* SIGTERM cancels the context the servers were started with: those that are children of
\* this process are killed.
Stop ==
    /\ phase = "serve" /\ ~ stopped /\ stopped' = TRUE
    /\ link' = [s \in Servers |-> IF s \in Local /\ link[s] = "open" THEN "dead" ELSE link[s]]
    /\ UNCHANGED <<servers, registry, toName, phase, shut, closer, callVars>>

-----------------------------------------------------------------------------
(* CallTool.                                                               *)

\* The first look at the flag.
BeginCall(c, n) ==
    /\ phase = "serve" /\ at[c] = "idle" /\ registry[n] # NoServer
    /\ target' = [target EXCEPT ![c] = registry[n]]
    /\ at' = [at EXCEPT ![c] = IF shut THEN "refused" ELSE "checked"]
    /\ UNCHANGED <<openVars, shut, closer, counted, late>>

\* The read lock, which Close's lock excludes, and the second look.
Look(c) ==
    /\ at[c] = "checked" /\ closer \notin {"locked"}
    /\ at' = [at EXCEPT ![c] = IF shut THEN "refused" ELSE "locked"]
    /\ UNCHANGED <<openVars, shut, closer, counted, target, late>>

\* The server is looked up (Close cannot have taken it out: the lock, and the second look)
\* and the call counted; the read lock is given back.
Count(c) ==
    /\ at[c] = "locked"
    /\ IF target[c] \in servers
       THEN /\ at' = [at EXCEPT ![c] = "calling"]
            /\ counted' = counted \cup {c}
            /\ late' = IF closer \in {"none", "waiting"} THEN late ELSE late \cup {c}
       ELSE /\ at' = [at EXCEPT ![c] = "refused"]
            /\ UNCHANGED <<counted, late>>
    /\ UNCHANGED <<openVars, shut, closer, target>>

\* The session answers, with a result or an error, or the caller's context ends.
Return(c) ==
    /\ at[c] = "calling"
    /\ at' = [at EXCEPT ![c] = IF link[target[c]] \in {"closed", "dead"} THEN "refused" ELSE "answered"]
    /\ counted' = counted \ {c}
    /\ UNCHANGED <<openVars, shut, closer, target, late>>

-----------------------------------------------------------------------------
(* Close.                                                                  *)

Swap ==
    /\ phase = "serve" /\ ~ shut /\ shut' = TRUE /\ closer' = "waiting"
    /\ UNCHANGED <<openVars, callVars>>

WaitReturns ==
    /\ closer = "waiting" /\ NoneCounted
    /\ closer' = "waited"
    /\ UNCHANGED <<openVars, shut, callVars>>

TakeLock ==
    /\ closer = "waited" /\ \A c \in Callers : at[c] # "locked"
    /\ closer' = "locked"
    /\ UNCHANGED <<openVars, shut, callVars>>

CloseSession(s) ==
    /\ closer = "locked" /\ s \in servers
    /\ link' = [link EXCEPT ![s] = "closed"]
    /\ servers' = servers \ {s}
    /\ UNCHANGED <<registry, toName, phase, shut, closer, callVars, stopped>>

Unlock ==
    /\ closer = "locked" /\ servers = {}
    /\ closer' = "done"
    /\ UNCHANGED <<openVars, shut, callVars>>

McpNext ==
    \/ \E s \in Servers : Dial(s) \/ RegisterTools(s) \/ CloseSession(s)
    \/ Loaded \/ Stop \/ Swap \/ WaitReturns \/ TakeLock \/ Unlock
    \/ \E c \in Callers : Look(c) \/ Count(c) \/ Return(c) \/ \E n \in Names : BeginCall(c, n)

McpSpec == McpInit /\ [][McpNext]_mcpVars

-----------------------------------------------------------------------------
(* Properties.                                                             *)

\* A call that is under way has its session, unless it was counted after Close had found no
\* call to wait for: the flag, the count and the lock leave no other gap.  And none of those
\* that Close leaves behind has the manager's sessions to use.
CallsHaveTheirSession ==
    \A c \in Callers : at[c] = "calling" =>
        /\ c \notin late => target[c] \in servers /\ link[target[c]] \in {"open", "dead"}
        /\ closer = "done" => c \in late

=============================================================================
