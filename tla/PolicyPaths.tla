---------------------------- MODULE PolicyPaths ----------------------------
(***************************************************************************)
(* Where the files of a session lie, who writes them and who reads them:   *)
(* the layouts of package memory, write_behavior_policy, the prompt        *)
(* bundle, the skill catalog and the path check of the file tools.  A path *)
(* is a sequence of segments; everything is absolute but what the model    *)
(* names.  Each value of asked is one call: the session it is made in and  *)
(* what the model asks for.                                                *)
(***************************************************************************)
EXTENDS Naturals, Sequences, SequencesExt

CONSTANTS
    Words,      \* what may stand between two separators of a path
    Contexts,   \* tool contexts: [cwd, flat, ir (or <<>>), data (HostDataRoot)]
    RuleNames,      \* what the model may give as rule_name, as segments
    Agents,     \* agent types
    Base        \* the user data root, which is the memory base too

Targets == {"rule", "skill", "agent_md", "memory", "agent_memory"}
Scopes  == {"", "public", "local"}

VARIABLE asked

Nowhere == <<>>     \* an error instead of a path

\* The segments of a path that nothing has to be resolved in.
Segments == Words \ {".", ".."}

\* The directory of a session's own AGENT.md, rules and skills.
SessionRoot(c) == IF c.ir # <<>> THEN c.ir ELSE c.cwd

FileNames == {"projects", "memory", "agent-memory", "default", "workspace", "logs", "rules", "skills",
              "AGENT.md", "MEMORY.md", "SKILL.md"}

\* An isolated or shared session has the root and the workspace in it (MainEngineFactory);
\* without a root the directory is a repository or a session directory, never the data root.
\* No session lies below projects, and the data root in no session's rules or skills.
ASSUME PathsAssumption ==
    /\ FileNames \subseteq Words
    /\ Base \in Seq(Segments) /\ RuleNames \subseteq Seq(Words) /\ Agents \subseteq Words
    /\ \A c \in Contexts :
          /\ {c.cwd, c.ir, c.data} \subseteq Seq(Segments)
          /\ c.ir # <<>> => c.flat
          /\ c.flat /\ c.ir = <<>> => c.cwd # c.data
          /\ ~ IsPrefix(Append(Base, "projects"), SessionRoot(c))
          /\ \A k \in {"rules", "skills"} : ~ IsPrefix(Append(SessionRoot(c), k), Base)

Calls == [ctx : Contexts, target : Targets, name : RuleNames, scope : Scopes, agent : Agents]
PathsInit == asked \in Calls

-----------------------------------------------------------------------------
(* Layouts.                                                                *)

AutoMemoryDir(cwd) == Base \o <<"projects">> \o cwd \o <<"memory">>   \* the slug has a hash of cwd

AgentDirs(local) == <<Base \o <<"agent-memory", "default">>, local \o <<"agent-memory", "default">> >>

RepoLayout(cwd) ==
    [cwd |-> cwd, ir |-> <<>>, host |-> FALSE, project |-> Append(cwd, "memory"),
     auto |-> AutoMemoryDir(cwd), agents |-> AgentDirs(cwd)]
SessionDotLayout(dot) == [RepoLayout(dot) EXCEPT !.host = TRUE]

\* IMSessionLayout and IMHostMaintainLayout differ in their root only.
IMLayout(root) ==
    [SessionDotLayout(root) EXCEPT !.cwd = Append(root, "workspace"), !.ir = root,
                                   !.auto = AutoMemoryDir(Append(root, "workspace"))]

LayoutOf(c) ==
    IF ~ c.flat THEN RepoLayout(c.cwd)
    ELSE IF c.ir # <<>> THEN IMLayout(c.ir)
    ELSE IF c.data # <<>> /\ c.cwd = c.data THEN IMLayout(c.data)
    ELSE SessionDotLayout(c.cwd)

User == Append(Base, "memory")

DotOrDataRoot(lay) == IF lay.ir # <<>> THEN lay.ir ELSE lay.cwd
WriteRoots(lay) ==
    {User, lay.project, lay.auto, Append(lay.auto, "logs"), lay.agents[1], lay.agents[2]}

Under(path, root) == IsPrefix(root, path)

-----------------------------------------------------------------------------
(* write_behavior_policy.                                                  *)

\* validatedAgentType
IsAgentType(name) == name \in Segments \ {""}

IsName(name) == Len(name) = 1 /\ name[1] \notin {"..", "."}

\* filepath.Clean of a relative path: what one more segment makes of it, and all of them.
Cleaned(path, s) ==
    IF s = "." THEN path
    ELSE IF s = ".." /\ path # <<>> /\ Last(path) # ".." THEN Front(path)
    ELSE Append(path, s)

CleanRel(path) ==
    LET clean[n \in 0 .. Len(path)] == IF n = 0 THEN <<>> ELSE Cleaned(clean[n - 1], path[n])
    IN clean[Len(path)]

\* behaviorPolicyRelativePath
Relative(name) ==
    IF name = <<>> THEN <<"MEMORY.md">>
    ELSE IF CleanRel(name) = <<>> \/ CleanRel(name)[1] = ".." THEN Nowhere
    ELSE CleanRel(name)

PublicRoot(lay) == Front(lay.agents[1])
LocalRoot(lay)  == Front(lay.agents[2])

InferredScope(lay, c, scope) ==
    IF scope # "" THEN scope
    ELSE IF PublicRoot(lay) = LocalRoot(lay) THEN "public"
    ELSE IF c.data # <<>> /\ lay.ir # <<>> /\ c.data # lay.ir THEN "local"
    ELSE "required"

AgentMemoryPath(lay, a) ==
    LET scope == InferredScope(lay, a.ctx, a.scope)
    IN IF Relative(a.name) = Nowhere \/ scope = "required" \/ ~ IsAgentType(a.agent) THEN Nowhere
       ELSE (IF scope = "public" THEN PublicRoot(lay) ELSE LocalRoot(lay)) \o <<a.agent>> \o Relative(a.name)

\* What Execute refuses before it looks at paths: names, scopes and agent types that do not
\* belong to the target.
Malformed(a) ==
    \/ a.target \in {"agent_md", "memory"} /\ a.name # <<>>
    \/ a.target # "agent_memory" /\ (a.scope # "" \/ a.agent # "")

\* resolveBehaviorPolicyPathWithLayout
Resolve(lay, a) ==
    LET root == SessionRoot(a.ctx)
    IN CASE a.target = "rule"     -> IF IsName(a.name) THEN root \o <<"rules">> \o a.name ELSE Nowhere
         [] a.target = "skill"    -> IF IsName(a.name) THEN root \o <<"skills">> \o a.name \o <<"SKILL.md">>
                                     ELSE Nowhere
         [] a.target = "agent_md" -> Append(root, "AGENT.md")
         [] a.target = "memory"   -> IF a.ctx.ir # <<>> THEN Append(root, "MEMORY.md")
                                     ELSE root \o <<"memory", "MEMORY.md">>
         [] OTHER                 -> AgentMemoryPath(lay, a)

\* The rules file of a project or session, as validatePolicyPath and BuildTurn have it.
ProjectEntry(lay) == Append(lay.project, "MEMORY.md")
EntrypointOfProject(lay) == ProjectEntry(lay)     \* a variant for the mutation runs
Entrypoint(lay)   == IF lay.ir # <<>> THEN Append(lay.ir, "MEMORY.md") ELSE ProjectEntry(lay)

\* validatePolicyPath
Valid(lay, path, target) ==
    LET root == DotOrDataRoot(lay)
    IN CASE target = "rule"     -> Under(path, Append(root, "rules"))
         [] target = "skill"    -> /\ Under(path, Append(root, "skills"))
                                   /\ Len(path) = Len(root) + 3 /\ Last(path) = "SKILL.md"
         [] target = "agent_md" -> path = Append(root, "AGENT.md")
         [] target = "memory"   -> path = Entrypoint(lay)
         [] OTHER               -> Under(path, PublicRoot(lay)) \/ Under(path, LocalRoot(lay))

\* The file a call writes.
Written(a) ==
    LET lay == LayoutOf(a.ctx)
    IN IF Malformed(a) \/ Resolve(lay, a) = Nowhere \/ ~ Valid(lay, Resolve(lay, a), a.target) THEN Nowhere
       ELSE Resolve(lay, a)

\* AppendMemoryAudit
Audited(lay, path) ==
    /\ \/ \E r \in WriteRoots(lay) : Under(path, r)
       \/ \E d \in {DotOrDataRoot(lay), Base}, k \in {"rules", "skills"} : Under(path, Append(d, k))
       \/ \E d \in {DotOrDataRoot(lay), Base} : path = Append(d, "AGENT.md")
    /\ ~ Under(path, Append(Base, "projects"))

-----------------------------------------------------------------------------
(* Readers.                                                                *)

\* DiscoverFlatDotRootInstructions, and one step of DiscoverProjectInstructions
InstructionOf(dir, path) == path = Append(dir, "AGENT.md") \/ Under(path, Append(dir, "rules"))

\* BuildTurn: the files a prompt brings, of the user, of the session or project, and the
\* MEMORY.md of every memory root.
InPrompt(lay, path) ==
    \/ InstructionOf(Base, path)
    \/ IF ~ lay.host THEN \E n \in 0 .. Len(lay.cwd) : InstructionOf(SubSeq(lay.cwd, 1, n), path)
       ELSE InstructionOf(DotOrDataRoot(lay), path)
    \/ path \in {Append(r, "MEMORY.md") : r \in {User, lay.auto, lay.agents[1], lay.agents[2]}}
    \/ path = Entrypoint(lay)

\* LoadAll and Lookup: the user's catalog and that of the session, one directory per skill.
InCatalog(c, path) ==
    \E root \in {Append(Base, "skills"), Append(SessionRoot(c), "skills")} :
        Under(path, root) /\ Len(path) = Len(root) + 2 /\ Last(path) = "SKILL.md"

\* ResolveForSession, for an absolute path
Readable(c, path) == \E r \in {c.cwd} \cup WriteRoots(LayoutOf(c)) : Under(path, r)

-----------------------------------------------------------------------------
(* Properties.                                                             *)

\* What write_behavior_policy resolves never fails its own check, belongs to the session or
\* to the user's agent memory with no way up left in it, and reaches the session's later prompts or its skill catalog;
\* of agent memory that holds for the default agent's MEMORY.md, and its other notes can be
\* opened with read_file.  Writes of rules, skills and instructions are in the audit log.
PolicyIsRead ==
    LET lay  == LayoutOf(asked.ctx)
        path == Resolve(lay, asked)
    IN ~ Malformed(asked) /\ path # Nowhere =>
         /\ Written(asked) = path /\ path \in Seq(Segments)
         /\ Under(path, DotOrDataRoot(lay)) \/ Under(path, PublicRoot(lay))
         /\ \/ InPrompt(lay, path) \/ InCatalog(asked.ctx, path)
            \/ asked.target = "agent_memory" /\ (asked.agent # "default" \/ asked.name # <<>>)
         /\ asked.target \in {"rule", "skill", "agent_md"} => Audited(lay, path)
         /\ asked.target = "agent_memory" /\ asked.agent = "default" => Readable(asked.ctx, path)

=============================================================================
