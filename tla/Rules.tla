------------------------------- MODULE Rules -------------------------------
(***************************************************************************)
(* The rules of layer 2 as tables (src/domain/rules).  A rule is judged by *)
(* two things only: which subjects it claims (appliesTo) and which trait   *)
(* of the subject makes it fire (inspect).  The text patterns themselves   *)
(* are abstracted to traits: a file's content is the set of traits its     *)
(* text has, and equal contents have equal hashes.                         *)
(***************************************************************************)
EXTENDS Naturals, FiniteSets

\* Disposition.strictness and Severity.rank.
Strictness(d) == CASE d = "block" -> 2 [] d = "ask" -> 1 [] d = "observe" -> 0

Rank(s) == CASE s = "critical" -> 3 [] s = "high" -> 2 [] s = "medium" -> 1
             [] s = "low" -> 0

ArtifactRule(id, severity, disposition, paths, trait) ==
  [id |-> id, severity |-> severity, disposition |-> disposition,
   paths |-> paths, trait |-> trait]

\* The trait of a rule that fires on every file it claims.
Present == "present"

\* AG-H: files that run something by themselves (hooks.ts).
HookRules ==
  { ArtifactRule("AG-H001", "high", "ask", {"agent-settings"}, "hooks"),
    ArtifactRule("AG-H002", "critical", "ask", {"agent-settings"}, "session-start"),
    ArtifactRule("AG-H003", "critical", "ask", {"vscode-tasks"}, "folder-open"),
    ArtifactRule("AG-H004", "high", "ask", {"devcontainer"}, "lifecycle"),
    ArtifactRule("AG-H005", "high", "ask", {"git-hook"}, Present),
    ArtifactRule("AG-H006", "medium", "observe", {"envrc"}, Present) }

\* AG-E: environment files and MCP servers (env.ts).
EndpointFiles ==
  {"env", "envrc", "gemini-env", "agent-settings", "vscode-settings",
   "cursor-environment", "mise-toml", "tool-versions"}

EnvRules ==
  { ArtifactRule("AG-E001", "critical", "ask", {"gemini-env"}, Present),
    ArtifactRule("AG-E002", "critical", "ask", {"mcp"}, "mcp-server"),
    ArtifactRule("AG-E003", "medium", "observe", {"mcp"}, "unpinned"),
    ArtifactRule("AG-E004", "critical", "block", EndpointFiles, "endpoint"),
    ArtifactRule("AG-E005", "high", "ask", {"agent-settings"}, "auto-approve") }

\* AG-I: files the agent reads as instructions (instructions.ts).  AG-I003
\* fires on drift, not on a trait: see Inspect.
Drift == "AG-I003"

InstructionRules ==
  { ArtifactRule("AG-I001", "high", "ask", {"instructions"}, "imperative"),
    ArtifactRule("AG-I002", "high", "ask", {"instructions"}, "hidden"),
    ArtifactRule(Drift, "medium", "observe", {"instructions"}, "drift") }

\* AG-C: workflows that run an agent (ci.ts).
WorkflowRules ==
  { ArtifactRule("AG-C001", "critical", "block", {"workflow"}, "vulnerable-cli"),
    ArtifactRule("AG-C002", "high", "ask", {"workflow"}, "skip-permissions"),
    ArtifactRule("AG-C003", "medium", "observe", {"workflow"}, "agent-not-last"),
    ArtifactRule("AG-C004", "high", "ask", {"workflow"}, "two-passes"),
    ArtifactRule("AG-C005", "critical", "ask", {"workflow"}, "untrusted-trigger") }

ArtifactRules == HookRules \cup EnvRules \cup InstructionRules \cup WorkflowRules

\* ScanWorkspace's INTERESTING: the kinds of file a scan reads.  mise.toml and
\* .tool-versions are named by AG-E004 and are not among them.
Interesting ==
  (UNION {r.paths : r \in ArtifactRules}) \ {"mise-toml", "tool-versions"}

\* Mutant: rules that only observe are not run.
EnabledLoud(rules, disabled) ==
  {r \in rules : r.disposition = "block" \/ (r.disposition = "ask" /\ r.id \notin disabled)}

\* RuleRegistry.enabled: a rule that refuses cannot be switched off.
Enabled(rules, disabled) ==
  {r \in rules : r.disposition = "block" \/ r.id \notin disabled}

\* Rule.evaluate: appliesTo, then inspect, of one artifact.
Inspect(rule, file, content, previous, none) ==
  /\ file \in rule.paths
  /\ IF rule.id = Drift THEN previous # none /\ previous # content
                        ELSE rule.trait = Present \/ rule.trait \in content

\* A Finding.  Every artifact finding carries the hash of the content, so its
\* decisionKey is that hash: neither the rule nor the file is part of the key.
Finding(rule, file, content) ==
  [rule |-> rule.id, severity |-> rule.severity,
   disposition |-> rule.disposition, file |-> file, key |-> content]

\* ScanEngine.scan over the artifacts that were read.
Scan(seen, previous, none, disabled) ==
  UNION { {Finding(r, f, seen[f]) :
             r \in {q \in Enabled(ArtifactRules, disabled) :
                      Inspect(q, f, seen[f], previous[f], none)}} :
          f \in DOMAIN seen }

\* The order of ScanReport.of.  A rule id is compared as text: the ids of the
\* tables differ in family and number, and IdOrder lists them in that order.
IdOrder ==
  <<"AG-C001", "AG-C002", "AG-C003", "AG-C004", "AG-C005",
    "AG-E001", "AG-E002", "AG-E003", "AG-E004", "AG-E005",
    "AG-H001", "AG-H002", "AG-H003", "AG-H004", "AG-H005", "AG-H006",
    "AG-I001", "AG-I002", "AG-I003">>

IdRank(id) == CHOOSE i \in DOMAIN IdOrder : IdOrder[i] = id

Before(f, g) ==
  LET rank(x) == 100 * (10 * Rank(x.severity) + Strictness(x.disposition))
                   + (100 - IdRank(x.rule))
  IN rank(f) > rank(g)

\* RuleRegistry.of refuses two rules with one id.
ASSUME DistinctIds ==
  \A r, q \in ArtifactRules : r.id = q.id => r = q
-----------------------------------------------------------------------------
(***************************************************************************)
(* Tool calls.  A call is the tool it uses, the kinds of path it names and *)
(* the shapes its shell command has.                                       *)
(***************************************************************************)
ReadTools == {"Read"}

IsShell(call) == call.tool = "Bash"

\* Unknown tools, and the shell, count as writes.
Access(call) == IF call.tool \in ReadTools THEN "read" ELSE "write"

\* AccessTierResolver.decide at tier 2: secrets for both kinds of access,
\* persistence points for writes.
Tier2(path, access) ==
  path = "secret" \/ (path = "persistence" /\ access = "write")

\* Family B: the refusals of blocking.ts, by the paths and words they match.
BlockingMatches(call) ==
  {id \in {"AG-B001", "AG-B002", "AG-B003", "AG-B004", "AG-B005", "AG-B006"} :
     CASE id = "AG-B001" -> \E p \in call.paths : Tier2(p, Access(call))
       [] id = "AG-B002" -> "foreign-env" \in call.paths
       [] id = "AG-B003" -> Access(call) = "write" /\ "agent-config" \in call.paths
       [] id = "AG-B004" -> IsShell(call) /\ "core.hooksPath" \in call.words
       [] id = "AG-B005" -> \/ "state-dir" \in call.paths
                            \/ IsShell(call) /\ "agentkeeper" \in call.words
       [] id = "AG-B006" -> IsShell(call) /\ "bypass" \in call.words}

\* Family A: irreversible actions, loaded only when categoryA is enabled.
ActionWord(id) ==
  CASE id = "AG-A001" -> "force-push" [] id = "AG-A002" -> "publish"
    [] id = "AG-A003" -> "recursive-delete" [] id = "AG-A004" -> "infrastructure"
    [] id = "AG-A005" -> "container-escape"

ActionMatches(call) ==
  {id \in {"AG-A001", "AG-A002", "AG-A003", "AG-A004", "AG-A005"} :
     IsShell(call) /\ ActionWord(id) \in call.words}
  \cup {id \in {"AG-A006"} : Access(call) = "write" /\ "workflow" \in call.paths}
  \cup {id \in {"AG-A007"} : call.tool = "mcp-send"}
=============================================================================
