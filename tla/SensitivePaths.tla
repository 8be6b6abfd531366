--------------------------- MODULE SensitivePaths ---------------------------
(***************************************************************************)
(* Which paths are sensitive, and how badly: the glob language of          *)
(* PathPattern, the rows of domain/paths/registry.ts and the resolver that *)
(* says whether a resource may be handed over while an agent is running.   *)
(* A path is the sequence of its segments; "~" begins a pattern that is    *)
(* anchored at the home directory.                                         *)
(***************************************************************************)
EXTENDS Naturals, Sequences, SequencesExt

CONSTANT Paths   \* the paths on the disk

Home == <<"Users", "me">>
Access == {"read", "write"}
ALL == {"darwin", "linux", "win32"}
POSIX == {"darwin", "linux"}

\* AbsolutePath.contains: a is b or a directory above it.
Above(a, b) == IsPrefix(a, b)

\* The segments with a star inside them, and segments they stand for.
Stars == (".env.*" :> {".env.local"}) @@ ("settings*.json" :> {"settings.json", "settings.local.json"})

Wild(segment) == segment = "**" \/ segment \in DOMAIN Stars

MatchSegment(p, s) == p = s \/ (p \in DOMAIN Stars /\ s \in Stars[p])

\* "**" stands for zero or more whole segments.
MatchSegments(p, t) ==
  LET M[i \in 1 .. Len(p) + 1, j \in 1 .. Len(t) + 1] ==
        CASE i > Len(p) -> j > Len(t)
          [] i <= Len(p) /\ p[i] = "**" -> \E k \in j .. Len(t) + 1 : M[i + 1, k]
          [] OTHER -> j <= Len(t) /\ MatchSegment(p[i], t[j]) /\ M[i + 1, j + 1]
  IN M[1, 1]

HomeAnchored(pattern) == pattern[1] = "~"

PatternMatches(pattern, path) ==
  IF HomeAnchored(pattern)
  THEN Above(Home, path)
         /\ MatchSegments(Tail(pattern), SubSeq(path, Len(Home) + 1, Len(path)))
  ELSE MatchSegments(pattern, path)

NoAnchor == <<"no anchor">>

\* The head of the pattern up to its first wildcard.
LiteralPrefix(pattern) ==
  LET body == IF HomeAnchored(pattern) THEN Tail(pattern) ELSE pattern
      wild == {i \in DOMAIN body : Wild(body[i])}
      literal == IF wild = {} THEN body
                 ELSE SubSeq(body, 1, (CHOOSE i \in wild : \A k \in wild : i <= k) - 1)
  IN IF HomeAnchored(pattern) THEN Home \o literal
     ELSE IF literal = <<>> THEN NoAnchor ELSE literal

-----------------------------------------------------------------------------
(* registry.ts.  A row has a tier for reading and one for writing; tier 2  *)
(* is blocked and cannot be granted at run time.                           *)

Rows(readTier, writeTier, platforms, outside, patterns) ==
  [i \in DOMAIN patterns |->
     [pattern |-> patterns[i], platforms |-> platforms, outside |-> outside,
      tier |-> [read |-> readTier, write |-> writeTier]]]

Credential(platforms, patterns) == Rows(2, 2, platforms, FALSE, patterns)
History(platforms, patterns) == Rows(2, 2, platforms, FALSE, patterns)
Persistence(readTier, platforms, patterns) == Rows(readTier, 2, platforms, FALSE, patterns)

CredentialRows ==
  Credential(ALL, <<<<"~", ".ssh", "**">>, <<"~", ".aws", "**">>>>)
    \o Credential(POSIX, <<<<"~", ".config", "gcloud", "**">>>>)
    \o Credential(ALL, <<<<"~", ".kube", "**">>, <<"~", ".docker", "**">>>>)
    \o Credential(POSIX, <<<<"~", ".netrc">>>>)
    \o Credential(ALL, <<<<"~", ".npmrc">>, <<"~", ".pypirc">>>>)
    \o Credential(POSIX, <<<<"~", ".config", "gh", "**">>, <<"~", ".config", "rclone", "**">>>>)

MachineRows ==
  Credential({"darwin"},
    <<<<"~", "Library", "Keychains", "**">>, <<"Library", "Keychains", "**">>,
      <<"private", "etc", "ssh", "**">>, <<"var", "root", "**">>,
      <<"private", "var", "db", "dslocal", "**">>, <<"private", "etc", "sudoers">>,
      <<"private", "etc", "sudoers.d", "**">>>>)
    \o Credential(POSIX, <<<<"~", ".gnupg", "**">>>>)

\* The project's own .env is the agent's job, the neighbour's is not.
EnvRows == Rows(2, 2, ALL, TRUE, <<<<"**", ".env">>, <<"**", ".env.*">>>>)

BrowserRows ==
  Credential({"darwin"}, <<<<"~", "Library", "Application Support", "Google", "Chrome", "**">>>>)
    \o Credential({"linux"}, <<<<"~", ".config", "google-chrome", "**">>>>)
    \o Credential({"darwin"}, <<<<"~", "Library", "Safari", "**">>>>)
    \o Credential(POSIX, <<<<"~", ".mozilla", "firefox", "**">>>>)
    \o Credential({"win32"},
         <<<<"~", "appdata", "local", "google", "chrome", "user data", "**">>,
           <<"~", "appdata", "local", "microsoft", "edge", "user data", "**">>,
           <<"~", "appdata", "roaming", "mozilla", "firefox", "**">>>>)

ShellRows ==
  Persistence(2, POSIX,
    <<<<"~", ".zshenv">>, <<"~", ".zshrc">>, <<"~", ".bashrc">>, <<"~", ".bash_profile">>,
      <<"~", ".profile">>, <<"~", ".config", "fish", "**">>>>)

\* Git needs to read its configuration; writing it installs core.hooksPath.
GitRows ==
  Persistence(1, ALL, <<<<"~", ".gitconfig">>>>)
    \o Persistence(1, POSIX, <<<<"~", ".config", "git", "**">>>>)

AutostartRows ==
  Persistence(2, ALL, <<<<"~", ".ssh", "authorized_keys">>, <<"~", ".ssh", "config">>>>)
    \o Persistence(2, {"darwin"},
         <<<<"~", "Library", "LaunchAgents", "**">>, <<"Library", "LaunchAgents", "**">>,
           <<"Library", "LaunchDaemons", "**">>>>)
    \o Persistence(2, {"linux"}, <<<<"~", ".config", "systemd", "user", "**">>>>)
    \o Persistence(2, {"win32"},
         <<<<"~", "documents", "powershell", "**">>,
           <<"~", "documents", "windowspowershell", "**">>,
           <<"~", "appdata", "roaming", "microsoft", "windows", "start menu", "programs",
             "startup", "**">>>>)
    \o Persistence(2, {"darwin"}, <<<<"private", "var", "at", "tabs", "**">>>>)
    \o Persistence(2, {"linux"}, <<<<"var", "spool", "cron", "**">>>>)

HistoryRows ==
  History(POSIX, <<<<"~", ".zsh_history">>, <<"~", ".bash_history">>, <<"~", ".psql_history">>>>)
    \o History(ALL, <<<<"~", ".node_repl_history">>>>)

AgentRows ==
  Persistence(1, ALL,
    <<<<"~", ".claude", "settings*.json">>, <<"~", ".claude.json">>,
      <<"~", ".gemini", "settings.json">>, <<"~", ".cursor", "mcp.json">>,
      <<"~", ".agentkeeper", "**">>>>)
    \o Rows(1, 1, POSIX, FALSE, <<<<"~", ".config", "**">>>>)

\* A pattern is what it matches and its literal head, its anchor.
Compiled(row) ==
  [matches |-> {path \in Paths : PatternMatches(row.pattern, path)},
   anchor |-> LiteralPrefix(row.pattern),
   platforms |-> row.platforms, outside |-> row.outside, tier |-> row.tier]

SENSITIVE_PATHS ==
  CredentialRows \o MachineRows \o EnvRows \o BrowserRows \o ShellRows \o GitRows
    \o AutostartRows \o HistoryRows \o AgentRows

-----------------------------------------------------------------------------
(* SensitivePathRegistry and AccessTierResolver.  A context is the         *)
(* platform and the workspace.                                             *)

EntryMatches(entry, path, ctx) ==
  /\ ctx.platform \in entry.platforms
  /\ ~(entry.outside /\ Above(ctx.workspace, path))
  /\ path \in entry.matches

DangerousFor ==
  [platform \in ALL, access \in Access |->
     LET rows == SelectSeq(SENSITIVE_PATHS,
                           LAMBDA e : platform \in e.platforms /\ e.tier[access] = 2)
     IN [i \in DOMAIN rows |-> Compiled(rows[i])]]

TierOf(path, access, ctx) ==
  LET rows == DangerousFor[ctx.platform, access]
  IN IF \E i \in DOMAIN rows : EntryMatches(rows[i], path, ctx) THEN 2 ELSE 1

DangerousAnchors ==
  [access \in Access, platform \in ALL |->
     {e.anchor : e \in ToSet(DangerousFor[platform, access])} \ {NoAnchor}]

\* A resource is a file or a subtree.
Ref(scope, path) == [scope |-> scope, path |-> path]
Covers(ref, path) == IF ref.scope = "subtree" THEN Above(ref.path, path) ELSE ref.path = path
Subsumes(a, b) == IF a.scope = "file" THEN a = b ELSE Above(a.path, b.path)

\* A subtree must not swallow the anchor of a dangerous pattern.
CanGrantAtRuntime(ref, access, ctx) ==
  /\ TierOf(ref.path, access, ctx) = 1
  /\ ref.scope = "subtree" =>
       \A anchor \in DangerousAnchors[access, ctx.platform] : ~Above(ref.path, anchor)
=============================================================================
