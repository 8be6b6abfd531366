------------------------------- MODULE Grants -------------------------------
(***************************************************************************)
(* The allowlist and what it opens.  Commands add and revoke grants by     *)
(* loading allowlist.json and saving it again, the user edits the file by  *)
(* hand, and a launch turns what it finds there into a policy that stays   *)
(* fixed until the agent ends.  A confined agent that could write the file *)
(* would open whatever it likes at the next launch.                        *)
(***************************************************************************)
EXTENDS SandboxPolicy, FiniteSets

CONSTANTS
  Commands,     \* the agentkeeper commands that may run at the same time
  Requests,     \* what they are asked to add: [ref, access, everywhere, workspace]
  HandWritten,  \* entries the user may type: [ref, access, scope]
  Workspaces,   \* the directories the tool is used in
  Agents,       \* the agents that are launched
  MaxEntries,   \* bound on the length of the file
  MaxCommands,  \* bound on the number of commands started
  MaxEdits      \* bound on the number of edits

VARIABLES
  platform,     \* "darwin", "linux" or "win32"
  allowlist,    \* the grants of allowlist.json
  typed,        \* every entry the user ever typed
  cmd,          \* the commands under way
  granted,      \* the entries a command reported as granted, with where it ran
  run,          \* the agent that runs, if any
  used          \* commands started and edits made, for the bounds

grantsVars == <<platform, allowlist, typed, cmd, granted, run, used>>

ASSUME GrantsAssumption ==
  /\ IsFiniteSet(Paths) /\ Directories \subseteq Paths /\ Workspaces \subseteq Directories
  /\ MaxEntries \in Nat /\ MaxCommands \in Nat /\ MaxEdits \in Nat

\* A grant is for every workspace or for one of them.
Everywhere == <<>>
Entry(ref, access, scope, origin) ==
  [ref |-> ref, access |-> access, scope |-> scope, origin |-> origin]

\* The id is a hash of everything but the origin.
Id(entry) == <<entry.ref, entry.access, entry.scope>>

AppliesTo(entry, workspace) == entry.scope \in {Everywhere, workspace}

AllowlistFile == StateFile("allowlist.json")

Context(workspace, agent) == [platform |-> platform, workspace |-> workspace, agent |-> agent]

NoCommand == [at |-> "idle"]
NoRun == [at |-> "none"]

GrantsInit ==
  /\ platform \in ALL
  /\ allowlist = <<>> /\ typed = {} /\ granted = {}
  /\ cmd = [c \in Commands |-> NoCommand]
  /\ run = NoRun
  /\ used = [commands |-> 0, edits |-> 0]

-----------------------------------------------------------------------------
(* The commands allow and revoke.                                          *)

Started == used.commands < MaxCommands /\ used' = [used EXCEPT !.commands = @ + 1]

\* GrantAccess.execute up to the store: a refused request changes nothing.
Allow(c) ==
  /\ cmd[c].at = "idle" /\ Started
  /\ \E r \in Requests :
       /\ CanGrantAtRuntime(r.ref, r.access, Context(r.workspace, "other"))
       /\ cmd' = [cmd EXCEPT ![c] =
            [at |-> "load", kind |-> "add", workspace |-> r.workspace,
             entry |-> Entry(r.ref, r.access, IF r.everywhere THEN Everywhere ELSE r.workspace,
                             "runtime")]]
  /\ UNCHANGED <<platform, allowlist, typed, granted, run>>

Refuse(c) ==
  /\ cmd[c].at = "idle" /\ Started
  /\ \E r \in Requests : ~CanGrantAtRuntime(r.ref, r.access, Context(r.workspace, "other"))
  /\ UNCHANGED <<platform, allowlist, typed, cmd, granted, run>>

\* The id is one that `grants` listed; the file may have changed since.
Revoke(c) ==
  /\ cmd[c].at = "idle" /\ Started
  /\ \E i \in DOMAIN allowlist :
       cmd' = [cmd EXCEPT ![c] = [at |-> "load", kind |-> "revoke", entry |-> allowlist[i]]]
  /\ UNCHANGED <<platform, allowlist, typed, granted, run>>

Load(c) ==
  /\ cmd[c].at = "load"
  /\ cmd' = [cmd EXCEPT ![c] = [at |-> "save", kind |-> cmd[c].kind, was |-> cmd[c],
                                seen |-> allowlist]]
  /\ UNCHANGED <<platform, allowlist, typed, granted, run, used>>

Without(entries, entry) == SelectSeq(entries, LAMBDA e : Id(e) # Id(entry))

\* JsonGrantStore.add: what was loaded, with the new entry at its end.
SaveGrant(c) ==
  /\ cmd[c].at = "save" /\ cmd[c].kind = "add"
  /\ LET add == cmd[c].was IN
       /\ allowlist' = Append(Without(cmd[c].seen, add.entry), add.entry)
       /\ granted' = granted \cup {[entry |-> add.entry, workspace |-> add.workspace]}
  /\ cmd' = [cmd EXCEPT ![c] = NoCommand]
  /\ UNCHANGED <<platform, typed, run, used>>

\* JsonGrantStore.revoke: an id that is not in the file is not saved.
SaveRevoke(c) ==
  /\ cmd[c].at = "save" /\ cmd[c].kind = "revoke"
  /\ LET remaining == Without(cmd[c].seen, cmd[c].was.entry)
     IN allowlist' = IF Len(remaining) = Len(cmd[c].seen) THEN allowlist ELSE remaining
  /\ cmd' = [cmd EXCEPT ![c] = NoCommand]
  /\ UNCHANGED <<platform, typed, granted, run, used>>

-----------------------------------------------------------------------------
(* The user's editor.  An entry without an origin is hand-written.         *)

Type ==
  /\ used.edits < MaxEdits /\ Len(allowlist) < MaxEntries
  /\ \E w \in HandWritten :
       LET entry == Entry(w.ref, w.access, w.scope, "manual") IN
       allowlist' = Append(allowlist, entry) /\ typed' = typed \cup {entry}
  /\ used' = [used EXCEPT !.edits = @ + 1]
  /\ UNCHANGED <<platform, cmd, granted, run>>

-----------------------------------------------------------------------------
(* Launching an agent.                                                     *)

Gaps(policy) ==
  CASE platform = "darwin" -> {}
    [] platform = "linux" -> BubblewrapGaps(policy)
    [] platform = "win32" -> WindowsGaps(policy)

Promised(policy, access) == {path \in Paths : Allows(policy, access, path)}

Reached(policy, access) ==
  CASE platform = "darwin" -> SeatbeltReach(policy, access)
    [] platform = "linux" -> BubblewrapReach(policy, access)
    [] platform = "win32" -> WindowsReach(policy, access)

\* RunSandboxed.buildPolicy and collectGrants: a HOME that is not the user's
\* own brings no hand-written grants.
Applicable(workspace, ownHome) ==
  SelectSeq(allowlist, LAMBDA g : AppliesTo(g, workspace) /\ (ownHome \/ g.origin # "manual"))

\* The run keeps what the policy promises and what the back end enforces.  In
\* an unsafe workspace, or under a refusal the back end cannot enforce, nothing
\* runs.
Launch ==
  /\ run.at = "none"
  /\ \E workspace \in Workspaces, agent \in Agents, ownHome \in BOOLEAN :
       LET ctx == Context(workspace, agent) IN
       \E policy \in {Build(Applicable(workspace, ownHome), ctx)} :
          run' = IF ~WorkspaceIsSane(ctx) \/ Gaps(policy) # {} THEN NoRun
                 ELSE [at |-> "running", workspace |-> workspace, ownHome |-> ownHome,
                       promised |-> [access \in Access |-> Promised(policy, access)],
                       reached |-> [access \in Access |-> Reached(policy, access)],
                       loose |-> {ref.path : ref \in {r \in policy.runtime : r.scope = "file"}}
                                   \cap Directories,
                       granted |-> {g \in granted : g.workspace = workspace
                                                      /\ g.entry \in ToSet(allowlist)}]
  /\ UNCHANGED <<platform, allowlist, typed, cmd, granted, used>>

\* What the confined agent does to the file, if it can write it.
Forge ==
  /\ run.at = "running" /\ AllowlistFile \in run.reached["write"]
  /\ Len(allowlist) < MaxEntries
  /\ \E w \in HandWritten :
       allowlist' = Append(allowlist, Entry(w.ref, w.access, w.scope, "manual"))
  /\ UNCHANGED <<platform, typed, cmd, granted, run, used>>

EndRun ==
  /\ run.at = "running" /\ run' = NoRun
  /\ UNCHANGED <<platform, allowlist, typed, cmd, granted, used>>

GrantsNext ==
  \/ \E c \in Commands : Allow(c) \/ Refuse(c) \/ Revoke(c) \/ Load(c) \/ SaveGrant(c) \/ SaveRevoke(c)
  \/ Type \/ Launch \/ Forge \/ EndRun

GrantsSpec == GrantsInit /\ [][GrantsNext]_grantsVars

-----------------------------------------------------------------------------

\* Every variable has its type, and the file holds no id twice but for what
\* was written past the commands.
GrantsTypeOK ==
  /\ platform \in ALL
  /\ \A i \in DOMAIN allowlist :
       allowlist[i].access \in Access /\ allowlist[i].origin \in {"runtime", "manual"}
  /\ \A i, j \in DOMAIN allowlist :
       Id(allowlist[i]) = Id(allowlist[j]) =>
         i = j \/ allowlist[i].origin = "manual" \/ allowlist[j].origin = "manual"
  /\ \A c \in Commands : cmd[c].at \in {"idle", "load", "save"}
  /\ run.at \in {"none", "running"}
  /\ used.commands \in 0 .. MaxCommands /\ used.edits \in 0 .. MaxEdits

\* The user opened the allowlist itself to the agent.
StateOpened == \E e \in typed : e.access = "write" /\ Covers(e.ref, AllowlistFile)

\* A policy opens a tier 2 path only where an entry that the user typed opens
\* it, however the commands that rewrite the file interleave and whatever the
\* agents that ran before could write.
TierTwoIsTyped ==
  run.at = "running" /\ ~StateOpened =>
    \A access \in Access : \A path \in run.promised[access] :
      TierOf(path, access, Context(run.workspace, "other")) = 2 =>
        /\ run.ownHome
        /\ \E e \in typed :
             e.access = access /\ Covers(e.ref, path) /\ AppliesTo(e, run.workspace)

\* What a back end opens by its construction and not by the policy: Seatbelt
\* reads outside the homes; bubblewrap reads the system trees and whatever it
\* mounts writable.
Surface(access) ==
  {path \in Paths :
     \/ platform = "darwin" /\ access = "read" /\ ~Above(Front(Home), path)
     \/ platform = "linux" /\ access = "read" /\ CoveredBySystem(Ref("file", path))
     \/ platform = "linux" /\ access = "read" /\ path \in run.reached["write"]}

\* An unreported gap, and no surface: a run-time grant that names a directory as
\* a file covers only its own path in the policy, and bubblewrap binds it whole.
\* unenforceable() lets it pass, although "both gaps are reported by
\* unenforceable() rather than papered over" (BubblewrapRunner.ts:25-27).
BoundWhole == {path \in Paths : platform = "linux" /\ \E dir \in run.loose : Above(dir, path)}

\* The rules of a back end that accepted a policy open nothing the policy
\* refuses, beyond that surface and but for the directories bound whole, which
\* AllowsMirrorsProfiles refutes: what is claimed here is that there is no other
\* gap.
NeverGrantsMore ==
  run.at = "running" =>
    \A access \in Access :
      run.reached[access] \subseteq run.promised[access] \cup Surface(access) \cup BoundWhole

\* A refusal whose anchor is wider than its pattern hides the path as well,
\* although allows() calls it open.
Overshadowed(path) ==
  LET rows == DangerousFor[platform, "write"] IN
  \E i \in DOMAIN rows :
    rows[i].anchor # NoAnchor /\ Above(rows[i].anchor, path) /\ path \notin rows[i].matches

\* A grant that a command reported is honoured by the next run in the same
\* workspace, if the file still holds it: the policy opens it, and so does the
\* back end, but for a path that a refusal of a wider anchor hides.  That
\* exception is a disagreement with "a grant applies to the next run"
\* (docs/policy.md:65), refuted by AllowsMirrorsProfiles.
GrantTakesEffect ==
  run.at = "running" =>
    \A g \in run.granted :
      LET access == g.entry.access
          path == g.entry.ref.path
      IN path \in run.promised[access] /\ (path \in run.reached[access] \/ Overshadowed(path))

\* "allow -> deny -> override, mirroring exactly how the generated profiles behave
\* at runtime" (docs/policy.md:99), up to the surface of the back end: nothing
\* that allows() refuses is let through, and a grant that it allows is.  The code
\* refutes both halves.
AllowsMirrorsProfiles ==
  run.at = "running" =>
    /\ \A access \in Access :
         run.reached[access] \subseteq run.promised[access] \cup Surface(access)
    /\ \A g \in run.granted : g.entry.ref.path \in run.reached[g.entry.access]
=============================================================================
