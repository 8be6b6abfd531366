---------------------------- MODULE SandboxPolicy ----------------------------
(***************************************************************************)
(* What a run may touch: PolicyBuilder turns the starter profile and the   *)
(* grants into a SandboxPolicy, and three back ends turn the policy into   *)
(* rules of their own: an ordered Seatbelt profile, a list of bubblewrap   *)
(* mounts, ACL entries of an AppContainer.  Allows is what the policy      *)
(* says; the Allows of a back end is what its rules do.                    *)
(***************************************************************************)
EXTENDS SensitivePaths

CONSTANTS
  Directories,   \* the modelled paths that are directories
  Profile        \* the starter profile: [read, write], sequences of references

\* RunSandboxed.agentStateDirs: the directories an agent keeps its own state in.
AgentState ==
  [claude |-> <<<<".claude">>, <<".config", "claude">>>>, codex |-> <<<<".codex">>>>,
   gemini |-> <<<<".gemini">>>>, cursor |-> <<<<".cursor">>>>,
   opencode |-> <<<<".config", "opencode">>, <<".local", "share", "opencode">>,
                  <<".cache", "opencode">>>>,
   other |-> <<>>]
Toolchain == <<"usr", "local", "node">>
Scratch == <<"tmp", "agentkeeper-run">>

Subtrees(paths) == [i \in DOMAIN paths |-> Ref("subtree", paths[i])]
AgentDirs(agent) ==
  Subtrees([i \in DOMAIN AgentState[agent] |-> Home \o AgentState[agent][i]])

\* The workspace is granted whole, so it must not contain a credential.
WorkspaceIsSane(ctx) ==
  \A anchor \in DangerousAnchors["read", ctx.platform] : ~Above(ctx.workspace, anchor)

\* Mutant: the refusal of .env files has no exception for the workspace.
DenyEverywhere(entry, access, ctx) ==
  [matches |-> entry.matches, anchor |-> entry.anchor, access |-> access, except |-> NoAnchor]

Deny(entry, access, ctx) ==
  [matches |-> entry.matches, anchor |-> entry.anchor, access |-> access,
   except |-> IF entry.outside THEN ctx.workspace ELSE NoAnchor]

DenyRules(ctx) ==
  LET Of(access) == LET rows == DangerousFor[ctx.platform, access]
                    IN [i \in DOMAIN rows |-> Deny(rows[i], access, ctx)]
  IN Of("read") \o Of("write")

Excepted(deny, path) == deny.except # NoAnchor /\ Above(deny.except, path)
DenyMatches(deny, path) == ~Excepted(deny, path) /\ path \in deny.matches

\* Mutant: the origin of a grant is not looked at.
OverridesUnchecked(grants, ctx) ==
  SelectSeq(grants, LAMBDA g : ~CanGrantAtRuntime(g.ref, g.access, ctx))

\* Only a grant that was typed by hand outranks the refusals.
Overrides(grants, ctx) ==
  SelectSeq(grants, LAMBDA g : g.origin = "manual" /\ ~CanGrantAtRuntime(g.ref, g.access, ctx))

Accepted(grants, overrides, ctx) ==
  SelectSeq(grants, LAMBDA g : g \in ToSet(overrides) \/ CanGrantAtRuntime(g.ref, g.access, ctx))

RefsOf(grants, access) ==
  LET chosen == SelectSeq(grants, LAMBDA g : g.access = access)
  IN [i \in DOMAIN chosen |-> chosen[i].ref]

FromProfile(access, ctx) ==
  SelectSeq(Profile[access], LAMBDA r : CanGrantAtRuntime(r, access, ctx))

StateFile(name) == Home \o <<".agentkeeper", name>>

Assemble(accepted, overrides, ctx) ==
  [workspace |-> ctx.workspace,
   reads |-> <<Ref("subtree", ctx.workspace), Ref("subtree", Toolchain)>>
               \o AgentDirs(ctx.agent)
               \o <<Ref("subtree", Scratch), Ref("file", StateFile("config.json")),
                    Ref("file", StateFile("decisions.json"))>>
               \o FromProfile("read", ctx) \o RefsOf(accepted, "read"),
   writes |-> <<Ref("subtree", ctx.workspace)>>
                \o AgentDirs(ctx.agent) \o <<Ref("subtree", Scratch)>>
                \o FromProfile("write", ctx) \o RefsOf(accepted, "write"),
   denies |-> DenyRules(ctx),
   overrides |-> overrides,
   runtime |-> {g.ref : g \in ToSet(accepted)}]

\* PolicyBuilder.build, for the grants that apply to the workspace.
Build(grants, ctx) ==
  LET overrides == Overrides(grants, ctx)
  IN Assemble(Accepted(grants, overrides, ctx), overrides, ctx)

Refs(policy, access) == ToSet(IF access = "read" THEN policy.reads ELSE policy.writes)

IsDenied(policy, access, path) ==
  \E i \in DOMAIN policy.denies :
    policy.denies[i].access = access /\ DenyMatches(policy.denies[i], path)

IsOverridden(policy, access, path) ==
  \E g \in ToSet(policy.overrides) : g.access = access /\ Covers(g.ref, path)

\* SandboxPolicy.allows: allow, then deny, then override.
Allows(policy, access, path) ==
  \/ IsOverridden(policy, access, path)
  \/ /\ ~IsDenied(policy, access, path)
     /\ \E ref \in Refs(policy, access) : Covers(ref, path)

-----------------------------------------------------------------------------
(* Seatbelt: a sequence of rules, of which the last that matches decides.  *)

\* A rule is a subtree or a file, or the pattern of a refusal below a path.
RuleHits(rule, path) ==
  CASE rule.kind = "ref" -> Covers(rule.ref, path)
    [] rule.kind = "pattern" -> Above(rule.within, path) /\ path \in rule.matches

AllowRef(ref) == [kind |-> "ref", allow |-> TRUE, ref |-> ref]
DenyTree(path) == [kind |-> "ref", allow |-> FALSE, ref |-> Ref("subtree", path)]
OnPattern(allow, matches, within) ==
  [kind |-> "pattern", allow |-> allow, matches |-> matches, within |-> within]

\* A refusal with an anchor becomes the anchor's whole subtree; one without is
\* a pattern, opened again inside the workspace.
DenyLines(deny) ==
  <<IF deny.anchor = NoAnchor THEN OnPattern(FALSE, deny.matches, <<>>)
    ELSE DenyTree(deny.anchor)>>
    \o (IF deny.except = NoAnchor THEN <<>>
        ELSE <<OnPattern(TRUE, deny.matches, deny.except)>>)

\* Mutant: the refusals come before what the policy opens.
SeatbeltProfileDeniesFirst(policy, access) ==
  LET refs == IF access = "read" THEN policy.reads ELSE policy.writes
      denies == SelectSeq(policy.denies, LAMBDA d : d.access = access)
  IN (IF access = "read" THEN <<AllowRef(Ref("subtree", <<>>)), DenyTree(Front(Home))>> ELSE <<>>)
       \o FlattenSeq([i \in DOMAIN denies |-> DenyLines(denies[i])])
       \o [i \in DOMAIN refs |-> AllowRef(refs[i])]

\* Everything but the homes can be read; what is opened; the refusals; the
\* hand-written grants.
SeatbeltProfile(policy, access) ==
  LET refs == IF access = "read" THEN policy.reads ELSE policy.writes
      denies == SelectSeq(policy.denies, LAMBDA d : d.access = access)
      overrides == RefsOf(policy.overrides, access)
  IN (IF access = "read" THEN <<AllowRef(Ref("subtree", <<>>)), DenyTree(Front(Home))>> ELSE <<>>)
       \o [i \in DOMAIN refs |-> AllowRef(refs[i])]
       \o FlattenSeq([i \in DOMAIN denies |-> DenyLines(denies[i])])
       \o [i \in DOMAIN overrides |-> AllowRef(overrides[i])]

SeatbeltReach(policy, access) ==
  LET profile == SeatbeltProfile(policy, access)
  IN {path \in Paths : LET last == SelectLastInSeq(profile, LAMBDA rule : RuleHits(rule, path))
                       IN last # 0 /\ profile[last].allow}

-----------------------------------------------------------------------------
(* bubblewrap: mounts, of which the last one at or above a path decides.   *)

SystemRoots == <<<<"usr">>, <<"bin">>, <<"sbin">>, <<"lib">>, <<"lib64">>, <<"etc">>, <<"opt">>,
                 <<"nix">>, <<"var", "lib">>>>

Mount(kind, path) == [kind |-> kind, path |-> path]
Mounts(kind, refs) == [i \in DOMAIN refs |-> Mount(kind, refs[i].path)]

CoveredBySystem(ref) == \E i \in DOMAIN SystemRoots : Above(SystemRoots[i], ref.path)

\* A readable file that is never writable needs no shadow to refuse writing.
IsReadOnlyFile(policy, path) ==
  /\ Ref("file", path) \in Refs(policy, "read")
  /\ \A ref \in Refs(policy, "write") : ~Covers(ref, path)

Shadowed(policy, deny) ==
  /\ deny.anchor # NoAnchor
  /\ ~Excepted(deny, deny.anchor)
  /\ \A g \in ToSet(policy.overrides) : ~Covers(g.ref, deny.anchor)
  /\ ~(deny.access = "write" /\ IsReadOnlyFile(policy, deny.anchor))

BubblewrapMounts(policy) ==
  LET shadows == SelectSeq(policy.denies, LAMBDA d : Shadowed(policy, d))
      overrides == policy.overrides
  IN [i \in DOMAIN SystemRoots |-> Mount("ro", SystemRoots[i])]
       \o <<Mount("empty", Home)>>
       \o Mounts("ro", SelectSeq(policy.reads, LAMBDA r : ~CoveredBySystem(r)))
       \o Mounts("rw", policy.writes)
       \o [i \in DOMAIN shadows |-> Mount("empty", shadows[i].anchor)]
       \o [i \in DOMAIN overrides |->
             Mount(IF overrides[i].access = "read" THEN "ro" ELSE "rw", overrides[i].ref.path)]

MountHits(mount, path) == Above(mount.path, path)

BubblewrapReach(policy, access) ==
  LET mounts == BubblewrapMounts(policy)
      enough == IF access = "read" THEN {"ro", "rw"} ELSE {"rw"}
  IN {path \in Paths : LET last == SelectLastInSeq(mounts, LAMBDA m : MountHits(m, path))
                       IN last # 0 /\ mounts[last].kind \in enough}

\* A refusal without an anchor holds only where nothing broad was mounted.
BubblewrapGaps(policy) ==
  {i \in DOMAIN policy.denies :
     /\ policy.denies[i].anchor = NoAnchor
     /\ policy.denies[i].except = NoAnchor
          \/ \E ref \in policy.runtime : ref.scope # "file" /\ ~Above(policy.workspace, ref.path)}

-----------------------------------------------------------------------------
(* AppContainer: granted paths, and a refusal for every matching object    *)
(* that is on the disk when the run is prepared.                           *)

CanonicalAgentState ==
  {Home \o dir : dir \in {<<".claude">>, <<".gemini">>, <<".cursor">>, <<".codex">>,
                          <<".config", "claude">>}}
CanonicalRoot(ref) == ref.path \in CanonicalAgentState

\* WindowsPolicyTranslator.plan: the agent's own state is replaced by an empty
\* home, and a refused file is not granted.
WindowsRefs(policy, access) ==
  {ref \in Refs(policy, access) :
     /\ ~CanonicalRoot(ref)
     /\ ~(ref.scope = "file" /\ ~IsOverridden(policy, access, ref.path)
            /\ IsDenied(policy, access, ref.path))}

FullyOverridden(policy, ref, access) ==
  \E g \in ToSet(policy.overrides) : g.access = access /\ Subsumes(g.ref, ref)

MayIntersect(ref, deny) ==
  /\ ~Excepted(deny, ref.path)
  /\ IF ref.scope = "file" THEN DenyMatches(deny, ref.path)
     ELSE \/ deny.anchor = NoAnchor
          \/ /\ ~Excepted(deny, deny.anchor)
             /\ Above(ref.path, deny.anchor) \/ Above(deny.anchor, ref.path)

PrivateEphemeral(path) == path = Scratch

\* A refusal cannot be subtracted from a tree that stays writable.
WindowsGaps(policy) ==
  {<<ref, i>> \in WindowsRefs(policy, "write") \X DOMAIN policy.denies :
     /\ ~PrivateEphemeral(ref.path)
     /\ policy.denies[i].access = "write"
     /\ ~FullyOverridden(policy, ref, "write")
     /\ MayIntersect(ref, policy.denies[i])}

\* WindowsReadDenyScanner.scan over the trees that are granted for reading.
WindowsDenied(policy) ==
  {path \in Paths :
     /\ ~IsOverridden(policy, "read", path)
     /\ \E ref \in WindowsRefs(policy, "read"), i \in DOMAIN policy.denies :
          /\ ref.scope = "subtree" /\ ~PrivateEphemeral(ref.path)
          /\ Above(ref.path, path)
          /\ policy.denies[i].access = "read"
          /\ DenyMatches(policy.denies[i], path)
          /\ ~FullyOverridden(policy, ref, "read")
          /\ MayIntersect(ref, policy.denies[i])}

WindowsReach(policy, access) ==
  LET refs == WindowsRefs(policy, access)
      denied == IF access = "read" THEN WindowsDenied(policy) ELSE {}
  IN {path \in Paths :
        /\ \E ref \in refs : Covers(ref, path)
        /\ ~\E d \in denied : path = d \/ (d \in Directories /\ Above(d, path))}
=============================================================================
