------------------------- MODULE InstallationPlanner -------------------------
(***************************************************************************)
(* What `activate`, `repair` and `deactivate` decide to do, as functions   *)
(* of a snapshot of the machine: ManagedInstallationPlanner (files) and    *)
(* ProtectionInstallationPlanner (files, core.hooksPath and the resident   *)
(* service).  A SHA-256 checksum stands for the content it was taken from, *)
(* so a manifest entry holds contents where the code holds checksums.      *)
(*                                                                         *)
(* A snapshot is a record [fs, git, svc, build, watcher].                  *)
(***************************************************************************)
EXTENDS Naturals, Sequences, FiniteSets, SequencesExt

CONSTANTS Null,          \* no file, no hooksPath, no announcement
          Unmergeable    \* user contents renderClaudeSettings refuses

-----------------------------------------------------------------------------
(* Paths and contents *)

\* Everything agentkeeper owns; "init" stands for the shell init and the
\* shims, "hook" for the three Git hooks, "extra" for an artifact that only a
\* later release generates.  Order as in ownedArtifacts().
OwnedIds(build) ==
    <<"init", "state", "replica", "hook", "desc">>
        \o (IF build > 1 THEN <<"extra">> ELSE <<>>)

\* Files of the user that agentkeeper merges a block into.
SharedIds == <<"profile", "settings">>

\* backupPath: one deterministic path for each shared file.
BackupPath(p) == IF p = "profile" THEN "profileBackup" ELSE "settingsBackup"

User(u) == [kind |-> "user", by |-> u]
Merged(base) == [kind |-> "merged", base |-> base]
Generated(id, build, original) ==
    [kind |-> "generated", id |-> id, build |-> build, original |-> original]
GitState(original) == [kind |-> "state", original |-> original]

Kind(content) == IF content = Null THEN "absent" ELSE content.kind

\* The content this build generates for an owned artifact.  Git state and
\* hooks embed the core.hooksPath found at the first activation.
OwnedContent(id, build, original) ==
    CASE id \in {"state", "replica"} -> GitState(original)
      [] id = "hook" -> Generated(id, build, original)
      [] OTHER -> Generated(id, build, Null)

\* configurationChecksum: the options and the bytes of every extension.
Configuration(build, original) == <<build, original>>

-----------------------------------------------------------------------------
(* ManagedInstallationPlanner *)

Change(path, before, after) == [path |-> path, before |-> before, after |-> after]
Refused == [ok |-> FALSE, changes |-> <<>>]
Planned(changes) == [ok |-> TRUE, changes |-> changes]

Entry(id, ownership, installed, original) ==
    [id |-> id, ownership |-> ownership, installed |-> installed, original |-> original]
Manifest(configuration, entries) ==
    [kind |-> "manifest", configuration |-> configuration, entries |-> entries]

MapSeq(Op(_), q) == [k \in DOMAIN q |-> Op(q[k])]

\* What q has in S, in the order of q: SelectSeq without its recursion, so that
\* proofs can tell what it selects.
Kept(q, S) ==
    LET at == {k \in DOMAIN q : q[k] \in S}
    IN  [i \in 1..Cardinality(at) |->
            q[CHOOSE k \in at : Cardinality({j \in at : j <= k}) = i]]

\* Backups first, then the targets, the manifest last.
PlanFirstActivation(s, original) ==
    LET owned == OwnedIds(s.build)
        \* POSIX: a profile that does not exist is not created.
        existing == {p \in ToSet(SharedIds) : s.fs[p] # Null}
        shared == Kept(SharedIds, existing \cup {"settings"})
        backedUp == Kept(shared, existing)
        InstallOwned(id) == Change(id, Null, OwnedContent(id, s.build, original))
        InstallShared(p) == Change(p, s.fs[p], Merged(s.fs[p]))
        Backup(p) == Change(BackupPath(p), Null, s.fs[p])
        OwnedEntry(id) == Entry(id, "owned", OwnedContent(id, s.build, original), Null)
        SharedEntry(p) == Entry(p, "shared", Merged(s.fs[p]), s.fs[p])
        manifest == Manifest(Configuration(s.build, original),
                             MapSeq(OwnedEntry, owned) \o MapSeq(SharedEntry, shared))
    IN  IF \/ \E id \in ToSet(owned) : s.fs[id] # Null
           \/ \E p \in ToSet(shared) : Kind(s.fs[p]) = "merged"
           \/ s.fs["settings"] \in Unmergeable
           \/ \E p \in ToSet(backedUp) : s.fs[BackupPath(p)] # Null
        THEN Refused
        ELSE Planned(MapSeq(Backup, backedUp) \o MapSeq(InstallOwned, owned)
                        \o MapSeq(InstallShared, shared)
                        \o <<Change("manifest", Null, manifest)>>)

\* validateManifest on a manifest whose own checksum holds.
ManifestAccepted(s, op, m, original) ==
    LET seen == {e.id : e \in ToSet(m.entries)}
        owned == ToSet(OwnedIds(s.build))
    IN  /\ seen \subseteq owned \cup ToSet(SharedIds)
        /\ "settings" \in seen
        /\ op = "deactivate" => "init" \in seen
        /\ op = "activate" =>
               /\ m.configuration = Configuration(s.build, original)
               /\ \A e \in ToSet(m.entries) : e.ownership = "owned" =>
                      e.installed = OwnedContent(e.id, s.build, original)
               /\ owned \subseteq seen

BackupsIntact(s, m) ==
    \A e \in ToSet(m.entries) : e.original # Null => s.fs[BackupPath(e.id)] = e.original

\* Mutant: repair installs this build's bytes, whatever the manifest recorded.
PlanInstalledUnrecorded(s, op, m, original) ==
    LET drifted == Kept(m.entries, {e \in ToSet(m.entries) : s.fs[e.id] # e.installed})
        Repair(e) == Change(e.id, s.fs[e.id], OwnedContent(e.id, s.build, original))
    IN  IF \A e \in ToSet(drifted) : op = "repair" /\ e.ownership = "owned"
        THEN Planned(MapSeq(Repair, drifted))
        ELSE Refused

PlanInstalled(s, op, m, original) ==
    LET drifted == Kept(m.entries, {e \in ToSet(m.entries) : s.fs[e.id] # e.installed})
        \* Only repair, only an owned file, and only to the bytes the
        \* manifest vouches for.
        Repairable(e) == /\ op = "repair"
                         /\ e.ownership = "owned"
                         /\ OwnedContent(e.id, s.build, original) = e.installed
        Repair(e) == Change(e.id, s.fs[e.id], e.installed)
    IN  IF BackupsIntact(s, m) /\ \A e \in ToSet(drifted) : Repairable(e)
        THEN Planned(MapSeq(Repair, drifted))
        ELSE Refused

\* Mutant: deactivation trusts the backups and does not look for drift.
PlanDeactivationBlindly(s, m) ==
    LET entries == Reverse(m.entries)
        backedUp == Kept(entries, {e \in ToSet(entries) : e.original # Null})
        Uninstall(e) == Change(e.id, s.fs[e.id], e.original)
        RemoveBackup(e) == Change(BackupPath(e.id), e.original, Null)
    IN  Planned(MapSeq(Uninstall, entries)
                   \o MapSeq(RemoveBackup, backedUp)
                   \o <<Change("manifest", s.fs["manifest"], Null)>>)

\* Targets in reverse order, then the backups, the manifest last.
PlanDeactivation(s, m) ==
    LET entries == Reverse(m.entries)
        backedUp == Kept(entries, {e \in ToSet(entries) : e.original # Null})
        Uninstall(e) == Change(e.id, s.fs[e.id], e.original)
        RemoveBackup(e) == Change(BackupPath(e.id), e.original, Null)
    IN  IF BackupsIntact(s, m) /\ \A e \in ToSet(entries) : s.fs[e.id] = e.installed
        THEN Planned(MapSeq(Uninstall, entries)
                        \o MapSeq(RemoveBackup, backedUp)
                        \o <<Change("manifest", s.fs["manifest"], Null)>>)
        ELSE Refused

\* plan(operation)
FilePlan(s, op, original) ==
    LET m == s.fs["manifest"] IN
    CASE m = Null -> IF op = "activate" THEN PlanFirstActivation(s, original)
                                        ELSE Planned(<<>>)
      [] m # Null /\ Kind(m) # "manifest" -> Refused
      [] OTHER -> IF ~ManifestAccepted(s, op, m, original) THEN Refused
                  ELSE IF op = "deactivate" THEN PlanDeactivation(s, m)
                  ELSE PlanInstalled(s, op, m, original)

-----------------------------------------------------------------------------
(* ProtectionInstallationPlanner *)

Transition(kind, before, after, restart) ==
    [kind |-> kind, before |-> before, after |-> after, restart |-> restart]

\* selectGitState: the originals that the valid copies agree on.
GitOriginals(s) ==
    {s.fs[c].original : c \in {d \in {"state", "replica"} : Kind(s.fs[d]) = "state"}}

\* Mutant: only a first activation looks at what core.hooksPath holds.
GitConflictUnchecked(s, installed, original) == ~installed /\ s.git = "managed"

\* gitTransition: refuse to touch a hooksPath nobody planned for.
GitConflict(s, installed, original) ==
    \/ ~installed /\ s.git = "managed"
    \/ s.git \notin {original, "managed"}

GitTransition(s, op, original) ==
    LET desired == IF op = "deactivate" THEN original ELSE "managed"
    IN  IF s.git = desired THEN <<>> ELSE <<Transition("git", s.git, desired, FALSE)>>

\* watcherIsStale: a resident that announced another version than the
\* installed one is restarted; one that never announced anything is not.
WatcherIsStale(s) == s.watcher # Null /\ s.watcher # s.build

\* Mutant: deactivation only unregisters a service that runs.
ServiceTransitionRunningOnly(s, op) ==
    IF op = "deactivate"
    THEN IF s.svc # "active" THEN <<>> ELSE <<Transition("service", s.svc, "absent", FALSE)>>
    ELSE IF s.svc = "active" THEN <<>> ELSE <<Transition("service", s.svc, "active", FALSE)>>

ServiceTransition(s, op) ==
    IF op = "deactivate"
    THEN IF s.svc = "absent" THEN <<>> ELSE <<Transition("service", s.svc, "absent", FALSE)>>
    ELSE IF s.svc # "active" THEN <<Transition("service", s.svc, "active", FALSE)>>
    ELSE IF WatcherIsStale(s) THEN <<Transition("service", s.svc, "active", TRUE)>>
    ELSE <<>>

ProtectionPlan(s, op) ==
    LET installed == s.fs["manifest"] # Null
        originals == IF installed THEN GitOriginals(s) ELSE {s.git}
        original == IF originals = {} THEN Null ELSE CHOOSE o \in originals : TRUE
        files == FilePlan(s, op, original)
        conflicted == [ok |-> FALSE, installed |-> installed,
                       files |-> <<>>, external |-> <<>>]
    IN  IF ~installed /\ op # "activate"
        THEN [ok |-> TRUE, installed |-> FALSE, files |-> <<>>, external |-> <<>>]
        ELSE IF \/ originals # {original}   \* no copy, or copies that disagree
                \/ ~files.ok
                \/ GitConflict(s, installed, original)
                \/ ~installed /\ s.svc # "absent"
        THEN conflicted
        ELSE [ok |-> TRUE, installed |-> installed, files |-> files.changes,
              external |-> IF op = "deactivate"
                           THEN ServiceTransition(s, op) \o GitTransition(s, op, original)
                           ELSE GitTransition(s, op, original) \o ServiceTransition(s, op)]

\* ProtectionInstallationPlanner.health(), as doctor and status report it.
Healthy(s) ==
    LET p == ProtectionPlan(s, "repair") IN
    p.ok /\ p.installed /\ p.files = <<>> /\ p.external = <<>>

=============================================================================
