------------------------------ MODULE AuditLog ------------------------------
(***************************************************************************)
(* JsonlAuditLog: the bounded evidence log under ~/.agentkeeper/audit.     *)
(* Every process appends to a segment file of its own; any process may     *)
(* evict segments that are closed or whose owner is dead, by renaming them *)
(* to a deletion claim first.  Nothing is locked: a process lists the      *)
(* directory, looks at the files, decides, and acts on what it saw.        *)
(* Sizes are counted in entries, time in days.                             *)
(***************************************************************************)
EXTENDS Naturals, FiniteSets, FiniteSetsExt

CONSTANTS
  Proc,          \* processes: commands and the daemon, each a process id
  Readers,       \* those that also read the log: agentkeeper log, status
  MaxAppends,    \* appends, by process
  MaxSegment,    \* maxSegmentBytes
  MaxTotal,      \* maxTotalBytes
  MaxSegments,   \* maxSegments
  Retention,     \* retentionDays
  MaxDay,        \* bound on the clock
  Legacy,        \* the owner of a migrated audit.log
  LegacySize,    \* entries in the audit.log of an older version
  Nothing        \* no operation under way, no victim chosen

ASSUME AuditAssumption ==
  /\ MaxSegment \in Nat \ {0} /\ MaxTotal \in Nat /\ MaxSegment <= MaxTotal
  /\ MaxSegments \in Nat \ {0} /\ Retention \in Nat \ {0}
  /\ MaxAppends \in [Proc -> Nat] /\ MaxDay \in Nat /\ LegacySize \in Nat
  /\ Legacy \notin Proc /\ Readers \subseteq Proc

VARIABLES
  archive,   \* the segment files
  claims,    \* the .deleting- files, by the process that made them
  legacy,    \* the entries of audit.log
  day,
  procs,
  acked,     \* entries whose append was acknowledged
  evicted    \* entries of claimed segments

auditVars == <<archive, claims, legacy, day, procs, acked, evicted>>

Entries == (Proc \cup {Legacy}) \X (Nat \ {0})
Segment == [owner : Proc \cup {Legacy}, seq : Nat, born : Nat,
            state : {"open", "closed"}, entries : SUBSET Entries]

\* segmentPath: what the file name says, which is all a listing returns.
Name(s) == [owner |-> s.owner, seq |-> s.seq, born |-> s.born, state |-> s.state]

Size(segments) == FoldSet(LAMBDA s, n : n + Cardinality(s.entries), 0, segments)

Named(names) == {s \in archive : Name(s) \in names}

Idle == [pc |-> "idle", op |-> Nothing, seq |-> 0, born |-> 0, used |-> 0,
         listed |-> {}, victim |-> Nothing, result |-> {}, due |-> {}, moved |-> {}]

AuditInit ==
  /\ archive = {} /\ claims = {} /\ acked = {} /\ evicted = {}
  /\ legacy = {<<Legacy, n>> : n \in 1..LegacySize}
  /\ day = 0
  /\ procs = [p \in Proc |-> Idle]

Goto(p, pc) == procs' = [procs EXCEPT ![p].pc = pc]

\* The promise of the operation is settled.
Finished(p) ==
  [procs EXCEPT ![p].pc = "idle", ![p].op = Nothing, ![p].listed = {},
                ![p].result = {}, ![p].due = {}, ![p].moved = {}]

Alive(p) == p \in Proc /\ procs[p].pc # "dead"

\* The name of p's active segment.
Current(p) == [owner |-> p, seq |-> procs[p].seq, born |-> procs[p].born, state |-> "open"]

CurrentExists(p) == Named({Current(p)}) # {}

\* enqueue: one operation of a process at a time, in the order of the calls.
StartAppend(p) ==
  /\ procs[p].pc = "idle" /\ procs[p].used < MaxAppends[p]
  /\ procs' = [procs EXCEPT ![p].pc = "migrate", ![p].op = "append", ![p].used = @ + 1]
  /\ UNCHANGED <<archive, claims, legacy, day, acked, evicted>>

StartSince(p) ==
  /\ procs[p].pc = "idle" /\ p \in Readers
  /\ procs' = [procs EXCEPT ![p].pc = "migrate", ![p].op = "since", ![p].due = acked]
  /\ UNCHANGED <<archive, claims, legacy, day, acked, evicted>>

\* migrateLegacy: audit.log becomes a closed segment, once.
MigrateLegacy(p) ==
  /\ procs[p].pc = "migrate"
  /\ archive' = IF legacy = {} THEN archive
                ELSE archive \cup {[owner |-> Legacy, seq |-> 0, born |-> day,
                                    state |-> "closed", entries |-> legacy]}
  /\ legacy' = {}
  /\ Goto(p, "prepare")
  /\ UNCHANGED <<claims, day, acked, evicted>>

Aged(p) == day - procs[p].born >= 1

\* move(currentPath, closed): whatever has the closed name is replaced.
Closed(p) ==
  LET closed == [Current(p) EXCEPT !.state = "closed"]
  IN {s \in archive : Name(s) \notin {Current(p), closed}}
       \cup {[s EXCEPT !.state = "closed"] : s \in Named({Current(p)})}

\* The readers that may have listed p's segment under its open name.
Moving(p, ps) ==
  [q \in Proc |-> IF ps[q].op # "since" THEN ps[q]
                  ELSE [ps[q] EXCEPT !.moved =
                          @ \cup UNION {s.entries : s \in Named({Current(p)})}]]

\* Mutant: a full segment is closed and the next entry reuses its name.
RollOverInPlace(p) ==
  /\ archive' = Closed(p)
  /\ procs' = Moving(p, [procs EXCEPT ![p].pc = "claims"])

\* closeCurrent, advanceCurrent.
RollOver(p) ==
  /\ archive' = Closed(p)
  /\ procs' = Moving(p, [procs EXCEPT ![p].pc = "claims", ![p].seq = @ + 1,
                                      ![p].born = day])

\* prepareCurrent for an append, closeCurrentIfAged for a read.
Prepare(p) ==
  /\ procs[p].pc = "prepare"
  /\ \/ /\ CurrentExists(p)
        /\ \/ Aged(p)
           \/ procs[p].op = "append" /\ Size(Named({Current(p)})) + 1 > MaxSegment
        /\ RollOver(p)
     \/ /\ ~CurrentExists(p) /\ procs[p].op = "append" /\ Aged(p)
        /\ procs' = [procs EXCEPT ![p].pc = "claims", ![p].seq = @ + 1, ![p].born = day]
        /\ UNCHANGED archive
     \/ /\ CurrentExists(p) => ~Aged(p)
        /\ procs[p].op = "append" =>
             IF CurrentExists(p) THEN Size(Named({Current(p)})) + 1 <= MaxSegment
                                 ELSE ~Aged(p)
        /\ Goto(p, "claims")
        /\ UNCHANGED archive
  /\ UNCHANGED <<claims, legacy, day, acked, evicted>>

\* removeDeletionClaims: what an interrupted eviction left behind.
RemoveDeletionClaims(p) ==
  /\ procs[p].pc = "claims"
  /\ claims' = {}
  /\ Goto(p, "list")
  /\ UNCHANGED <<archive, legacy, day, acked, evicted>>

\* discoverSegments, first half: the directory listing.
List(p) ==
  /\ procs[p].pc \in {"list", "read-list"}
  /\ procs' = [procs EXCEPT ![p].listed = {Name(s) : s \in archive},
                            ![p].pc = IF @ = "list" THEN "decide" ELSE "read-stat"]
  /\ UNCHANGED <<archive, claims, legacy, day, acked, evicted>>

\* Mutant: an open segment is fair game whoever owns it.
EvictableOpen(p, s) == Name(s) # Current(p)

Evictable(p, s) ==
  /\ Name(s) # Current(p)
  /\ s.state = "closed" \/ ~Alive(s.owner)

\* compareSegments: by age, migrated logs first, then by name.
Older(s, t) ==
  \/ s.born < t.born
  \/ s.born = t.born /\ s.owner = Legacy /\ t.owner # Legacy
  \/ s.born = t.born /\ s.owner = t.owner /\ s.seq < t.seq

Oldest(segments) == CHOOSE s \in segments : ~\E t \in segments : Older(t, s)

Expired(s) == s.born + Retention + 1 <= day

\* Mutant: the entry about to be written is not counted.
OverLimitUnreserved(p, seen) ==
  Size(seen) > MaxTotal \/ Cardinality(seen) > MaxSegments

\* total and count, with what this append is about to add.
OverLimit(p, seen) ==
  LET reserved == IF procs[p].op = "append" THEN 1 ELSE 0
      creates == IF procs[p].op = "append" /\ ~CurrentExists(p) THEN 1 ELSE 0
  IN Size(seen) + reserved > MaxTotal \/ Cardinality(seen) + creates > MaxSegments

\* discoverSegments, second half (stat skips a name that is gone), and one
\* round of maintain: evict what expired, else the oldest while over a limit.
Decide(p) ==
  /\ procs[p].pc = "decide"
  /\ LET seen == Named(procs[p].listed)
         evictable == {s \in seen : Evictable(p, s)}
         expired == {s \in evictable : Expired(s)}
         next == IF expired # {} THEN Oldest(expired) ELSE Oldest(evictable)
     IN procs' =
       CASE expired = {} /\ ~OverLimit(p, seen) ->
              [procs EXCEPT ![p].listed = {},
                            ![p].pc = IF procs[p].op = "append" THEN "append" ELSE "read-list"]
         [] expired # {} \/ (OverLimit(p, seen) /\ evictable # {}) ->
              [procs EXCEPT ![p].listed = {}, ![p].pc = "claim", ![p].victim = Name(next)]
         [] OTHER ->          \* AuditCapacityError
              Finished(p)
  /\ UNCHANGED <<archive, claims, legacy, day, acked, evicted>>

\* claimAndDelete: the rename, which fails if somebody was faster ...
Claim(p) ==
  /\ procs[p].pc = "claim"
  /\ LET taken == Named({procs[p].victim}) IN
     /\ archive' = archive \ taken
     /\ claims' = IF taken = {} THEN claims ELSE claims \cup {p}
     /\ evicted' = evicted \cup UNION {s.entries : s \in taken}
     /\ procs' = [procs EXCEPT ![p].victim = Nothing,
                               ![p].pc = IF taken = {} THEN "list" ELSE "unlink"]
  /\ UNCHANGED <<legacy, day, acked>>

\* ... and the removal of the claim.
Unlink(p) ==
  /\ procs[p].pc = "unlink"
  /\ claims' = claims \ {p}
  /\ Goto(p, "list")
  /\ UNCHANGED <<archive, legacy, day, acked, evicted>>

\* files.append, which creates the segment, and the resolved promise.
AppendEntry(p) ==
  /\ procs[p].pc = "append"
  /\ LET entry == <<p, procs[p].used>>
         kept == UNION {s.entries : s \in Named({Current(p)})}
     IN /\ archive' = {s \in archive : Name(s) # Current(p)} \cup
             {[owner |-> p, seq |-> procs[p].seq, born |-> procs[p].born,
               state |-> "open", entries |-> kept \cup {entry}]}
        /\ acked' = acked \cup {entry}
  /\ procs' = Finished(p)
  /\ UNCHANGED <<claims, legacy, day, evicted>>

\* since: the bytes of all segments are checked against the limit ...
CheckBytes(p) ==
  /\ procs[p].pc = "read-stat"
  /\ procs' = IF Size(Named(procs[p].listed)) > MaxTotal THEN Finished(p)
              ELSE [procs EXCEPT ![p].pc = "read"]
  /\ UNCHANGED <<archive, claims, legacy, day, acked, evicted>>

\* Mutant: only closed segments are read.
ReadClosed(p) ==
  /\ procs[p].pc = "read" /\ procs[p].listed # {}
  /\ LET name == Oldest(procs[p].listed) IN
     procs' = [procs EXCEPT ![p].listed = @ \ {name},
                 ![p].result = @ \cup UNION {s.entries : s \in
                                  {t \in Named({name}) : t.state = "closed"}}]
  /\ UNCHANGED <<archive, claims, legacy, day, acked, evicted>>

\* ... each file is read, and one that is no longer there is skipped ...
ReadSegment(p) ==
  /\ procs[p].pc = "read" /\ procs[p].listed # {}
  /\ LET name == Oldest(procs[p].listed) IN
     procs' = [procs EXCEPT ![p].listed = @ \ {name},
                 ![p].result = @ \cup UNION {s.entries : s \in Named({name})}]
  /\ UNCHANGED <<archive, claims, legacy, day, acked, evicted>>

\* ... and the entries are returned.
Return(p) ==
  /\ procs[p].pc = "read" /\ procs[p].listed = {}
  /\ procs' = Finished(p)
  /\ UNCHANGED <<archive, claims, legacy, day, acked, evicted>>

Dies(p) ==
  /\ procs[p].pc # "dead"
  /\ procs' = [procs EXCEPT ![p] = [Idle EXCEPT !.pc = "dead"]]
  /\ UNCHANGED <<archive, claims, legacy, day, acked, evicted>>

Tick ==
  /\ day < MaxDay
  /\ day' = day + 1
  /\ UNCHANGED <<archive, claims, legacy, procs, acked, evicted>>

AuditStep(p) ==
  \/ MigrateLegacy(p) \/ Prepare(p) \/ RemoveDeletionClaims(p) \/ List(p)
  \/ Decide(p) \/ Claim(p) \/ Unlink(p) \/ AppendEntry(p)
  \/ CheckBytes(p) \/ ReadSegment(p) \/ Return(p)

AuditNext ==
  \/ Tick
  \/ \E p \in Proc : StartAppend(p) \/ StartSince(p) \/ AuditStep(p) \/ Dies(p)

AuditSpec == AuditInit /\ [][AuditNext]_auditVars
-----------------------------------------------------------------------------
\* Types; no two segments have one name, and a process names its segment after
\* a day that has come.
AuditTypeOK ==
  /\ archive \subseteq Segment
  /\ claims \subseteq Proc
  /\ acked \cup evicted \cup legacy \subseteq Entries
  /\ day \in 0..MaxDay
  /\ \A s, t \in archive : Name(s) = Name(t) => s = t
  /\ \A p \in Proc : procs[p].used \in 0..MaxAppends[p] /\ procs[p].born \in 0..day

\* Evidence that was acknowledged is in the archive until its segment is
\* evicted: rollover, migration, crashes and other processes' renames lose none.
EvidenceKept ==
  acked \subseteq (UNION {s.entries : s \in archive}) \cup evicted

\* Nobody evicts the active segment of a living process, however old the
\* listing a pruner acts on.
ActiveEvidenceSafe ==
  [][\A s \in archive :
       s.state = "open" /\ Alive(s.owner) =>
         s.entries \subseteq UNION {t.entries : t \in archive'}]_auditVars

\* The limits hold up to what deciding on a listing without a lock can add, of
\* the segments processes write: one file for every process but one, and the
\* entries of one segment, which its owner's rollover may have renamed between
\* the listing and the stat that counts them.
CapacityBound ==
  LET written == {s \in archive : s.owner # Legacy}
      rivals == Cardinality(Proc) - 1
  IN /\ Size(written) <= MaxTotal + rivals * MaxSegment
     /\ Cardinality(written) <= MaxSegments + rivals

\* A read omits an acknowledged entry only if its segment was evicted, or was
\* renamed by its owner's rollover while the read was going on.
ReadOmitsOnlyMoved ==
  \A p \in Proc : procs[p].pc = "read" /\ procs[p].listed = {} =>
    procs[p].due \subseteq procs[p].result \cup evicted \cup procs[p].moved
=============================================================================
