-------------------------- MODULE AuditLogProofs --------------------------
(***************************************************************************)
(* For any number of processes, limits and days, and any interleaving of   *)
(* listings, renames, appends and crashes: acknowledged evidence stays in  *)
(* the archive until it is evicted, nobody evicts the active segment of a  *)
(* living process, and a read misses only what moved under it.             *)
(***************************************************************************)
EXTENDS AuditLog, WellFoundedInduction, TLAPS

Names == [owner : Proc \cup {Legacy}, seq : Nat, born : Nat, state : {"open", "closed"}]

ProcRecord ==
  [pc : {"idle", "dead", "migrate", "prepare", "claims", "list", "decide", "claim", "unlink",
         "append", "read-list", "read-stat", "read"},
   op : {Nothing, "append", "since"}, seq : Nat, born : Nat, used : Nat,
   listed : SUBSET Names, victim : Names \cup {Nothing},
   result : SUBSET Entries, due : SUBSET Entries, moved : SUBSET Entries]

\* The entries of some segments.
Held(segments) == UNION {s.entries : s \in segments}

\* The segments of a living process are older than its active one, or that
\* one: the name a rollover closes to is free.
Behind(p, r, segments) ==
  r.pc # "dead" => \A s \in segments :
    s.owner = p => \/ s.seq < r.seq
                   \/ s.seq = r.seq /\ s.born = r.born /\ s.state = "open"

\* What a process has chosen to evict is closed, or its owner is dead.
Chosen(r) ==
  r.pc = "claim" =>
    /\ r.victim \in Names
    /\ r.victim.state = "closed" \/ ~Alive(r.victim.owner)

\* A reader still owes only what was acknowledged, and after the listing it
\* has it, or finds it under a listed name, unless it was evicted or moved.
Owes(r, segments, gone, written) ==
  /\ r.due \subseteq written
  /\ r.pc \in {"read-list", "read-stat", "read"} => r.op = "since"
  /\ r.pc = "append" => r.op = "append"
  /\ r.pc \notin {"idle", "dead"} =>
       r.op = "since" \/ (r.op = "append" /\ r.used > 0)
  /\ r.pc \in {"read-stat", "read"} =>
       r.due \subseteq r.result \cup gone \cup r.moved
                        \cup Held({s \in segments : Name(s) \in r.listed})

Typed ==
  /\ archive \subseteq Segment
  /\ procs \in [Proc -> ProcRecord]
  /\ legacy \subseteq Entries /\ acked \subseteq Entries /\ evicted \subseteq Entries
  /\ day \in Nat

IInv ==
  /\ Typed
  /\ acked \subseteq Held(archive) \cup evicted
  /\ \A p \in Proc :
       /\ Behind(p, procs[p], archive)
       /\ Chosen(procs[p])
       /\ Owes(procs[p], archive, evicted, acked)
-----------------------------------------------------------------------------
LEMMA LeastNumber ==
  ASSUME NEW T, T \subseteq Nat, T # {}
  PROVE  \E n \in T : \A m \in T : ~(m < n)
<1> DEFINE R == OpToRel(<, Nat)
<1>1. IsWellFoundedOn(R, Nat)
  BY NatLessThanWellFounded
<1>2. PICK n \in T : \A m \in T : <<m, n>> \notin R
  <2> HIDE DEF R
  <2> QED BY <1>1, WFMin
<1>3. \A m \in T : ~(m < n)
  BY <1>2 DEF OpToRel
<1> QED BY <1>3

\* compareSegments has a first element in every set of segments or names.
LEMMA OldestIsThere ==
  ASSUME NEW S, S # {}, \A s \in S : s.born \in Nat /\ s.seq \in Nat
  PROVE  Oldest(S) \in S
<1>1. PICK b \in {s.born : s \in S} : \A m \in {s.born : s \in S} : ~(m < b)
  <2>1. {s.born : s \in S} # {} /\ {s.born : s \in S} \subseteq Nat
    OBVIOUS
  <2> QED BY <2>1, LeastNumber
<1> DEFINE first == {s \in S : s.born = b}
<1>2. PICK w : w \in first /\ (w.owner = Legacy \/ \A s \in first : s.owner # Legacy)
  <2>1. first # {}
    BY <1>1
  <2> QED BY <2>1
<1> DEFINE same == {s \in first : s.owner = w.owner}
<1>3. PICK n \in {s.seq : s \in same} : \A m \in {s.seq : s \in same} : ~(m < n)
  <2>1. {s.seq : s \in same} # {} /\ {s.seq : s \in same} \subseteq Nat
    BY <1>2
  <2> QED BY <2>1, LeastNumber
<1>4. PICK o \in same : o.seq = n
  BY <1>3
<1>5. \A t \in S : ~Older(t, o)
  BY <1>1, <1>2, <1>3, <1>4 DEF Older
<1>6. \E s \in S : ~\E t \in S : Older(t, s)
  BY <1>4, <1>5
<1> QED BY <1>6 DEF Oldest

LEMMA HeldBy ==
  ASSUME NEW segments, NEW e
  PROVE  e \in Held(segments) <=> \E s \in segments : e \in s.entries
  BY DEF Held

LEMMA InitIInv == AuditInit => IInv
<1> SUFFICES ASSUME AuditInit PROVE IInv
  OBVIOUS
<1>1. Idle \in ProcRecord /\ Idle.pc = "idle" /\ Idle.due = {}
  BY DEF Idle, ProcRecord
<1>2. \A p \in Proc : procs[p] = Idle
  BY DEF AuditInit
<1>3. legacy \subseteq Entries
  BY AuditAssumption DEF AuditInit, Entries
<1>4. Typed
  BY <1>1, <1>3 DEF AuditInit, Typed
<1>5. ASSUME NEW p \in Proc
      PROVE  /\ Behind(p, procs[p], archive) /\ Chosen(procs[p])
             /\ Owes(procs[p], archive, evicted, acked)
  BY <1>1, <1>2 DEF AuditInit, Behind, Chosen, Owes
<1> QED BY <1>4, <1>5 DEF IInv, AuditInit

\* What a step of the process p has to show when no segment changes.
LEMMA OneProcess ==
  ASSUME IInv, NEW p \in Proc, NEW r \in ProcRecord, procs' = [procs EXCEPT ![p] = r],
         UNCHANGED <<archive, legacy, day, acked, evicted>>, procs[p].pc # "dead",
         Behind(p, r, archive), Chosen(r), Owes(r, archive, evicted, acked)
  PROVE  IInv'
<1>1. \A q \in Proc : procs'[q] = IF q = p THEN r ELSE procs[q]
  BY DEF IInv, Typed
<1>2. Typed'
  BY DEF IInv, Typed
<1>3. \A o : ~Alive(o) => ~Alive(o)'
  BY <1>1 DEF Alive
<1>4. ASSUME NEW q \in Proc
      PROVE  /\ Behind(q, procs[q], archive)' /\ Chosen(procs[q])'
             /\ Owes(procs[q], archive, evicted, acked)'
  <2>1. CASE q = p
    BY <1>1, <1>3, <2>1 DEF Chosen, Behind
  <2>2. CASE q # p
    BY <1>1, <1>3, <2>2 DEF Chosen, Behind, IInv
  <2> QED BY <2>1, <2>2
<1> QED BY <1>2, <1>4 DEF IInv

LEMMA StartStep ==
  ASSUME IInv, NEW p \in Proc, StartAppend(p) \/ StartSince(p)
  PROVE  IInv'
<1>0. procs[p] \in ProcRecord /\ Behind(p, procs[p], archive)
      /\ Owes(procs[p], archive, evicted, acked)
  BY DEF IInv, Typed
<1>1. CASE StartAppend(p)
  <2> DEFINE more == procs[p].used + 1
             r == [procs[p] EXCEPT !.pc = "migrate", !.op = "append", !.used = more]
  <2>1. procs' = [procs EXCEPT ![p] = r]
    BY <1>1 DEF StartAppend
  <2>4. more \in Nat /\ more > 0
    BY <1>0 DEF ProcRecord
  <2> HIDE DEF more
  <2>2. /\ r \in ProcRecord /\ r.pc = "migrate" /\ r.op = "append" /\ r.due = procs[p].due
        /\ r.seq = procs[p].seq /\ r.born = procs[p].born /\ r.used = more
    BY <1>0, <2>4 DEF ProcRecord
  <2> HIDE DEF r
  <2>3. Behind(p, r, archive) /\ Chosen(r) /\ Owes(r, archive, evicted, acked)
    BY <1>0, <1>1, <2>2, <2>4 DEF Behind, Chosen, Owes, StartAppend
  <2> QED BY <1>1, <2>1, <2>2, <2>3, OneProcess DEF StartAppend
<1>2. CASE StartSince(p)
  <2> DEFINE r == [procs[p] EXCEPT !.pc = "migrate", !.op = "since", !.due = acked]
  <2>1. procs' = [procs EXCEPT ![p] = r]
    BY <1>2 DEF StartSince
  <2>2. /\ r \in ProcRecord /\ r.pc = "migrate" /\ r.op = "since" /\ r.due = acked
        /\ r.seq = procs[p].seq /\ r.born = procs[p].born
    BY <1>0 DEF ProcRecord, IInv, Typed
  <2> HIDE DEF r
  <2>3. Behind(p, r, archive) /\ Chosen(r) /\ Owes(r, archive, evicted, acked)
    BY <1>0, <1>2, <2>2 DEF Behind, Chosen, Owes, StartSince
  <2> QED BY <1>2, <2>1, <2>2, <2>3, OneProcess DEF StartSince
<1> QED BY <1>1, <1>2

\* A process goes to a stage where it neither evicts nor owes a reading.
LEMMA GotoStep ==
  ASSUME IInv, NEW p \in Proc, NEW pc \in {"prepare", "claims", "list"}, Goto(p, pc),
         procs[p].pc \notin {"idle", "dead"},
         UNCHANGED <<archive, legacy, day, acked, evicted>>
  PROVE  IInv'
<1> DEFINE r == [procs[p] EXCEPT !.pc = pc]
<1>1. /\ procs[p] \in ProcRecord /\ Behind(p, procs[p], archive)
      /\ Owes(procs[p], archive, evicted, acked)
  BY DEF IInv, Typed
<1>2. procs' = [procs EXCEPT ![p] = r]
  BY DEF Goto
<1>3. /\ r \in ProcRecord /\ r.pc = pc /\ r.op = procs[p].op /\ r.used = procs[p].used
      /\ r.due = procs[p].due
      /\ r.seq = procs[p].seq /\ r.born = procs[p].born
  BY <1>1 DEF ProcRecord
<1> HIDE DEF r
<1>4. Behind(p, r, archive) /\ Chosen(r) /\ Owes(r, archive, evicted, acked)
  BY <1>1, <1>3 DEF Behind, Chosen, Owes
<1> QED BY <1>2, <1>3, <1>4, OneProcess

\* An operation is over.
LEMMA FinishedStep ==
  ASSUME IInv, NEW p \in Proc, procs' = Finished(p), procs[p].pc # "dead",
         UNCHANGED <<archive, legacy, day, acked, evicted>>
  PROVE  IInv'
<1> DEFINE r == [procs[p] EXCEPT !.pc = "idle", !.op = Nothing, !.listed = {},
                                 !.result = {}, !.due = {}, !.moved = {}]
<1>1. procs[p] \in ProcRecord /\ Behind(p, procs[p], archive)
  BY DEF IInv, Typed
<1>2. procs' = [procs EXCEPT ![p] = r]
  BY DEF Finished
<1>3. /\ r \in ProcRecord /\ r.pc = "idle" /\ r.due = {}
      /\ r.seq = procs[p].seq /\ r.born = procs[p].born
  BY <1>1 DEF ProcRecord
<1> HIDE DEF r
<1>4. Behind(p, r, archive) /\ Chosen(r) /\ Owes(r, archive, evicted, acked)
  BY <1>1, <1>3 DEF Behind, Chosen, Owes
<1> QED BY <1>2, <1>3, <1>4, OneProcess

\* The listing finds every segment there is.
LEMMA ListStep ==
  ASSUME IInv, NEW p \in Proc, List(p)
  PROVE  IInv'
<1> DEFINE all == {Name(s) : s \in archive}
           next == IF procs[p].pc = "list" THEN "decide" ELSE "read-stat"
           r == [procs[p] EXCEPT !.listed = all, !.pc = next]
<1>1. /\ procs[p] \in ProcRecord /\ Behind(p, procs[p], archive)
      /\ Owes(procs[p], archive, evicted, acked)
      /\ archive \subseteq Segment /\ acked \subseteq Held(archive) \cup evicted
      /\ procs[p].pc \in {"list", "read-list"}
  BY DEF IInv, Typed, List
<1>2. procs' = [procs EXCEPT ![p] = r]
  BY DEF List
<1>3. all \in SUBSET Names
  BY <1>1 DEF Name, Segment, Names
<1>4. {s \in archive : Name(s) \in all} = archive
  OBVIOUS
<1> HIDE DEF all
<1>5. /\ r \in ProcRecord /\ r.pc = next /\ r.op = procs[p].op /\ r.used = procs[p].used
      /\ r.due = procs[p].due
      /\ r.seq = procs[p].seq /\ r.born = procs[p].born /\ r.listed = all
  BY <1>1, <1>3 DEF ProcRecord
<1> HIDE DEF r
<1>6. Behind(p, r, archive) /\ Chosen(r) /\ Owes(r, archive, evicted, acked)
  BY <1>1, <1>4, <1>5 DEF Behind, Chosen, Owes
<1> QED BY <1>1, <1>2, <1>5, <1>6, OneProcess DEF List

\* maintain chooses a closed segment, or one whose owner is dead.
LEMMA DecideStep ==
  ASSUME IInv, NEW p \in Proc, Decide(p)
  PROVE  IInv'
<1> DEFINE seen == Named(procs[p].listed)
           evictable == {s \in seen : Evictable(p, s)}
           expired == {s \in evictable : Expired(s)}
           next == IF expired # {} THEN Oldest(expired) ELSE Oldest(evictable)
           over == OverLimit(p, seen)
           go == IF procs[p].op = "append" THEN "append" ELSE "read-list"
           pass == [procs[p] EXCEPT !.listed = {}, !.pc = go]
           take == [procs[p] EXCEPT !.listed = {}, !.pc = "claim", !.victim = Name(next)]
<1>1. /\ procs[p] \in ProcRecord /\ Behind(p, procs[p], archive)
      /\ Owes(procs[p], archive, evicted, acked)
      /\ archive \subseteq Segment /\ procs[p].pc = "decide"
      /\ UNCHANGED <<archive, legacy, day, acked, evicted>>
  BY DEF IInv, Typed, Decide
<1>2. procs' = CASE expired = {} /\ ~over -> [procs EXCEPT ![p] = pass]
                 [] expired # {} \/ (over /\ evictable # {}) -> [procs EXCEPT ![p] = take]
                 [] OTHER -> Finished(p)
  BY DEF Decide
<1>3. CASE expired = {} /\ ~over
  <2>1. procs' = [procs EXCEPT ![p] = pass]
    BY <1>2, <1>3
  <2>2. /\ pass \in ProcRecord /\ pass.pc = go /\ pass.op = procs[p].op
        /\ pass.used = procs[p].used /\ pass.due = procs[p].due /\ pass.seq = procs[p].seq
        /\ pass.born = procs[p].born
    BY <1>1 DEF ProcRecord
  <2> HIDE DEF pass
  <2>3. Behind(p, pass, archive) /\ Chosen(pass) /\ Owes(pass, archive, evicted, acked)
    BY <1>1, <2>2 DEF Behind, Chosen, Owes
  <2> QED BY <1>1, <2>1, <2>2, <2>3, OneProcess
<1>4. CASE expired # {} \/ (over /\ evictable # {})
  <2>1. procs' = [procs EXCEPT ![p] = take]
    BY <1>2, <1>4
  <2>2. next \in evictable
    <3>1. \A s \in archive : s.born \in Nat /\ s.seq \in Nat
      BY <1>1 DEF Segment
    <3>2. evictable \subseteq archive /\ expired \subseteq evictable
      BY DEF Named
    <3> HIDE DEF evictable, expired
    <3>3. CASE expired # {}
      BY <3>1, <3>2, <3>3, OldestIsThere
    <3>4. CASE expired = {}
      BY <1>4, <3>1, <3>2, <3>4, OldestIsThere
    <3> QED BY <3>3, <3>4
  <2>3. next \in archive /\ (next.state = "closed" \/ ~Alive(next.owner))
    BY <2>2 DEF Evictable, Named
  <2>4. /\ Name(next) \in Names
        /\ Name(next).state = "closed" \/ ~Alive(Name(next).owner)
    BY <1>1, <2>3 DEF Name, Names, Segment
  <2> HIDE DEF next
  <2>5. /\ take \in ProcRecord /\ take.pc = "claim" /\ take.op = procs[p].op
        /\ take.used = procs[p].used /\ take.due = procs[p].due /\ take.seq = procs[p].seq
        /\ take.born = procs[p].born
        /\ take.victim = Name(next)
    BY <1>1, <2>4 DEF ProcRecord
  <2> HIDE DEF take
  <2>6. Behind(p, take, archive) /\ Chosen(take) /\ Owes(take, archive, evicted, acked)
    BY <1>1, <2>4, <2>5 DEF Behind, Chosen, Owes
  <2> QED BY <1>1, <2>1, <2>5, <2>6, OneProcess
<1>5. CASE ~(expired = {} /\ ~over) /\ ~(expired # {} \/ (over /\ evictable # {}))
  <2>1. procs' = Finished(p)
    BY <1>2, <1>5
  <2> QED BY <1>1, <2>1, FinishedStep
<1> QED BY <1>3, <1>4, <1>5

LEMMA CheckBytesStep ==
  ASSUME IInv, NEW p \in Proc, CheckBytes(p)
  PROVE  IInv'
<1> DEFINE r == [procs[p] EXCEPT !.pc = "read"]
<1>1. /\ procs[p] \in ProcRecord /\ Behind(p, procs[p], archive)
      /\ Owes(procs[p], archive, evicted, acked) /\ procs[p].pc = "read-stat"
      /\ UNCHANGED <<archive, legacy, day, acked, evicted>>
  BY DEF IInv, Typed, CheckBytes
<1>2. procs' = Finished(p) \/ procs' = [procs EXCEPT ![p] = r]
  BY DEF CheckBytes
<1>3. /\ r \in ProcRecord /\ r.pc = "read" /\ r.op = procs[p].op /\ r.used = procs[p].used
      /\ r.due = procs[p].due
      /\ r.seq = procs[p].seq /\ r.born = procs[p].born /\ r.listed = procs[p].listed
      /\ r.result = procs[p].result /\ r.moved = procs[p].moved
  BY <1>1 DEF ProcRecord
<1> HIDE DEF r
<1>4. Behind(p, r, archive) /\ Chosen(r) /\ Owes(r, archive, evicted, acked)
  BY <1>1, <1>3 DEF Behind, Chosen, Owes
<1> QED BY <1>1, <1>2, <1>3, <1>4, FinishedStep, OneProcess

\* What leaves the list of a reader has been read.
LEMMA ReadSegmentStep ==
  ASSUME IInv, NEW p \in Proc, ReadSegment(p)
  PROVE  IInv'
<1> DEFINE name == Oldest(procs[p].listed)
           left == procs[p].listed \ {name}
           more == procs[p].result \cup Held(Named({name}))
           r == [procs[p] EXCEPT !.listed = left, !.result = more]
<1>1. /\ procs[p] \in ProcRecord /\ Behind(p, procs[p], archive)
      /\ Owes(procs[p], archive, evicted, acked) /\ procs[p].pc = "read"
      /\ archive \subseteq Segment
      /\ UNCHANGED <<archive, legacy, day, acked, evicted>>
  BY DEF IInv, Typed, ReadSegment
<1>2. procs' = [procs EXCEPT ![p] = r]
  BY DEF ReadSegment, Held
<1>3. left \in SUBSET Names /\ more \in SUBSET Entries
  <2>1. procs[p].listed \in SUBSET Names /\ procs[p].result \in SUBSET Entries
    BY <1>1 DEF ProcRecord
  <2>2. Held(Named({name})) \in SUBSET Entries
    BY <1>1 DEF Held, Named, Segment
  <2> QED BY <2>1, <2>2
<1>4. Held({s \in archive : Name(s) \in procs[p].listed})
        \subseteq Held({s \in archive : Name(s) \in left}) \cup Held(Named({name}))
  BY DEF Held, Named
<1>5. procs[p].due \subseteq more \cup evicted \cup procs[p].moved
                              \cup Held({s \in archive : Name(s) \in left})
  <2> HIDE DEF left, name
  <2> QED BY <1>1, <1>4 DEF Owes
<1> HIDE DEF left, more
<1>6. /\ r \in ProcRecord /\ r.pc = "read" /\ r.op = procs[p].op /\ r.used = procs[p].used
      /\ r.due = procs[p].due
      /\ r.seq = procs[p].seq /\ r.born = procs[p].born /\ r.listed = left
      /\ r.result = more /\ r.moved = procs[p].moved
  BY <1>1, <1>3 DEF ProcRecord
<1> HIDE DEF r
<1>7. Behind(p, r, archive) /\ Chosen(r) /\ Owes(r, archive, evicted, acked)
  BY <1>1, <1>5, <1>6 DEF Behind, Chosen, Owes
<1> QED BY <1>1, <1>2, <1>6, <1>7, OneProcess

LEMMA CrashStep ==
  ASSUME IInv, NEW p \in Proc, Dies(p)
  PROVE  IInv'
<1> DEFINE r == [Idle EXCEPT !.pc = "dead"]
<1>1. procs' = [procs EXCEPT ![p] = r]
  BY DEF Dies
<1>2. r \in ProcRecord /\ r.pc = "dead" /\ r.due = {}
  <2>1. Idle \in ProcRecord /\ Idle.due = {}
    BY DEF Idle, ProcRecord
  <2> QED BY <2>1 DEF ProcRecord
<1> HIDE DEF r
<1>3. Behind(p, r, archive) /\ Chosen(r) /\ Owes(r, archive, evicted, acked)
  BY <1>2 DEF Behind, Chosen, Owes
<1> QED BY <1>1, <1>2, <1>3, OneProcess DEF Dies

\* What a reader finds survives a change of the archive if each entry under a
\* listed name is still under one, or was evicted, or is on its moved list.
LEMMA OwesStays ==
  ASSUME NEW r, NEW S, NEW gone, NEW written, Owes(r, S, gone, written),
         NEW T, NEW more, gone \subseteq more, NEW all, written \subseteq all,
         NEW q, q.pc = r.pc, q.op = r.op, q.used = r.used, q.due = r.due, q.result = r.result,
         q.listed = r.listed, r.moved \subseteq q.moved,
         r.op = "since" => \A s \in S : Name(s) \in r.listed => \A e \in s.entries :
           e \in more \/ e \in q.moved \/ \E t \in T : Name(t) \in r.listed /\ e \in t.entries
  PROVE  Owes(q, T, more, all)
<1>1. r.op = "since" => Held({s \in S : Name(s) \in r.listed})
        \subseteq more \cup q.moved \cup Held({t \in T : Name(t) \in r.listed})
  BY DEF Held
<1> QED BY <1>1 DEF Owes

\* What a step of the process p has to show when segments change and keep
\* their names.
LEMMA OneArchive ==
  ASSUME IInv, NEW p \in Proc, NEW r \in ProcRecord, procs' = [procs EXCEPT ![p] = r],
         archive' \subseteq Segment, legacy' \subseteq Entries, acked' \subseteq Entries,
         evicted' \subseteq Entries, day' = day,
         acked \subseteq acked', evicted \subseteq evicted',
         acked' \subseteq Held(archive') \cup evicted',
         \A s \in archive : \A e \in s.entries :
           e \in evicted' \/ \E t \in archive' : Name(t) = Name(s) /\ e \in t.entries,
         \A q \in Proc \ {p} : Behind(q, procs[q], archive'),
         procs[p].pc # "dead", Behind(p, r, archive'), Chosen(r),
         Owes(r, archive', evicted', acked')
  PROVE  IInv'
<1>1. \A q \in Proc : procs'[q] = IF q = p THEN r ELSE procs[q]
  BY DEF IInv, Typed
<1>2. Typed'
  BY DEF IInv, Typed
<1>3. \A o : ~Alive(o) => ~Alive(o)'
  BY <1>1 DEF Alive
<1>4. ASSUME NEW q \in Proc, q # p
      PROVE  Owes(procs[q], archive', evicted', acked')
  <2>1. Owes(procs[q], archive, evicted, acked)
    BY DEF IInv
  <2>2. \A s \in archive : Name(s) \in procs[q].listed => \A e \in s.entries :
          e \in evicted' \/ \E t \in archive' : Name(t) \in procs[q].listed /\ e \in t.entries
    OBVIOUS
  <2> QED BY <2>1, <2>2, OwesStays
<1>5. ASSUME NEW q \in Proc
      PROVE  /\ Behind(q, procs[q], archive)' /\ Chosen(procs[q])'
             /\ Owes(procs[q], archive, evicted, acked)'
  <2>1. CASE q = p
    BY <1>1, <1>3, <2>1 DEF Chosen, Behind
  <2>2. CASE q # p
    BY <1>1, <1>3, <1>4, <2>2 DEF Chosen, Behind, IInv
  <2> QED BY <2>1, <2>2
<1> QED BY <1>2, <1>5 DEF IInv

LEMMA MigrateStep ==
  ASSUME IInv, NEW p \in Proc, MigrateLegacy(p)
  PROVE  IInv' /\ Held(archive) \subseteq Held(archive')
<1> DEFINE old == [owner |-> Legacy, seq |-> 0, born |-> day, state |-> "closed",
                   entries |-> legacy]
           r == [procs[p] EXCEPT !.pc = "prepare"]
<1>1. /\ procs[p] \in ProcRecord /\ Behind(p, procs[p], archive)
      /\ Owes(procs[p], archive, evicted, acked) /\ procs[p].pc = "migrate"
      /\ archive \subseteq Segment
      /\ acked \subseteq Held(archive) \cup evicted
      /\ UNCHANGED <<day, acked, evicted>> /\ legacy' = {}
  BY DEF IInv, Typed, MigrateLegacy
<1>2. procs' = [procs EXCEPT ![p] = r] /\ (archive' = archive \/ archive' = archive \cup {old})
  BY DEF MigrateLegacy, Goto
<1>3. old \in Segment /\ old.owner \notin Proc
  BY AuditAssumption DEF Segment, IInv, Typed
<1> HIDE DEF old
<1>4. archive \subseteq archive' /\ archive' \subseteq Segment
      /\ \A s \in archive' : s \in archive \/ s.owner \notin Proc
  BY <1>1, <1>2, <1>3
<1>5. /\ r \in ProcRecord /\ r.pc = "prepare" /\ r.op = procs[p].op /\ r.used = procs[p].used
      /\ r.due = procs[p].due
      /\ r.seq = procs[p].seq /\ r.born = procs[p].born
  BY <1>1 DEF ProcRecord
<1> HIDE DEF r
<1>6. Behind(p, r, archive') /\ Chosen(r) /\ Owes(r, archive', evicted', acked')
  BY <1>1, <1>4, <1>5 DEF Behind, Chosen, Owes
<1>7. \A q \in Proc \ {p} : Behind(q, procs[q], archive')
  BY <1>4 DEF Behind, IInv
<1>8. Held(archive) \subseteq Held(archive')
  BY <1>4 DEF Held
<1>9. acked' \subseteq Held(archive') \cup evicted'
  BY <1>1, <1>8
<1>10. acked' \subseteq Entries /\ evicted' \subseteq Entries
  BY <1>1 DEF IInv, Typed
<1> QED BY <1>1, <1>2, <1>4, <1>5, <1>6, <1>7, <1>8, <1>9, <1>10, OneArchive

\* The victim of a claim becomes evicted.
LEMMA ClaimStep ==
  ASSUME IInv, NEW p \in Proc, Claim(p)
  PROVE  IInv'
<1> DEFINE taken == Named({procs[p].victim})
           next == IF taken = {} THEN "list" ELSE "unlink"
           r == [procs[p] EXCEPT !.victim = Nothing, !.pc = next]
<1>1. /\ procs[p] \in ProcRecord /\ Behind(p, procs[p], archive)
      /\ Owes(procs[p], archive, evicted, acked) /\ procs[p].pc = "claim"
      /\ archive \subseteq Segment
      /\ acked \subseteq Held(archive) \cup evicted
      /\ UNCHANGED <<legacy, day, acked>> /\ legacy \subseteq Entries
  BY DEF IInv, Typed, Claim
<1>2. /\ procs' = [procs EXCEPT ![p] = r]
      /\ archive' = archive \ taken /\ evicted' = evicted \cup Held(taken)
  BY DEF Claim, Held
<1>3. Held(archive) \subseteq Held(archive') \cup Held(taken)
  BY <1>2 DEF Held
<1>4. evicted' \subseteq Entries /\ acked' \subseteq Entries
  <2>1. Held(taken) \subseteq Entries
    BY <1>1 DEF Held, Named, Segment
  <2> QED BY <1>1, <1>2, <2>1 DEF IInv, Typed
<1>5. \A s \in archive : \A e \in s.entries : e \in evicted' \/ s \in archive'
  BY <1>2 DEF Held
<1> HIDE DEF taken
<1>6. /\ r \in ProcRecord /\ r.pc = next /\ r.op = procs[p].op /\ r.used = procs[p].used
      /\ r.due = procs[p].due
      /\ r.seq = procs[p].seq /\ r.born = procs[p].born
  BY <1>1 DEF ProcRecord
<1> HIDE DEF r
<1>7. Behind(p, r, archive') /\ Chosen(r) /\ Owes(r, archive', evicted', acked')
  BY <1>1, <1>2, <1>6 DEF Behind, Chosen, Owes
<1>8. \A q \in Proc \ {p} : Behind(q, procs[q], archive')
  BY <1>2 DEF Behind, IInv
<1>9. acked' \subseteq Held(archive') \cup evicted' /\ archive' \subseteq Segment
  BY <1>1, <1>2, <1>3
<1> QED BY <1>1, <1>2, <1>4, <1>5, <1>6, <1>7, <1>8, <1>9, OneArchive

\* The active segment grows under its name.
LEMMA AppendStep ==
  ASSUME IInv, NEW p \in Proc, AppendEntry(p)
  PROVE  IInv' /\ Held(archive) \subseteq Held(archive')
<1> DEFINE entry == <<p, procs[p].used>>
           kept == Held(Named({Current(p)}))
           active == [owner |-> p, seq |-> procs[p].seq, born |-> procs[p].born,
                      state |-> "open", entries |-> kept \cup {entry}]
           r == [procs[p] EXCEPT !.pc = "idle", !.op = Nothing, !.listed = {},
                                 !.result = {}, !.due = {}, !.moved = {}]
<1>1. /\ procs[p] \in ProcRecord /\ Behind(p, procs[p], archive)
      /\ Owes(procs[p], archive, evicted, acked)
      /\ procs[p].pc = "append" /\ archive \subseteq Segment
      /\ acked \subseteq Held(archive) \cup evicted /\ acked \subseteq Entries
      /\ evicted \subseteq Entries /\ legacy \subseteq Entries
      /\ UNCHANGED <<legacy, day, evicted>>
  BY DEF IInv, Typed, AppendEntry
<1>2. /\ procs' = [procs EXCEPT ![p] = r]
      /\ archive' = {s \in archive : Name(s) # Current(p)} \cup {active}
      /\ acked' = acked \cup {entry}
  BY DEF AppendEntry, Finished, Held
<1>3. entry \in Entries
  <2>1. procs[p].used \in Nat \ {0}
    BY <1>1 DEF Owes, ProcRecord
  <2> QED BY <2>1 DEF Entries
<1> HIDE DEF entry
<1>4. kept \subseteq Entries
  BY <1>1 DEF Held, Named, Segment
<1>5. \A s \in archive : Name(s) = Current(p) => s.entries \subseteq kept
  BY DEF Held, Named
<1> HIDE DEF kept
<1>6. /\ active \in Segment /\ active.owner = p /\ active.seq = procs[p].seq
      /\ active.born = procs[p].born /\ active.state = "open"
      /\ active.entries = kept \cup {entry} /\ Name(active) = Current(p)
  BY <1>1, <1>3, <1>4 DEF Segment, ProcRecord, Name, Current
<1> HIDE DEF active
<1>7. /\ r \in ProcRecord /\ r.pc = "idle" /\ r.due = {}
      /\ r.seq = procs[p].seq /\ r.born = procs[p].born
  BY <1>1 DEF ProcRecord
<1> HIDE DEF r
<1>8. archive' \subseteq Segment /\ acked' \subseteq Entries
  BY <1>1, <1>2, <1>3, <1>6
<1>9. \A s \in archive : \A e \in s.entries :
        \E t \in archive' : Name(t) = Name(s) /\ e \in t.entries
  <2> SUFFICES ASSUME NEW s \in archive, NEW e \in s.entries
               PROVE  \E t \in archive' : Name(t) = Name(s) /\ e \in t.entries
    OBVIOUS
  <2>1. CASE Name(s) = Current(p)
    BY <1>2, <1>5, <1>6, <2>1
  <2>2. CASE Name(s) # Current(p)
    BY <1>2, <2>2
  <2> QED BY <2>1, <2>2
<1>10. Held(archive) \subseteq Held(archive')
  BY <1>9 DEF Held
<1>11. acked' \subseteq Held(archive') \cup evicted'
  <2>1. entry \in Held(archive')
    BY <1>2, <1>6, HeldBy
  <2> QED BY <1>1, <1>2, <1>10, <2>1
<1>12. Behind(p, r, archive') /\ Chosen(r) /\ Owes(r, archive', evicted', acked')
  BY <1>1, <1>2, <1>6, <1>7 DEF Behind, Chosen, Owes
<1>13. \A q \in Proc \ {p} : Behind(q, procs[q], archive')
  BY <1>2, <1>6 DEF Behind, IInv
<1> QED BY <1>1, <1>2, <1>7, <1>8, <1>9, <1>10, <1>11, <1>12, <1>13, OneArchive

\* A rollover renames the active segment to a name that is free; whoever was
\* reading has its entries on the moved list.
LEMMA RollOverStep ==
  ASSUME IInv, NEW p \in Proc, procs[p].pc = "prepare", RollOver(p),
         UNCHANGED <<legacy, day, acked, evicted>>
  PROVE  IInv' /\ Held(archive) \subseteq Held(archive')
<1> DEFINE cur == Current(p)
           shut == [cur EXCEPT !.state = "closed"]
           closed == {[s EXCEPT !.state = "closed"] : s \in Named({cur})}
           lost == Held(Named({cur}))
           seq == procs[p].seq + 1
           r == [procs[p] EXCEPT !.pc = "claims", !.seq = seq, !.born = day]
           base == [procs EXCEPT ![p] = r]
           More(x) == IF x.op # "since" THEN x ELSE [x EXCEPT !.moved = @ \cup lost]
<1>1. /\ procs[p] \in ProcRecord /\ Behind(p, procs[p], archive)
      /\ Owes(procs[p], archive, evicted, acked) /\ archive \subseteq Segment
      /\ acked \subseteq Held(archive) \cup evicted /\ day \in Nat
      /\ procs \in [Proc -> ProcRecord]
  BY DEF IInv, Typed
<1>2. /\ cur.owner = p /\ cur.seq = procs[p].seq /\ cur.born = procs[p].born
      /\ cur.state = "open"
      /\ shut.owner = p /\ shut.seq = procs[p].seq /\ shut.state = "closed"
  BY DEF Current
<1>3. \A s \in Segment : /\ Name(s).owner = s.owner /\ Name(s).seq = s.seq
                        /\ Name(s).born = s.born /\ Name(s).state = s.state
  BY DEF Name, Segment
<1>4. \A s \in archive : Name(s) # shut
  <2>1. procs[p].seq \in Nat
    BY <1>1 DEF ProcRecord
  <2> HIDE DEF cur, shut
  <2> QED BY <1>1, <1>2, <1>3, <2>1 DEF Behind
<1>5. archive' = {s \in archive : Name(s) # cur} \cup closed
  <2>1. archive' = {s \in archive : Name(s) \notin {cur, shut}} \cup closed
    BY DEF RollOver, Closed
  <2> HIDE DEF cur, shut, closed
  <2> QED BY <1>4, <2>1
<1>6. \A s \in archive : Name(s) = cur => s.owner = p /\ s.seq = procs[p].seq
  <2> HIDE DEF cur, shut
  <2> QED BY <1>1, <1>2, <1>3
<1>7. \A s \in closed : s \in Segment /\ s.owner = p /\ s.seq = procs[p].seq
  BY <1>1, <1>6 DEF Segment, Named
<1>8. \A s \in archive : Name(s) = cur => \E t \in closed : t.entries = s.entries
  <2>1. \A s \in archive : [s EXCEPT !.state = "closed"].entries = s.entries
    BY <1>1 DEF Segment
  <2> QED BY <2>1 DEF Named
<1>9. \A s \in archive : Name(s) = cur => s.entries \subseteq lost
  BY DEF Held, Named
<1>10. lost \in SUBSET Entries
  BY <1>1 DEF Held, Named, Segment
<1>11. procs' = [q \in Proc |-> More(base[q])]
  <2>1. procs' = Moving(p, base)
    BY DEF RollOver
  <2> HIDE DEF base
  <2> QED BY <2>1 DEF Moving, Held
<1> HIDE DEF cur, shut, closed, lost
<1>12. archive' \subseteq Segment
  BY <1>1, <1>5, <1>7
<1>13. Held(archive) \subseteq Held(archive')
  BY <1>5, <1>8 DEF Held
<1>14. seq \in Nat /\ seq > procs[p].seq
  BY <1>1 DEF ProcRecord
<1> HIDE DEF seq
<1>15. /\ r \in ProcRecord /\ r.pc = "claims" /\ r.seq = seq /\ r.born = day
       /\ r.op = procs[p].op /\ r.used = procs[p].used /\ r.due = procs[p].due
  BY <1>1, <1>14 DEF ProcRecord
<1> HIDE DEF r
<1>16. \A q \in Proc : base[q] = IF q = p THEN r ELSE procs[q]
  BY <1>1
<1> HIDE DEF base
<1>17. ASSUME NEW x \in ProcRecord
       PROVE  /\ More(x) \in ProcRecord /\ More(x).pc = x.pc /\ More(x).op = x.op
              /\ More(x).seq = x.seq /\ More(x).born = x.born /\ More(x).used = x.used
              /\ More(x).listed = x.listed /\ More(x).victim = x.victim
              /\ More(x).result = x.result /\ More(x).due = x.due
              /\ x.moved \subseteq More(x).moved
              /\ x.op = "since" => lost \subseteq More(x).moved
  <2>1. CASE x.op # "since"
    BY <2>1
  <2>2. CASE x.op = "since"
    <3> DEFINE moved == x.moved \cup lost
    <3>1. moved \in SUBSET Entries /\ x.moved \subseteq moved /\ lost \subseteq moved
      BY <1>10 DEF ProcRecord
    <3>2. More(x) = [x EXCEPT !.moved = moved]
      BY <2>2
    <3> HIDE DEF moved, More
    <3> QED BY <3>1, <3>2 DEF ProcRecord
  <2> QED BY <2>1, <2>2
<1> HIDE DEF More
<1>18. \A q \in Proc : procs'[q] = More(IF q = p THEN r ELSE procs[q])
  BY <1>11, <1>16
<1>19. procs' \in [Proc -> ProcRecord]
  <2>1. \A q \in Proc : base[q] \in ProcRecord
    BY <1>1, <1>15, <1>16
  <2> QED BY <1>11, <1>17, <2>1
<1>20. Typed'
  BY <1>12, <1>19 DEF IInv, Typed
<1>21. \A o : ~Alive(o) => ~Alive(o)'
  <2>1. \A q \in Proc : procs[q].pc = "dead" => procs'[q].pc = "dead"
    BY <1>1, <1>17, <1>18
  <2> QED BY <2>1 DEF Alive
<1>22. ASSUME NEW q \in Proc
       PROVE  /\ Behind(q, procs'[q], archive') /\ Chosen(procs[q])'
              /\ Owes(procs'[q], archive', evicted', acked')
  <2>1. CASE q = p
    <3>1. procs'[q] = More(r)
      BY <1>18, <2>1
    <3>2. /\ procs'[q].pc = "claims" /\ procs'[q].seq = seq /\ procs'[q].due = procs[p].due
          /\ procs'[q].op = procs[p].op /\ procs'[q].used = procs[p].used
      BY <1>15, <1>17, <3>1
    <3>3. \A s \in archive' : s.owner = p => s.seq < seq
      <4> SUFFICES ASSUME NEW s \in archive', s.owner = p PROVE s.seq < seq
        OBVIOUS
      <4>1. CASE s \in closed
        BY <1>7, <1>14, <4>1 DEF ProcRecord
      <4>2. CASE s \in archive /\ Name(s) # cur
        <5>1. s.seq < procs[p].seq
              \/ (s.seq = procs[p].seq /\ s.born = procs[p].born /\ s.state = "open")
          BY <1>1, <4>2 DEF Behind
        <5>2. s.seq < procs[p].seq
          BY <4>2, <5>1 DEF Name, Current, cur
        <5> QED BY <1>1, <1>14, <4>2, <5>2 DEF ProcRecord, Segment
      <4> QED BY <1>5, <4>1, <4>2
    <3> QED BY <1>1, <2>1, <3>2, <3>3 DEF Behind, Chosen, Owes
  <2>2. CASE q # p
    <3>1. procs'[q] = More(procs[q]) /\ procs[q] \in ProcRecord
      BY <1>1, <1>18, <2>2
    <3>2. Behind(q, procs[q], archive) /\ Chosen(procs[q])
          /\ Owes(procs[q], archive, evicted, acked)
      BY DEF IInv
    <3>3. \A s \in archive' : s.owner = q => s \in archive
      BY <1>5, <1>7, <2>2
    <3>4. Behind(q, procs'[q], archive')
      BY <1>17, <3>1, <3>2, <3>3 DEF Behind
    <3>5. Chosen(procs[q])'
      BY <1>17, <1>21, <3>1, <3>2 DEF Chosen
    <3>6. procs[q].op = "since" => \A s \in archive : Name(s) \in procs[q].listed =>
            \A e \in s.entries :
              e \in evicted' \/ e \in procs'[q].moved
              \/ \E t \in archive' : Name(t) \in procs[q].listed /\ e \in t.entries
      BY <1>5, <1>9, <1>17, <3>1
    <3>7. Owes(procs'[q], archive', evicted', acked')
      BY <1>17, <3>1, <3>2, <3>6, OwesStays
    <3> QED BY <3>4, <3>5, <3>7
  <2> QED BY <2>1, <2>2
<1>23. IInv'
  BY <1>1, <1>13, <1>20, <1>22 DEF IInv, Held
<1> QED BY <1>13, <1>23

LEMMA PrepareStep ==
  ASSUME IInv, NEW p \in Proc, Prepare(p)
  PROVE  IInv' /\ Held(archive) \subseteq Held(archive')
<1>1. /\ procs[p] \in ProcRecord /\ Behind(p, procs[p], archive)
      /\ Owes(procs[p], archive, evicted, acked) /\ procs[p].pc = "prepare"
      /\ day \in Nat /\ UNCHANGED <<legacy, day, acked, evicted>>
  BY DEF IInv, Typed, Prepare
<1>2. CASE RollOver(p)
  BY <1>1, <1>2, RollOverStep
<1>3. CASE /\ ~CurrentExists(p) /\ UNCHANGED archive
           /\ procs' = [procs EXCEPT ![p].pc = "claims", ![p].seq = @ + 1, ![p].born = day]
  <2> DEFINE seq == procs[p].seq + 1
             r == [procs[p] EXCEPT !.pc = "claims", !.seq = seq, !.born = day]
  <2>1. procs' = [procs EXCEPT ![p] = r]
    BY <1>3
  <2>2. seq \in Nat /\ seq > procs[p].seq
    BY <1>1 DEF ProcRecord
  <2>3. \A s \in archive : s.owner = p => s.seq < seq
    BY <1>1, <1>3 DEF Behind, CurrentExists, Named, Name, Current, IInv, Typed, Segment, ProcRecord
  <2> HIDE DEF seq
  <2>4. /\ r \in ProcRecord /\ r.pc = "claims" /\ r.seq = seq
        /\ r.op = procs[p].op /\ r.used = procs[p].used /\ r.due = procs[p].due
    BY <1>1, <2>2 DEF ProcRecord
  <2> HIDE DEF r
  <2>5. Behind(p, r, archive) /\ Chosen(r) /\ Owes(r, archive, evicted, acked)
    BY <1>1, <2>3, <2>4 DEF Behind, Chosen, Owes
  <2>6. IInv'
    BY <1>1, <1>3, <2>1, <2>4, <2>5, OneProcess
  <2> QED BY <1>3, <2>6
<1>4. CASE Goto(p, "claims") /\ UNCHANGED archive
  BY <1>1, <1>4, GotoStep
<1> QED BY <1>2, <1>3, <1>4 DEF Prepare

\* The inductive invariant is kept by every step, and so is every segment that
\* is open and whose owner lives.
LEMMA NextIInv ==
  ASSUME IInv, [AuditNext]_auditVars
  PROVE  /\ IInv'
         /\ \A s \in archive :
              s.state = "open" /\ Alive(s.owner) => s.entries \subseteq Held(archive')
<1>1. ASSUME UNCHANGED archive
      PROVE  \A s \in archive : s.entries \subseteq Held(archive')
  BY <1>1 DEF Held
<1>2. ASSUME Held(archive) \subseteq Held(archive')
      PROVE  \A s \in archive : s.entries \subseteq Held(archive')
  BY <1>2 DEF Held
<1>3. CASE UNCHANGED auditVars
  <2>1. IInv'
    BY <1>3 DEF IInv, Typed, Behind, Chosen, Owes, Alive, auditVars
  <2> QED BY <1>1, <1>3, <2>1 DEF auditVars
<1>4. CASE Tick
  <2>1. day' \in Nat
    BY <1>4 DEF Tick, IInv, Typed
  <2>2. IInv'
    BY <1>4, <2>1 DEF Tick, IInv, Typed, Behind, Chosen, Owes, Alive
  <2> QED BY <1>1, <1>4, <2>2 DEF Tick
<1>5. ASSUME NEW p \in Proc, StartAppend(p) \/ StartSince(p) \/ AuditStep(p) \/ Dies(p)
      PROVE  /\ IInv'
             /\ \A s \in archive :
                  s.state = "open" /\ Alive(s.owner) => s.entries \subseteq Held(archive')
  <2>1. CASE StartAppend(p) \/ StartSince(p)
    BY <1>1, <2>1, StartStep DEF StartAppend, StartSince
  <2>2. CASE Dies(p)
    BY <1>1, <2>2, CrashStep DEF Dies
  <2>3. CASE MigrateLegacy(p)
    BY <1>2, <2>3, MigrateStep
  <2>4. CASE Prepare(p)
    BY <1>2, <2>4, PrepareStep
  <2>5. CASE RemoveDeletionClaims(p)
    BY <1>1, <2>5, GotoStep DEF RemoveDeletionClaims
  <2>6. CASE List(p)
    BY <1>1, <2>6, ListStep DEF List
  <2>7. CASE Decide(p)
    BY <1>1, <2>7, DecideStep DEF Decide
  <2>8. CASE Claim(p)
    <3>1. IInv'
      BY <2>8, ClaimStep
    <3>2. ASSUME NEW s \in archive, s.state = "open", Alive(s.owner) PROVE s \in archive'
      <4>1. Chosen(procs[p]) /\ procs[p].pc = "claim" /\ s \in Segment
        BY <2>8 DEF IInv, Typed, Claim
      <4>2. Name(s).state = "open" /\ Name(s).owner = s.owner
        BY <3>2 DEF Name
      <4>3. Name(s) # procs[p].victim
        BY <3>2, <4>1, <4>2 DEF Chosen
      <4> QED BY <2>8, <4>3 DEF Claim, Named
    <3> QED BY <3>1, <3>2 DEF Held
  <2>9. CASE Unlink(p)
    BY <1>1, <2>9, GotoStep DEF Unlink
  <2>10. CASE AppendEntry(p)
    BY <1>2, <2>10, AppendStep
  <2>11. CASE CheckBytes(p)
    BY <1>1, <2>11, CheckBytesStep DEF CheckBytes
  <2>12. CASE ReadSegment(p)
    BY <1>1, <2>12, ReadSegmentStep DEF ReadSegment
  <2>13. CASE Return(p)
    BY <1>1, <2>13, FinishedStep DEF Return
  <2> QED BY <1>5, <2>1, <2>2, <2>3, <2>4, <2>5, <2>6, <2>7, <2>8, <2>9, <2>10, <2>11,
             <2>12, <2>13 DEF AuditStep
<1> QED BY <1>3, <1>4, <1>5 DEF AuditNext

LEMMA IInvHolds == AuditSpec => []IInv
<1>1. IInv /\ [AuditNext]_auditVars => IInv'
  BY NextIInv
<1> QED BY <1>1, InitIInv, PTL DEF AuditSpec
-----------------------------------------------------------------------------
\* Rollover, migration, crashes and the renames of other processes lose no
\* acknowledged entry: it is in a segment until that segment is evicted.
THEOREM EvidenceIsKept == AuditSpec => []EvidenceKept
<1>1. IInv => EvidenceKept
  BY DEF IInv, EvidenceKept, Held
<1> QED BY <1>1, IInvHolds, PTL

\* A pruner that acts on an old listing never takes the segment a living
\* process is writing (maintain, claimAndDelete).
THEOREM ActiveEvidenceIsSafe == AuditSpec => ActiveEvidenceSafe
<1>1. IInv /\ [AuditNext]_auditVars =>
        (\A s \in archive :
           s.state = "open" /\ Alive(s.owner) =>
             s.entries \subseteq UNION {t.entries : t \in archive'})
  BY NextIInv DEF Held
<1> QED BY <1>1, IInvHolds, PTL DEF AuditSpec, ActiveEvidenceSafe

\* What since returns lacks an acknowledged entry only if its segment was
\* evicted, or renamed by its owner while the read was going on.
THEOREM ReadsAreComplete == AuditSpec => []ReadOmitsOnlyMoved
<1>1. IInv => ReadOmitsOnlyMoved
  <2> SUFFICES ASSUME IInv, NEW p \in Proc, procs[p].pc = "read", procs[p].listed = {}
               PROVE  procs[p].due \subseteq procs[p].result \cup evicted \cup procs[p].moved
    BY DEF ReadOmitsOnlyMoved
  <2>1. Owes(procs[p], archive, evicted, acked)
    BY DEF IInv
  <2>2. Held({s \in archive : Name(s) \in procs[p].listed}) = {}
    BY DEF Held
  <2> QED BY <2>1, <2>2 DEF Owes
<1> QED BY <1>1, IInvHolds, PTL
=============================================================================
